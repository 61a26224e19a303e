SPECIFICATION Spec
CONSTANTS
  e1 = e1
  e2 = e2
  r1 = r1
  r2 = r2
  r3 = r3
  n1 = n1
  n2 = n2
  nb = nb
  NoName = NoName
  NoCall = NoCall
  Absent = Absent
  Unparsable = Unparsable
  Enrollers = {e1, e2}
  Revokers = {r1, r2, r3}
  Names = {n1, n2, nb}
  BlockAllNames = {nb}
  Csrs <- MCCsrs
  Confs <- MCConfs
SYMMETRY MCSym
INVARIANTS LocalCaInv RevokedIsListed IssuedWithinPolicy ValidWithinChain
CHECK_DEADLOCK FALSE
