SPECIFICATION Spec
CONSTANTS
  r1 = r1
  r2 = r2
  r3 = r3
  j1 = j1
  j2 = j2
  a1 = a1
  a2 = a2
  NoRow = NoRow
  Removed = Removed
  Rows = {r1, r3}
  Legacy = {r3}
  Jobs = {j1, j2}
  JobKinds <- MCJobKinds
  Accounts = {a1, a2}
  Csr <- MCCsr
  Backends = {TRUE, FALSE}
  ReuseTime = 1
  Life = 2
  InFlight = 0
  MaxTime = 2
  Faults = {"db"}
SYMMETRY MCSym
INVARIANTS CertificatesInv CertificateFits IssuedIsKept ReplacedStays
CHECK_DEADLOCK FALSE
