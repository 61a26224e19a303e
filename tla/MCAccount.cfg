SPECIFICATION Spec
CONSTANTS
  n1 = n1
  n2 = n2
  x1 = x1
  x2 = x2
  j1 = j1
  j2 = j2
  k1 = k1
  kid1 = kid1
  NoAccount = NoAccount
  NoKid = NoKid
  Requests = {n1, n2, x1, x2}
  Jwks = {j1, j2}
  Keys = {k1}
  KeyIn <- mcKeyIn
  Kids = {kid1}
  Asks <- mcAsks
  JwkOf <- mcJwkOf
  NewJwk <- mcNewJwk
  Kid <- mcKid
  Backends = {TRUE, FALSE}
  EabCheck = TRUE
  EabStrict = TRUE
  EabLoaded = TRUE
  KidCheck = TRUE
  KidDeactivate = TRUE
  MaxTime = 1
  Faults = {"db", "eab"}
SYMMETRY mcSym
INVARIANTS AccountInv OneAccountPerKey UpdatesKept KeyWasShown DeactivatedForCause
CHECK_DEADLOCK FALSE
