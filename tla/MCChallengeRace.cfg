SPECIFICATION Spec
CONSTANTS
  a1 = a1
  a2 = a2
  v1 = v1
  v2 = v2
  p1 = p1
  p2 = p2
  alice = alice
  bob = bob
  Accounts = {alice, bob}
  Holder <- mcHolder
  NoRow = NoRow
  Posts = {p1, p2}
  Authzs = {a1}
  Sort <- mcWildcard
  Views = {v1, v2}
  About <- mcAbout
  Sender <- mcAlice
  DnsPersist = FALSE
  EmailSupport = FALSE
  TnauthSupport = FALSE
  SectigoSim = FALSE
  ValidationDisabled = FALSE
  ProfileDisabled = {}
  AddressChecked = {}
  AsyncMode = FALSE
  Django = FALSE
  RetryLimit = 5
  Faults = {"db", "crash"}
SYMMETRY mcSym
INVARIANTS ChallengeInv SettledAgrees
CHECK_DEADLOCK FALSE
