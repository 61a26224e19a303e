SPECIFICATION ThreadSpec
CONSTANTS
  a1 = a1
  a2 = a2
  v1 = v1
  v2 = v2
  p1 = p1
  p2 = p2
  alice = alice
  bob = bob
  Accounts = {alice, bob}
  Holder <- mcHolder
  NoRow = NoRow
  Posts = {p1, p2}
  Authzs = {a1, a2}
  Sort <- mcEmailTnauth
  Views = {v1, v2}
  About <- mcAboutOwn
  Sender <- mcSender
  DnsPersist = TRUE
  EmailSupport = TRUE
  TnauthSupport = TRUE
  SectigoSim = TRUE
  ValidationDisabled = FALSE
  ProfileDisabled = {a2}
  AddressChecked = {a2}
  AsyncMode = FALSE
  Django = TRUE
  RetryLimit = 5
  Faults = {"db", "profile"}
INVARIANTS ValidWasShown ProcessingIsWorkedOn
PROPERTY ProcessingEnds
CHECK_DEADLOCK FALSE
