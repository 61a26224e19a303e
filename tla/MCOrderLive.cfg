\* two identifiers, one of them prevalidated; every request is answered
CONSTANTS
    o1 = o1 a1 = a1 a2 = a2 f1 = f1 f2 = f2 p1 = p1 z1 = z1
    Orders = {o1}
    Authzs = {a1, a2}
    OrderOf <- mcTwoAuthz
    Requests = {f1, z1}
    Kind <- mcKindOf
    Target <- mcTarget
    AuthzTarget <- mcAuthzTarget
    Prevalidated = {a1}
    OrderValidity = 1
    AuthzValidity = 1
    MaxTime = 1
    ExpiryCheckDisable = FALSE
    IdempotentFinalize = TRUE
    AsyncMode = FALSE
    AuthzExpiryStored = TRUE
    Polled = {}
    Faults = {"ca", "db"}
    NoName = NoName
    TimeoutName = TimeoutName
SPECIFICATION FairSpec
INVARIANTS IssuedAuthorized
PROPERTIES EveryRequestAnswered
CHECK_DEADLOCK FALSE
