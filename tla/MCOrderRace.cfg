\* two finalize requests race for one order, database calls may fail
CONSTANTS
    o1 = o1 a1 = a1 a2 = a2 f1 = f1 f2 = f2 p1 = p1 z1 = z1
    Orders = {o1}
    Authzs = {a1}
    OrderOf <- mcOneAuthz
    Requests = {f1, f2}
    Kind <- mcKindOf
    Target <- mcTarget
    AuthzTarget <- mcAuthzTarget
    Prevalidated = {}
    OrderValidity = 1
    AuthzValidity = 1
    MaxTime = 1
    ExpiryCheckDisable = FALSE
    IdempotentFinalize = FALSE
    AsyncMode = FALSE
    AuthzExpiryStored = FALSE
    Polled = {}
    Faults = {"db"}
    NoName = NoName
    TimeoutName = TimeoutName
SPECIFICATION Spec
INVARIANTS OrderInv ClaimExclusive NoClaimOfExpired
CHECK_DEADLOCK FALSE
SYMMETRY mcSym
