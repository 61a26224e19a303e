\* a finalize request, a polling request, the poll tool, and every fault
CONSTANTS
    o1 = o1 a1 = a1 a2 = a2 f1 = f1 f2 = f2 p1 = p1 z1 = z1
    Orders = {o1}
    Authzs = {a1}
    OrderOf <- mcOneAuthz
    Requests = {f1, p1}
    Kind <- mcKindOf
    Target <- mcTarget
    AuthzTarget <- mcAuthzTarget
    Prevalidated = {}
    OrderValidity = 1
    AuthzValidity = 1
    MaxTime = 1
    ExpiryCheckDisable = FALSE
    IdempotentFinalize = FALSE
    AsyncMode = FALSE
    AuthzExpiryStored = FALSE
    Polled = {f1}
    Faults = {"db", "hook", "ca", "crash"}
    NoName = NoName
    TimeoutName = TimeoutName
SPECIFICATION Spec
INVARIANTS ValidHasCertificate UrlServesCertificate
PROPERTIES CertificateKept
CHECK_DEADLOCK FALSE
