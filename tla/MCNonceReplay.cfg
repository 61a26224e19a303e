\* signed requests with the same nonces in two processes, every fault
CONSTANTS
    k1 = k1 w1 = w1 q1 = q1 q2 = q2
    m1 = m1 m2 = m2 m3 = m3
    Nonces = {m1, m2, m3}
    Processes = {1, 2}
    Requests = {k1, w1, q1, q2}
    Kind <- mcKind
    ProcessOf <- mcProcessOf
    Validity = 1
    DefaultValidity = 1
    Django = TRUE
    Faults = {"db", "crash"}
    MaxTime = 2
    NoNonce = NoNonce
SPECIFICATION Spec
INVARIANTS NonceInv NonceUsedOnce RefusedForCause
PROPERTIES ImplementsOneTimeToken
CHECK_DEADLOCK FALSE
SYMMETRY mcSym
