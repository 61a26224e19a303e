\* two orders, at most two accepted finalize requests
SPECIFICATION Spec
CONSTANTS
    a1 = a1
    a2 = a2
    Accounts = {a1, a2}
    Orders = {1, 2}
    Cases <- MCCases
    MaxRows = 2
INVARIANTS IssuanceInv NamesAuthorized PolicyKept
CHECK_DEADLOCK FALSE
