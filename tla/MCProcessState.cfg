\* three calls of any kind, four Kerberos configurations
CONSTANTS
    c1 = c1 c2 = c2 c3 = c3
    Calls = {c1, c2, c3}
    Kinds = {"fetch", "get", "certsrv", "icpr"}
    MaxAddresses = 2
    System = System
    Configs <- mcConfigs
SYMMETRY mcSym
SPECIFICATION Spec
INVARIANTS ProcessInv OwnPeer
CHECK_DEADLOCK FALSE
