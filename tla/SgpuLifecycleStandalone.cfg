SPECIFICATION Spec
CONSTANTS
    P = P
    Q = Q
    File = {P, Q}
    InstOf <- MCInstOf
    NInst = 2
    MaxInsts = {1, 2}
    DeviceSets <- MCDeviceSets
    Kthread = {k1, k2}
    NULL = NULL
    ErrPtr = ErrPtr
INVARIANTS
    StandaloneOpens
CHECK_DEADLOCK FALSE
