SPECIFICATION Spec
CONSTANTS
    P = P
    Q = Q
    Proc = {P, Q}
    InstOf <- MCInstOf
    NInst = 2
    MaxWeight = 1
    Policies = {"fair_fixed"}
    MaxInsts = {2}
    Cmd = {c1}
    Kthread = {k1}
    NULL = NULL
    ErrPtr = ErrPtr
    StartMayFail = FALSE
INVARIANT SignalledAfterSubmit
