SPECIFICATION FairSpec
CONSTANTS
    P = P
    Q = Q
    Proc = {P, Q}
    InstOf <- MCInstOf
    NInst = 2
    MaxWeight = 2
    Policies = {"best_effort", "fair_preemption", "fair_fixed"}
    MaxInsts = {1, 2}
    Cmd = {c1}
    Kthread = {k1}
    NULL = NULL
    ErrPtr = ErrPtr
    StartMayFail = FALSE
INVARIANT BoundedWaiting
PROPERTY MarkedIsServed
