SPECIFICATION Spec
CONSTANTS
    P = P
    Q = Q
    Proc = {P, Q}
    InstOf <- MCInstOf
    NInst = 2
    MaxWeight = 1
    Policies = {"fair_fixed"}
    MaxInsts = {2}
    Cmd = {c1, c2}
    Kthread = {k1, k2}
    NULL = NULL
    ErrPtr = ErrPtr
    StartMayFail = TRUE
INVARIANTS
    SingleScheduler
    PendingArmed
    StaysAttended
PROPERTIES
    FencesRefined
SYMMETRY MCSymmetry
