SPECIFICATION Spec
CONSTANTS
    Thread = {t1, t2}
    Fd = {d1, d2, d3}
    File = {f1, f2, f3}
    NULL = NULL
INVARIANTS
    RedirectedByCall
    RedirectedInDriver
    Survives
SYMMETRY MCSymmetry
CHECK_DEADLOCK FALSE
