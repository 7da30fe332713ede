SPECIFICATION Spec
CONSTANTS
    Caller = {c1, c2}
    Inst = {i1, i2}
    Task = {p1}
    Half = 2
    InitTotal = 1
    SizeInputs = {5, 65}
    SliceInputs = {1, 3, 100}
    Archs = {"SUDI", "QUYUAN"}
    Board = 4
    MaxCharge = 1
    WordSize = 128
    None = None
INVARIANTS
    TypeOK
    RepliesAgree
    
    SliceOrdered
SYMMETRY MCSymmetry
