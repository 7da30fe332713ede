SPECIFICATION Spec
CONSTANTS
    Gpu <- MCGpu
    InitGpus <- MCInitGpus
    Obj <- MCObj
    Writer <- MCWriter
    Lists <- MCLists
    Slots <- MCSlots
    NULL = NULL
    x = x
    y = y
    v = v
    w = w
SYMMETRY Symmetry
INVARIANTS
    TypeOK
    OwnBoard
    NothingForgotten
    ListedIsPresent
    OpensOwnGpu
