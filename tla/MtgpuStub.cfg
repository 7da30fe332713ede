SPECIFICATION Spec
CONSTANTS
    Pdev = {p1, p2, p3}
    NSlots = 2
    OtherCards <- MCOtherCards
    None = None
INVARIANTS
    SlotsMatchDevices
    CdevReferences
    SameDevice
SYMMETRY MCSymmetry
CHECK_DEADLOCK FALSE
