SPECIFICATION Spec
CONSTANTS
    Writer = {w1, w2, w3}
    Name = {n1, n2}
    NInst = 2
    None = None
INVARIANTS
    SeparateInstances
    DirectoryIsFound
    NoLostInstance
    TenantsApart
PROPERTIES
    HomesRefined
SYMMETRY MCSymmetry
