CONSTANTS
    f1 = f1
    f2 = f2
    m1 = m1
    Values <- MCValues
    MetaTables <- MCMetaTables
    Nil = Nil
    Reserved = 4
    CheckValue = 3
    MaxSlot = 8
SPECIFICATION Spec
SYMMETRY Symmetry
INVARIANTS
    OwnersSeeTheirValue
    FixedMapAgrees
    NoSlotLost
    LengthSearched
PROPERTIES
    ReservedKept
    ImplementsRefTable
