SPECIFICATION CSpec
CONSTANTS
    Op = {o1, o2, o3}
    Content = {a, b, c}
    Absent = Absent
    Link = Link
    Sealed = Sealed
    AnyState = AnyState
    Unset = Unset
    MaxEdits = 2
    MaxCrashes = 1
SYMMETRY Symmetric
INVARIANT
    NothingLost
PROPERTY
    ImplementsAtomicCas
CHECK_DEADLOCK FALSE
