SPECIFICATION CSpec
CONSTANTS
    Op = {o1, o2, o3}
    Content = {a, b, c}
    Absent = Absent
    Link = Link
    Sealed = Sealed
    AnyState = AnyState
    Unset = Unset
    MaxEdits = 1
    MaxCrashes = 0
SYMMETRY Symmetric
INVARIANT
    NothingDestroyed
    NothingBlind
CHECK_DEADLOCK FALSE
