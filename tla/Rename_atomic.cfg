SPECIFICATION FairSpec
CONSTANTS
    Req = {r1, r2}
    Path = {s, d}
    None = None
    Absent = Absent
    Ours = Ours
    Alien = Alien
    FirstWrite = FirstWrite
    ForeignPaths = {d}
    SignFails = TRUE
    RecordFails = TRUE
    MaxCrashes = 2
    MaxForeign = 2
INVARIANT
    NoFileLost
    NeverLaunders
PROPERTY
    ImplementsAtomicMove
    EveryRenameClosed
CHECK_DEADLOCK FALSE
