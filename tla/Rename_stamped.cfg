SPECIFICATION Spec
CONSTANTS
    Req = {r1}
    Path = {s, d}
    None = None
    Absent = Absent
    Ours = Ours
    Alien = Alien
    FirstWrite = FirstWrite
    ForeignPaths = {s, d}
    SignFails = FALSE
    RecordFails = TRUE
    MaxCrashes = 1
    MaxForeign = 1
PROPERTY
    OnlyOntoOurOwn
CHECK_DEADLOCK FALSE
