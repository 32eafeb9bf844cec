SPECIFICATION Spec
CONSTANTS
    Req = {r1, r2, r3}
    i1 = i1
    i2 = i2
    r1 = r1
    Intent = {i1}
    None = None
    Granted <- OneEach
    Line <- TwoForWrites
    Asks <- TwoWrites
    Faults = {}
    MaxFailures = 0
    MaxCrashes = 1
    MaxEdits = 0
    MaxRevocations = 0
INVARIANT
    NoOverspend
    IntentsNotLost
