SPECIFICATION Spec
CONSTANTS
    Req = {r1, r2}
    i1 = i1
    i2 = i2
    r1 = r1
    Intent = {i1, i2}
    None = None
    Granted <- OneEach
    Line <- TwoForWrites
    Asks <- TwoWrites
    Faults = {"save"}
    MaxFailures = 1
    MaxCrashes = 0
    MaxEdits = 1
    MaxRevocations = 0
INVARIANT
    FreezeMeansEdit
PROPERTY
    FrozenFileNotWritten
