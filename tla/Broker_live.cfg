SPECIFICATION FairSpec
CONSTANTS
    Req = {r1, r2}
    Path = {p}
    Content = {a}
    Key = {k}
    None = None
    Absent = Absent
    Unavailable = Unavailable
    Proposals <- LiveProposals
    ReadGate = TRUE
    Vouched = {}
    Private = {}
    Faults = {"refuse", "append", "exec", "observe"}
    MaxInFlight = 2
    MaxCrashes = 1
    MaxForeign = 0
PROPERTY
    EveryRequestAnswered
    StartupFinishes
CHECK_DEADLOCK FALSE
