SPECIFICATION Spec
CONSTANTS
    Req = {r1, r2}
    Path = {p}
    Content = {a, b}
    Key = {k}
    None = None
    Absent = Absent
    Unavailable = Unavailable
    Proposals <- LiveProposals
    ReadGate = FALSE
    Vouched = {}
    Private = {}
    Faults = {"late"}
    MaxInFlight = 1
    MaxCrashes = 0
    MaxForeign = 0
INVARIANT
    FailedKeyAppliedNothing
