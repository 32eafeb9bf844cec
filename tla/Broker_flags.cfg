SPECIFICATION Spec
CONSTANTS
    Req = {r1, r2}
    Path = {p}
    Content = {a, b}
    Key = {k}
    None = None
    Absent = Absent
    Unavailable = Unavailable
    Proposals <- FileProposals
    ReadGate = FALSE
    Vouched = {}
    Private = {}
    Faults = {}
    MaxInFlight = 2
    MaxCrashes = 0
    MaxForeign = 0
INVARIANT
    LegitimateNeverFlags
    FailureIsNonEffect
