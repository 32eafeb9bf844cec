SPECIFICATION Spec
CONSTANTS
    Req = {r1}
    Path = {p}
    Content = {a, b}
    Key = {k}
    None = None
    Absent = Absent
    Unavailable = Unavailable
    Proposals <- FileProposals
    ReadGate = FALSE
    Vouched = {}
    Private = {}
    Faults = {}
    MaxInFlight = 1
    MaxCrashes = 0
    MaxForeign = 1
INVARIANT
    CleanMeansAttested
