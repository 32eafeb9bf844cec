SPECIFICATION ESpec
CONSTANTS
    Req = {r1, r2}
    Path = {p}
    a = a
    b = b
    Content = {a, b}
    Key = {k}
    None = None
    Absent = Absent
    Unavailable = Unavailable
    Proposals <- AuditProposals
    ReadGate = FALSE
    Vouched = {}
    Private = {}
    Faults = {}
    MaxInFlight = 1
    MaxCrashes = 1
    MaxForeign = 0
INVARIANT
    LiveAuditNeverAccuses
    ReportTellsWhatHappened
