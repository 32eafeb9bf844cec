SPECIFICATION Spec
CONSTANTS
    Req = {r1, r2, r3}
    Path = {p, q}
    Content = {a, b}
    Key = {k}
    None = None
    Absent = Absent
    Unavailable = Unavailable
    Proposals <- GateProposals
    ReadGate = TRUE
    Vouched <- OneVouched
    Private <- OnePrivate
    Faults = {}
    MaxInFlight = 2
    MaxCrashes = 0
    MaxForeign = 1
INVARIANT
    CleanWorldIsLogged
PROPERTY
    GatedReadIsLatest
SYMMETRY RequestsAlike
