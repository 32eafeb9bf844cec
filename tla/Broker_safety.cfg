SPECIFICATION Spec
CONSTANTS
    Req = {r1, r2, r3}
    Path = {p}
    Content = {a}
    Key = {k}
    None = None
    Absent = Absent
    Unavailable = Unavailable
    Proposals <- MixedProposals
    ReadGate = FALSE
    Vouched = {}
    Private = {}
    Faults = {"append", "hook", "late", "refuse", "xattr"}
    MaxInFlight = 2
    MaxCrashes = 2
    MaxForeign = 0
INVARIANT
    TypeOK
    EvidenceBeforeEffect
    AtMostOncePerKey
    ClosedOnce
    RestartKeepsAnswers
    NoFalseTamper
    SerialWorldMatchesLog
SYMMETRY Symmetry
