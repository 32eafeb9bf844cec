SPECIFICATION GSpec
CONSTANTS
    c1 = c1
    c2 = c2
    c3 = c3
    held = held
    allowed = allowed
    other = other
    Call = {c1, c2, c3}
    Admissible = {c1, c2}
    Large = {c2}
    None = None
    Faults = {}
    Requested <- EachItsOwn
    Authorized = {allowed}
    InitialTools = {held}
    Expansion = {}
    MaxAtOnce = 2
INVARIANT
    ScopeIsCumulative
    LinesNameTheirCall
CHECK_DEADLOCK FALSE
