SPECIFICATION GFairSpec
CONSTANTS
    c1 = c1
    c2 = c2
    c3 = c3
    held = held
    allowed = allowed
    other = other
    Call = {c1, c2, c3}
    Admissible = {c1, c2}
    Large = {c2}
    None = None
    Faults = {"start", "dies", "stuck", "repeats", "noise", "value", "half"}
    Requested <- EachItsOwn
    Authorized = {allowed}
    InitialTools = {held}
    Expansion = {allowed}
    MaxAtOnce = 2
INVARIANT
    DecidedAsRecorded
    RejectedForOwnReason
    DriftIsExact
PROPERTY
    EndsUnlessBlocked
CHECK_DEADLOCK FALSE
