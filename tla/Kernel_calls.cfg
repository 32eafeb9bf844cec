SPECIFICATION FairSpec
CONSTANTS
    Call = {c1, c2, c3}
    Admissible = {c1, c2}
    Large = {c2}
    None = None
    Faults = {"half", "repeats"}
PROPERTY
    EveryCallEnds
    RestartedFirst
CHECK_DEADLOCK FALSE
