SPECIFICATION FairSpec
CONSTANTS
    Req = {r1, r2}
    i1 = i1
    i2 = i2
    r1 = r1
    Intent = {i1, i2}
    None = None
    Granted <- OneEach
    Line <- OneForCalls
    Asks <- WriteAnd
    Faults = {"save", "append", "kernel"}
    MaxFailures = 1
    MaxCrashes = 1
    MaxEdits = 1
    MaxRevocations = 1
INVARIANT
    IntentsConserved
    SettledOneWay
    RevokedNeverUsed
PROPERTY
    ImplementsLedger
    ResolvedIsSettled
    RequestsEndBrokerReturns
CHECK_DEADLOCK FALSE
