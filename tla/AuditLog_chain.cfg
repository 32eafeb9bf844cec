SPECIFICATION Spec
CONSTANTS
    Thread = {t1, t2}
    Main = main
    Every = 2
    Faults = {"clean", "torn", "unsynced", "publish", "late", "garbled"}
    MaxEntries = 5
    MaxCrashes = 2
    MaxRewrites = 1
INVARIANT
    RestartAccepts
    OwnLogPasses
    RewriteDetected
    UnprotectedBelowInterval
SYMMETRY Symmetry
CHECK_DEADLOCK FALSE
