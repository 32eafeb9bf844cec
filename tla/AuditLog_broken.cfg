SPECIFICATION Spec
CONSTANTS
    Thread = {t1, t2}
    Main = main
    Every = 1
    Faults = {"unsynced", "publish"}
    MaxEntries = 4
    MaxCrashes = 0
    MaxRewrites = 0
INVARIANT
    OnlyEditsBreakTheChain
    EndsWithStop
    FailuresRecorded
CHECK_DEADLOCK FALSE
