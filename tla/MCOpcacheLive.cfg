SPECIFICATION FairSpec
CONSTANTS
    p1 = p1
    p2 = p2
    NoProc = NoProc
    Procs = {p1, p2}
    Files = {f1}
    Cap = 2
    MaxWasted = 1
    ForceRestart = FALSE
    Resetters = {}
    Invalidators = {}
    MaxRestarts = 2
    MaxVersion = 1
    MaxCrashes = 0
INVARIANTS AccountingExact StaleKeysDetected
PROPERTIES CacheReenabled
