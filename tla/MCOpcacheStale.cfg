SPECIFICATION Spec
CONSTANTS
    p1 = p1
    p2 = p2
    NoProc = NoProc
    Procs = {p1, p2}
    Files = {f1}
    Cap = 1
    MaxWasted = 1
    ForceRestart = FALSE
    Resetters = {p1, p2}
    Invalidators = {}
    MaxRestarts = 1
    MaxVersion = 0
    MaxCrashes = 0
INVARIANTS CountedIsSafe
SYMMETRY Symmetry
