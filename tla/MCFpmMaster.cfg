SPECIFICATION Spec
CONSTANTS
    c1 = c1
    c2 = c2
    c3 = c3
    NPools = 2
    Config <- DynamicOndemand
    ProcessMax = 2
    Threshold = 1
    MaxSpawnRate = 2
    Pids = {c1, c2, c3}
    Commands = {"T", "Q", "2"}
    MaxCommands = 1
    MaxDeaths = 1
    MaxForkFails = 0
    MaxConn = 1
INVARIANTS TypeOK NoOrphans ChildrenAccounted WithinLimits AllTold
SYMMETRY Symmetry
CHECK_DEADLOCK FALSE
