SPECIFICATION FairSpec
CONSTANTS
    c1 = c1
    c2 = c2
    c3 = c3
    NPools = 1
    Config <- DynamicSingle
    ProcessMax = 0
    Threshold = 0
    MaxSpawnRate = 2
    Pids = {c1}
    Commands = {"T", "Q", "2"}
    MaxCommands = 2
    MaxDeaths = 1
    MaxForkFails = 1
    MaxConn = 1
PROPERTIES TerminationEnds DynamicRecovers
CHECK_DEADLOCK FALSE
