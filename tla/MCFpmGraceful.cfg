SPECIFICATION FairSpec
CONSTANTS
    c1 = c1
    c2 = c2
    c3 = c3
    NPools = 1
    Config <- StaticPool
    ProcessMax = 0
    Threshold = 0
    MaxSpawnRate = 2
    Pids = {c1, c2}
    Commands = {"2"}
    MaxCommands = 1
    MaxDeaths = 0
    MaxForkFails = 0
    MaxConn = 1
PROPERTIES GracefulEnds
CHECK_DEADLOCK FALSE
