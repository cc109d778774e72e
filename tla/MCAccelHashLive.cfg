SPECIFICATION MCFairSpec
CONSTANTS
    x = x
    y = y
    k = k
    z = z
    NoName = NoName
    FileNames = {x, y, z}
    KeyNames = {x}
    MaxEntries = 2
    Readers = {r1}
INVARIANTS TypeOK
PROPERTIES FindEnds
