SPECIFICATION MCSpec
CONSTANTS
    x = x
    y = y
    k = k
    z = z
    NoName = NoName
    FileNames = {x, y}
    KeyNames = {k}
    MaxEntries = 3
    Readers = {r1}
INVARIANTS ChainsDescend CountsExact FindCorrect
PROPERTIES MapSpec
SYMMETRY Symmetry
