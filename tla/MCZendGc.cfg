SPECIFICATION Spec
CONSTANTS
    a = a
    b = b
    c = c
    Null = Null
    Values = {a, b, c}
    Destructors = {a}
    Vars = {v}
    NSlots <- TwoOne
    BufMax = 1
    MaxScript = 3
    MaxDepth = 2
INVARIANTS TypeOK SafeCollection CountsExact BufferExact NothingLost CollectComplete
PROPERTIES DestructedFirst
SYMMETRY Symmetry
