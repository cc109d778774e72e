SPECIFICATION Spec
CONSTANTS
    Kinds <- AllKinds
    MaxHandlers = 3
    MaxWrites = 2
    MaxOps = 8
INVARIANTS TypeOK InOrder NotReentered StackConsistent WellBracketed
PROPERTIES NothingLost
