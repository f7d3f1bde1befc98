SPECIFICATION Spec
CONSTANTS
    k1 = k1
    k2 = k2
    k3 = k3
    k4 = k4
    k5 = k5
    k6 = k6
    Keys <- MCKeys
    Priorities <- MCPriorities
    NoKey = NoKey
    InitialCapacity = 2
SYMMETRY MCSymmetry
INVARIANTS
    HeapTypeOK
    IndexMatchesItems
    HeapOrdered
    RootIsHighest
PROPERTIES
    ImplementsKeyedQueue
