SPECIFICATION Spec
CONSTANTS
    Paths <- FourPaths
    UnsafePaths = {}
    Cut <- AnyPrefix
    Shas = {"s1"}
    Modes = {"blob"}
    InitialCapacity = 2
    MaxTreeEntries = 3
    ForeignTrees <- NoTrees
    MaxTrees = 0
    Faults = {"open", "write", "close", "crash", "nomem"}
INVARIANTS
    CapacityBound
    DamageIsConfined
PROPERTY
    ReadIsExact
