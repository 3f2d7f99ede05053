SPECIFICATION Spec
CONSTANTS
    Paths <- ThreePaths
    UnsafePaths = {2}
    Cut <- AnyPrefix
    Shas = {"s1", "s2"}
    Modes = {"exec"}
    InitialCapacity = 1
    MaxTreeEntries = 2
    ForeignTrees <- SomeTrees
    MaxTrees = 4
    Faults = {"open", "nomem", "object"}
INVARIANTS
    TypeOK
    UniquePaths
    SavedInOrder
    CleanIsSaved
PROPERTIES
    TreesInOrder
    ImplementsStagingArea
