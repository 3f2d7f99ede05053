SPECIFICATION FairSpec
CONSTANTS
    top = top
    sub = sub
    Dirs = {top, sub}
    Root = top
    Names = {1, 2, 3}
    Length <- Lengths
    ModeBuf = 10
    NameBuf = 10
    DigestSize = 2
    Contents <- AllContents
    MaxFileSize = 2
    InitialTrees <- AllTrees
    MaxDepth = 3
    MaxPathLen = 12
    MaxTreeEntries = 2
    MaxRuns = 2
    MaxEdits = 1
    Faults = {"open", "stat", "read", "store", "memory", "crash"}
CHECK_DEADLOCK FALSE
INVARIANTS
    TypeOK
    DepthIsCounted
    NothingDangles
    TreesAreTrue
    TreesAreListed
PROPERTIES
    TreeIsComplete
    CommandEnds
