SPECIFICATION Spec
CONSTANTS
    top = top
    sub = sub
    Dirs = {top, sub}
    Root = top
    Names = {1, 2, 3}
    Length <- Lengths
    ModeBuf = 10
    NameBuf = 10
    DigestSize = 2
    Contents <- AllContents
    MaxFileSize = 2
    InitialTrees <- OnlyNested
    MaxDepth = 3
    MaxPathLen = 20
    MaxTreeEntries = 3
    MaxRuns = 1
    MaxEdits = 0
    Faults = {}
CHECK_DEADLOCK FALSE
INVARIANT
    SubdirectoriesAreWritten
