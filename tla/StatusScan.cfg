SPECIFICATION FairSpec
CONSTANTS
    top = top
    sub = sub
    Dirs = {top, sub}
    Root = top
    Names = {1, 2, 3}
    Dot = 0
    Length <- Lengths
    Contents <- SomeContents
    InitialTrees <- SomeTrees
    Addable <- Both
    Editable <- JustTop
    Word = 3
    MaxFileSize = 2
    MaxPathLen = 9
    MaxLinks = 1
    MaxStack = 4
    Capacity = 2
    MaxClock = 1
    MaxEdits = 2
    MaxAdds = 1
    MaxRuns = 1
    Faults = {"index", "look", "memory"}
CHECK_DEADLOCK FALSE
INVARIANTS
    TypeOK
    SettledIsSeen
    ListsAreComplete
PROPERTIES
    ScanEnds
