SPECIFICATION FairSpec
CONSTANTS
    p1 = p1
    p2 = p2
    f1 = f1
    f2 = f2
    f3 = f3
    f4 = f4
    Nothing = Nothing
    Torn = Torn
    Processes = {p1, p2}
    Hashers = {p2}
    Paths = {f1, f2, f3, f4}
    UnsafePaths = {f3}
    LongPaths = {f1}
    Special = {f4}
    Contents <- AllContents
    InitialWork <- SameInBoth
    Pieces <- OnePiece
    Arguments <- FailuresAmong
    MaxRuns = 1
    MaxEdits = 1
    Faults = {"open", "memory", "index"}
CHECK_DEADLOCK FALSE
INVARIANTS
    EntriesReadable
PROPERTIES
    ExitTellsTruth
    CommandsEnd
    TornHeals
