SPECIFICATION Spec
CONSTANTS
    p1 = p1
    p2 = p2
    f1 = f1
    f2 = f2
    f3 = f3
    f4 = f4
    Nothing = Nothing
    Torn = Torn
    Processes = {p1, p2}
    Hashers = {p2}
    Paths = {f1, f2}
    UnsafePaths = {}
    LongPaths = {}
    Special = {}
    Contents <- ShortContents
    InitialWork <- BothHere
    Pieces <- OnePiece
    Arguments <- FileOrDirectory
    MaxRuns = 2
    MaxEdits = 0
    Faults = {"open", "write", "crash", "memory", "close", "index", "look"}
CHECK_DEADLOCK FALSE
INVARIANTS
    TypeOK
    EntriesStored
PROPERTIES
    KeepsTheRest
