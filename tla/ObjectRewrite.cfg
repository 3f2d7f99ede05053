SPECIFICATION FairSpec
CONSTANTS
    p1 = p1
    p2 = p2
    p3 = p3
    o1 = o1
    o2 = o2
    Processes = {p1, p2, p3}
    Objects = {o1}
    Pieces <- TwoPieces
    Empty = {}
    Dense = {}
    MaxCalls = 2
    Faults = {}
CHECK_DEADLOCK FALSE
INVARIANTS
    WholeWhenQuiet
PROPERTIES
    UndisturbedReads
    ImplementsStoredObjects
    StoredInTheEnd
