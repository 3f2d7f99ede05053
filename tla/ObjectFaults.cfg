SPECIFICATION Spec
CONSTANTS
    p1 = p1
    p2 = p2
    p3 = p3
    o1 = o1
    o2 = o2
    Processes = {p1, p2, p3}
    Objects = {o1, o2}
    Pieces <- TwoAndThree
    Empty = {o2}
    Dense = {}
    MaxCalls = 2
    Faults = {"open", "write", "crash", "read"}
CHECK_DEADLOCK FALSE
SYMMETRY ProcessSymmetry
INVARIANTS
    TypeOK
    RepairedByRewrite
PROPERTIES
    ImplementsStoredObjects
