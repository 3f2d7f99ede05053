SPECIFICATION Spec
CONSTANTS
    main = main
    side = side
    t1 = t1
    blob = blob
    p1 = p1
    NoCommit = NoCommit
    Torn = Torn
    Garbage = Garbage
    Branches = {main, side}
    Main = main
    Trees = {t1}
    Messages <- SomeMessages
    Foreign <- FourForeign
    NotCommits = {blob}
    Missing = {}
    InitialRefs <- Refs
    Limits <- SomeLimits
    Committers = {p1}
    MaxCommits = 2
    MaxInits = 1
    MaxLogs = 1
    MaxMoves = 1
    Faults = {"init", "store", "read"}
CHECK_DEADLOCK FALSE
INVARIANTS
    TypeOK
    LogIsAChain
    QuietLogIsRight
PROPERTIES
    LogStopsForAReason
