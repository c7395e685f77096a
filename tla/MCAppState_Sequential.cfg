CONSTANTS
    main = main
    h1 = h1
    h2 = h2
    CLI = main
    Keys = {k1}
    Pids = {1, 2}
    Types <- ThreeTypes
    StartPools <- AllPools
    Actors <- OneActor
    Ops = {"attach", "detach", "switch", "signal", "task", "search", "type", "exit"}
    InitAttached = {}
SPECIFICATION Safety
CHECK_DEADLOCK FALSE
INVARIANTS
    TypeOK
    Consistent
