CONSTANTS
    main = main
    h1 = h1
    h2 = h2
    CLI = main
    Keys = {k1}
    Pids = {1, 2}
    Types <- TwoTypes
    StartPools <- OnePool
    Actors <- TwoActors
    Ops = {"detach", "task"}
    InitAttached = {1}
SPECIFICATION Safety
CHECK_DEADLOCK FALSE
INVARIANTS
    NoTaskForDetached
