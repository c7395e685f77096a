CONSTANTS
    main = main
    h1 = h1
    h2 = h2
    CLI = main
    Keys = {k1}
    Pids = {1, 2}
    Types <- ThreeTypes
    StartPools <- AlertPool
    Actors <- TwoActors
    Ops = {"attach", "detach", "switch", "task", "load", "exit"}
    InitAttached = {1, 2}
SPECIFICATION Safety
CHECK_DEADLOCK FALSE
INVARIANTS
    NoStrandedProcess
    DetachStopsEarlierTasks
    FallbackInSync
