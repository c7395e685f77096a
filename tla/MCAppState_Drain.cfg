CONSTANTS
    main = main
    h1 = h1
    h2 = h2
    CLI = main
    Keys = {k1}
    Pids = {1, 2, 3}
    Types <- TwoTypes
    StartPools <- OnePool
    Actors <- ThreeActors
    Ops = {"detach"}
    InitAttached = {1, 2, 3}
SPECIFICATION DrainSpec
CHECK_DEADLOCK FALSE
PROPERTIES
    DetachesDrain
