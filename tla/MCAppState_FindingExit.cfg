CONSTANTS
    main = main
    h1 = h1
    h2 = h2
    CLI = main
    Keys = {k1}
    Pids = {1, 2}
    Types <- TwoTypes
    StartPools <- OnePool
    Actors <- OneActor
    Ops = {"attach", "exit"}
    InitAttached = {}
SPECIFICATION Safety
CHECK_DEADLOCK FALSE
INVARIANTS
    ExitReleasesTargets
