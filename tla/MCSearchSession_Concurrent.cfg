CONSTANTS
    Addrs = {1, 2}
    Vals = {0}
    Types <- MCTypes
    Width <- MCWidth
    ScanWidths = {3}
    Actors = {a1, a2}
    OneUser = FALSE
    Ops = {"type", "reset", "fill", "search", "filter"}
    Modes = {"changed", "unchanged"}
SPECIFICATION Spec
SYMMETRY ActorSymmetry
INVARIANTS
    UniformWidth
