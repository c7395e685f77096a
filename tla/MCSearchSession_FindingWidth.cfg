CONSTANTS
    Addrs = {1, 2}
    Vals = {0, 1}
    Types <- MCTypes
    Width <- MCWidth
    ScanWidths = {3}
    Actors = {a1}
    OneUser = FALSE
    Ops = {"type", "search"}
    Modes = {}
SPECIFICATION Spec
INVARIANTS
    WidthMatchesType
