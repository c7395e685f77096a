CONSTANTS
    Addrs = {1, 2}
    Vals = {0, 1}
    Types <- MCTypes
    Width <- MCWidth
    ScanWidths = {3, 4}
    Actors = {a1}
    OneUser = TRUE
    Ops = {"type", "reset", "fill", "write", "search", "filter"}
    Modes = {"changed", "unchanged", "increased", "decreased", "value"}
SPECIFICATION Spec
INVARIANTS
    TypeOK
PROPERTIES
    ImplementsCandidateSet
