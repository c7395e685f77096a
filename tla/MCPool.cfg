CONSTANTS
    Keys = {k1, k2}
    Tasks = {t1, t2, t3}
    None = None
SPECIFICATION Spec
INVARIANTS
    TypeOK
    RegisteredIsOpen
    NoOrphan
PROPERTIES
    RemovedTaskEnds
    ImplementsKeyedTasks
