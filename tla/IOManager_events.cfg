SPECIFICATION Spec
CONSTANTS
    Fiber = {f1, f2, f3}
    Callback = {cb}
    Idler = {i1, i2}
    Fd = {2}
    InitSize = 2
    MaxGen = 1
    Comes = {"READ", "WRITE", "ERR"}
    MayClose = FALSE
    None = None
SYMMETRY Symmetry
INVARIANTS
    TypeOK
    NoLostEdge
    PendingCounts
CHECK_DEADLOCK FALSE
