SPECIFICATION Spec
CONSTANTS
    Fiber = {f1, f2}
    Callback = {}
    Idler = {i1}
    Fd = {2, 3}
    InitSize = 2
    MaxGen = 2
    Comes = {"READ", "ERR"}
    MayClose = TRUE
    None = None
SYMMETRY Symmetry
INVARIANTS
    WokenOnce
    AddAssertions
CHECK_DEADLOCK FALSE
