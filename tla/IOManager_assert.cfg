SPECIFICATION Spec
CONSTANTS
    Fiber = {f1, f2}
    Callback = {}
    Idler = {i1, i2}
    Fd = {1}
    InitSize = 2
    MaxGen = 0
    Comes = {"READ", "WRITE", "ERR"}
    MayClose = FALSE
    None = None
SYMMETRY Symmetry
INVARIANTS
    TriggerAssertion
CHECK_DEADLOCK FALSE
