SPECIFICATION StopSpec
CONSTANTS
    Worker = {root}
    Root = root
    Fiber = {f1, f2, f3}
    Callback = {f3}
    Semaphores = TRUE
    Caller = {c1}
    External = FALSE
    AnyThread = AnyThread
    None = None
INVARIANTS
    StopDrains
PROPERTIES
    RunEnds
CHECK_DEADLOCK FALSE
