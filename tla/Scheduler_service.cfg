SPECIFICATION FairSpec
CONSTANTS
    Worker = {w1, w2}
    Root = root
    Fiber = {f1, f2}
    Callback = {}
    Semaphores = FALSE
    Caller = {c1}
    External = TRUE
    AnyThread = AnyThread
    None = None
INVARIANTS
    TypeOK
    NoDoubleRun
    OnePlace
PROPERTIES
    ImplementsService
