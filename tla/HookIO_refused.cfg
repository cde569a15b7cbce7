SPECIFICATION Spec
CONSTANTS
    Kind = {"connect"}
    MaxCalls = 1
    Slot = {s1}
    Timeout = 1
    PerMs = 1
    Naps = {1}
    MaxAge = 1
    Timed = {TRUE, FALSE}
    MaxData = 0
    MayClose = FALSE
    Shared = TRUE
    MayRefuse = TRUE
    None = None
INVARIANTS
    ConnectTruth
CHECK_DEADLOCK FALSE
