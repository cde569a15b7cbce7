SPECIFICATION FairSpec
CONSTANTS
    Kind = {"read"}
    MaxCalls = 1
    Slot = {s1}
    Timeout = 1
    PerMs = 1
    Naps = {1}
    MaxAge = 1
    Timed = {TRUE}
    MaxData = 0
    MayClose = FALSE
    Shared = FALSE
    MayRefuse = FALSE
    None = None
PROPERTIES
    Returns
CHECK_DEADLOCK FALSE
