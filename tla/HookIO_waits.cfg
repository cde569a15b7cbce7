SPECIFICATION FairSpec
CONSTANTS
    Kind = {"connect", "read", "sleep"}
    MaxCalls = 3
    Slot = {s1, s2}
    Timeout = 1
    PerMs = 2
    Naps = {1, 4}
    MaxAge = 4
    Timed = {TRUE, FALSE}
    MaxData = 2
    MayClose = TRUE
    Shared = TRUE
    MayRefuse = FALSE
    None = None
INVARIANTS
    TypeOK
    OneWake
    TimeoutNotEarly
    SleepsLongEnough
    ConnectTruth
PROPERTIES
    ReturnsUnlessLost
CHECK_DEADLOCK FALSE
