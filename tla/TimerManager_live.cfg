SPECIFICATION FairSpec
CONSTANTS
    Timer = {1}
    Worker = {w1, w2}
    Caller = {c1}
    Delay = {1, 3}
    Hour = 1
    MaxTimeout = 2
    IntLimit = 16
    Stale = 1
    MaxClock = 3
    MaxBack = 0
INVARIANTS
    HeapConsistent
PROPERTIES
    TimerFires
