SPECIFICATION Spec
CONSTANTS
    Timer = {1, 2}
    Worker = {w1, w2}
    Caller = {c1}
    Delay = {2}
    Hour = 2
    MaxTimeout = 1
    IntLimit = 16
    Stale = 1
    MaxClock = 4
    MaxBack = 1
SYMMETRY WorkerSymmetry
INVARIANTS
    TypeOK
    SleepersCovered
PROPERTIES
    NoEarlyExpiry
