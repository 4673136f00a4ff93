SPECIFICATION Spec
CONSTANTS
    Interval = 3
    Timeout = 6
    MaxDelay = 2
    MaxSkew = 1
    MaxLag = 1
    MaxTime = 26
INVARIANT AliveKept
INVARIANT DeadFound
CHECK_DEADLOCK FALSE
