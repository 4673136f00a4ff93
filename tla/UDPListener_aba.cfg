SPECIFICATION Spec
CONSTANTS
    Sessions = {s1, s2}
    Sources = {a}
    None = none
    MaxStreams = 3
    IdleLimit = 1
    HasDeadline = FALSE
INVARIANT OneStreamPerSource
CHECK_DEADLOCK FALSE
