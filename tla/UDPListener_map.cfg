SPECIFICATION FairSpec
CONSTANTS
    Sessions = {s1}
    Sources = {a}
    None = none
    MaxStreams = 2
    IdleLimit = 1
    HasDeadline = TRUE
INVARIANT OpenIsOwned
INVARIANT MappedIsServed
PROPERTY IdleStreamsClosed
PROPERTY BothEndsReturn
CHECK_DEADLOCK FALSE
