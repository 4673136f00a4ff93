SPECIFICATION ListenerFairSpec
CONSTANTS
    Elements = {s1, s2}
    Conns = {c1, c2, c3}
    None = None
    MaxShare = 3
    StreamLimit = 1
    WaitsForStream = TRUE
INVARIANT EvenShare
INVARIANT StreamsOwned
INVARIANT AtMostOneLate
PROPERTY EveryoneAnswered
CHECK_DEADLOCK FALSE
