SPECIFICATION FairSpec
CONSTANTS
    UserChunks = 2
    ServiceChunks = 1
    SocketCap = 1
INVARIANT InOrder
INVARIANT Intact
PROPERTY EndMeansAll
PROPERTY Released
PROPERTY Arrives
CHECK_DEADLOCK FALSE
