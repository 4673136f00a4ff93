SPECIFICATION FairSpec
CONSTANTS
    MaxVersion = 3
    Callbacks = {c1, c2}
    QuickReload = TRUE
PROPERTY LatestStays
PROPERTY AskedStays
CHECK_DEADLOCK FALSE
