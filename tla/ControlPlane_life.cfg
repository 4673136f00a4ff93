SPECIFICATION FairSpec
CONSTANTS
    Sessions = {s1}
    s1 = s1
    alpha = alpha
    beta = beta
    EmptyToken = none
    Version = 3
    Files <- AllFiles
    InitFile <- Global
    ClientConfigs <- AllClients
    OtherClients <- OldClients
    Stalling = {s1}
    MaxReloads = 2
    MaxBytes = 2
    ReadMax = 2
    QueueCap = 2
INVARIANT TypeOK
INVARIANT RegisteredAuthorized
 
PROPERTY DeadLeavesLists
PROPERTY ShutdownCompletes
CHECK_DEADLOCK FALSE
