SPECIFICATION Spec
CONSTANTS
    Sessions = {s1, s2}
    s1 = s1
    s2 = s2
    alpha = alpha
    beta = beta
    EmptyToken = none
    Version = 3
    Files <- TwoFiles
    InitFile <- Global
    ClientConfigs <- TwoClients
    OtherClients <- NoClients
    Stalling = {}
    MaxReloads = 1
    MaxBytes = 0
    ReadMax = 1
    QueueCap = 2
SYMMETRY SessionSymmetry
INVARIANT NoStaleRegistration
INVARIANT AcceptedIsRegistered
CHECK_DEADLOCK FALSE
