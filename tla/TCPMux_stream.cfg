SPECIFICATION Spec
CONSTANTS
  MaxStreamID = 2
  CounterModulus = 16
  AcceptCap = 1
  MaxStreams = 2
  MaxOpens <- OpenBoth
  MaxAccepts <- AcceptAll
  MaxWrites = 2
  MaxChunks = 2
  WireCap = 1
  SessionClose = FALSE
  TransportLoss = FALSE
INVARIANTS
  TypeOK
  InOrder
  NothingLost
  NoLeak
  GhostsAreLate
  OpenedIDsUnique
CHECK_DEADLOCK FALSE
