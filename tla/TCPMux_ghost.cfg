SPECIFICATION Spec
CONSTANTS
  MaxStreamID = 2
  CounterModulus = 16
  AcceptCap = 1
  MaxStreams = 2
  MaxOpens <- ServerOnly
  MaxAccepts <- AcceptAll
  MaxWrites = 2
  MaxChunks = 2
  WireCap = 2
  SessionClose = FALSE
  TransportLoss = FALSE
INVARIANTS
  OneStreamPerID
CHECK_DEADLOCK FALSE
