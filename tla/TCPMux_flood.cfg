SPECIFICATION FairSpec
CONSTANTS
  MaxStreamID = 4
  CounterModulus = 16
  AcceptCap = 1
  MaxStreams = 4
  MaxOpens <- ServerPair
  MaxAccepts <- AcceptAll
  MaxWrites = 1
  MaxChunks = 1
  WireCap = 1
  SessionClose = FALSE
  TransportLoss = FALSE
PROPERTIES
  ReadLoopNeverBlocks
CHECK_DEADLOCK FALSE
