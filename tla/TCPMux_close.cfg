SPECIFICATION FairSpec
CONSTANTS
  MaxStreamID = 2
  CounterModulus = 16
  AcceptCap = 1
  MaxStreams = 2
  MaxOpens <- ServerOnly
  MaxAccepts <- AcceptAll
  MaxWrites = 1
  MaxChunks = 1
  WireCap = 1
  SessionClose = TRUE
  TransportLoss = TRUE
INVARIANTS
  EOFComplete
  CloseReleasesStreams
PROPERTIES
  EOFIsFinal
  ArePipes
  CloseSpreads
  Delivered
CHECK_DEADLOCK FALSE
