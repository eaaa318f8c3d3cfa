SPECIFICATION FairSpec
CONSTANTS
  Setups <- TwoGets
  SendDepth = 1
  RecvDepth = 2
PROPERTY Completes
CHECK_DEADLOCK FALSE
