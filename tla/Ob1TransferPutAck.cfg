SPECIFICATION FairSpec
CONSTANTS
  Setups <- Puts
  SendDepth = 1
  RecvDepth = 2
PROPERTY Completes
CHECK_DEADLOCK FALSE
