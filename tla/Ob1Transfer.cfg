SPECIFICATION FairSpec
CONSTANTS
  Setups <- Everything
  SendDepth = 1
  RecvDepth = 2
INVARIANTS
  TypeOK
  UnitsConserved
  CompleteMeansDone
  ReliableTransfer
PROPERTY CompletesUnlessAllFail
CHECK_DEADLOCK FALSE
