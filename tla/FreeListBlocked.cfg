SPECIFICATION MCSpec
CONSTANTS
  Procs <- Three
  Targets <- TwoTargets
  TwoLevel = TRUE
  Epochs <- FourEpochs
  MaxFlight = 1
  t1 = t1
  t2 = t2
  t3 = t3
  a = a
  b = b
  Ghost = Ghost
  Null = Null
  NoThread = NoThread
  Unused = Unused
SYMMETRY Alike
INVARIANT BlockedUntilReturned
CHECK_DEADLOCK FALSE
