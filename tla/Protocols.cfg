SPECIFICATION FairSpec
CONSTANTS
  t1 = t1
  t2 = t2
  t3 = t3
  r1 = r1
  r2 = r2
  r3 = r3
  A = A
  B = B
  ob1 = ob1
  fake = fake
  NoThread = NoThread
  NoFrag = NoFrag
  NoSocket = NoSocket
  Unused = Unused
  p1 = p1
  p2 = p2
  p3 = p3
  f1 = f1
  f2 = f2
  f3 = f3
  W = W
  X = X
  Y = Y
  new1 = new1
  new2 = new2
  VADER_FIFO_FREE = VADER_FIFO_FREE
  NoComm = NoComm
  Marked = Marked
  AnySource = AnySource
  AnyTag = AnyTag
  None = None
INVARIANTS
  TypeOK
  AssertionsHold
  NoDanglingSync
  CallbacksAreKept
  OneConnection
  BarrierHolds
  WindowLocksExclude
  OperationsAreCovered
  EpochsComplete
  MessagesInOrder
  Agreement
  SlotsAreOwned
  NobodyIsEarly
  LockIsQueue
  AccessIsExposed
  FenceHolds
PROPERTIES
  LocksExclude
  EveryWaitReturns
  EverythingArrives
  EverySentIsConsumed
CHECK_DEADLOCK FALSE
