SPECIFICATION EngineSpec
CONSTANTS
  t1 = t1
  t2 = t2
  t3 = t3
  r1 = r1
  r2 = r2
  r3 = r3
  A = A
  B = B
  ob1 = ob1
  fake = fake
  NoThread = NoThread
  NoFrag = NoFrag
  NoSocket = NoSocket
  Unused = Unused
INVARIANT ProgressIsOn
