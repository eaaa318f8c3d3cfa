SPECIFICATION FairSpec
CONSTANTS
  SeqMod = 8
  num_procs = 1
  Envelopes <- OneEnvelope
  Wanted <- NoReceives
  Reqs = {}
  Threads = {t1}
  MaxSend = 11
  Window = 5
  AllowOvertake = FALSE
  NoAnySource = FALSE
  MayCancel = {}
  AnySource = AnySource
  AnyTag = AnyTag
  None = None
  r1 = r1
  r2 = r2
  r3 = r3
  t1 = t1
  t2 = t2
  t3 = t3
INVARIANT NoStrandedFragment
CHECK_DEADLOCK FALSE
