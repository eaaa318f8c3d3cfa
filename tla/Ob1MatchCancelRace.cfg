SPECIFICATION Spec
CONSTANTS
  SeqMod = 4
  num_procs = 1
  Envelopes <- OneEnvelope
  Wanted <- Receives
  Reqs = {r1}
  Threads = {t1, t2}
  MaxSend = 1
  Window = 1
  AllowOvertake = FALSE
  NoAnySource = FALSE
  MayCancel = {r1}
  AnySource = AnySource
  AnyTag = AnyTag
  None = None
  r1 = r1
  r2 = r2
  r3 = r3
  t1 = t1
  t2 = t2
  t3 = t3
INVARIANT CancelledOwnsNothing
CHECK_DEADLOCK FALSE
