SPECIFICATION MCSpec
CONSTANTS
  SeqMod = 4
  num_procs = 1
  Envelopes <- TwoEnvelopes
  Wanted <- Everything
  Reqs = {r1, r2, r3}
  Threads = {t1, t2}
  MaxSend = 3
  Window = 3
  AllowOvertake = FALSE
  NoAnySource = FALSE
  MayCancel = {r3}
  AnySource = AnySource
  AnyTag = AnyTag
  None = None
  Unused = Unused
  r1 = r1
  r2 = r2
  r3 = r3
  t1 = t1
  t2 = t2
  t3 = t3
SYMMETRY Alike
INVARIANTS TypeOK InOrder ExactlyOnePlace NoStrandedFragment NoMissedMatch MatchingOrder NothingIsLost
PROPERTY ImplementsMatchingRule
CHECK_DEADLOCK FALSE
