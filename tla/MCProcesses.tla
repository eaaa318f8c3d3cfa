----------------------------- MODULE MCProcesses -----------------------------
(***************************************************************************)
(* One instance for TLC of each protocol between processes that share      *)
(* memory or a communicator: the FIFO and the fast box of btl vader, the   *)
(* endpoint that uses both, the agreement on context ids, the distributed  *)
(* lock of OpenSHMEM, and the synchronization of windows in shared memory. *)
(* They are more parts beside those of MCWaiting; a variable p_x is the x  *)
(* of an instance where MCWaiting has an x of its own.                     *)
(***************************************************************************)
EXTENDS MCWaiting

CONSTANTS
  p1, p2, p3,              \* processes: t1 and t2 are threads of p1, t3 of p2
  f1, f2, f3,              \* fragments: f1 and f2 of p1, f3 of p2
  W, X, Y, new1, new2,     \* communicators: W, X and Y are there, the others are created
  VADER_FIFO_FREE, NoComm, Marked

VARIABLES
  p_pc, sends,
  fifo_head, fifo_tail, next, complete, free, p_lock, loc, queue,
  p_mem, startp, out, in, spc, rpc, s, r, sent, got,
  fifo, fbox, fbox_out, send_count, setter, fbox_in, pending_frags, waiting, listed,
  pending_frags_lock, component_lock, p_progress_lock, p_op, delivered,
  table, lowest_id, ctx, p_posted,
  word, counter, lock_turn, lock_last_ticket, lock_inform, pe, calls, order,
  p_prog, p_at, node, posts, outstanding_locks, start_group, post_group, my_sense, sense, count,
  stale

threadVars == <<p_pc, sends>>
fifoVars == <<fifo_head, fifo_tail, next, complete, free, p_lock, loc, queue>>
boxVars == <<p_mem, startp, out, in, spc, rpc, s, r, sent, got>>
endpointVars ==
  <<fifo, fbox, fbox_out, send_count, setter, fbox_in, pending_frags, waiting, listed,
    pending_frags_lock, component_lock, p_progress_lock, p_op, delivered>>
cidVars == <<table, lowest_id, ctx, p_posted>>
shmemVars == <<word, counter, lock_turn, lock_last_ticket, lock_inform, pe, calls, order>>
sharedWindowVars ==
  <<p_prog, p_at, node, posts, outstanding_locks, start_group, post_group, my_sense, sense, count,
    stale>>
processVars ==
  <<threadVars, fifoVars, boxVars, endpointVars, cidVars, shmemVars, sharedWindowVars>>

\* Two threads of one process write into the FIFO of another, which sends too.
Fifo == INSTANCE VaderFifo WITH
  Threads <- {t1, t2, t3}, Proc <- t1 :> p1 @@ t2 :> p1 @@ t3 :> p2,
  Frags <- {f1, f2, f3}, Owner <- f1 :> p1 @@ f2 :> p1 @@ f3 :> p2,
  Dests <- p1 :> {p2} @@ p2 :> {p1}, PollCount <- 1,
  Sends <- t1 :> 2 @@ t2 :> 1 @@ t3 :> 1, pc <- p_pc, lock <- p_lock

\* Messages of up to three units, more of them than the ring holds at once.
Box == INSTANCE VaderFbox WITH FboxSize <- 8, SeqMod <- 8, PollCount <- 1, Messages <- 4,
  mem <- p_mem

Endpoint == INSTANCE VaderEndpoint WITH
  Threads <- {t1, t2}, FboxThreshold <- 2, Room <- 1, Sends <- t1 :> 3 @@ t2 :> 2,
  pc <- p_pc, op <- p_op, progress_lock <- p_progress_lock

\* The two are created from different communicators and have p2 in common.
Cid == INSTANCE CommCid WITH
  Procs <- {p1, p2, p3}, Parents <- {W, X, Y}, Id <- W :> 0 @@ X :> 1 @@ Y :> 2,
  Members <- W :> {p1, p2, p3} @@ X :> {p2, p3} @@ Y :> {p1},
  Creations <- {new1, new2}, Parent <- new1 :> W @@ new2 :> X,
  Group <- new1 :> {p1, p2} @@ new2 :> {p2, p3}, Before <- {}, MaxCid <- 6, Failing <- {p1},
  posted <- p_posted

\* The lock of C programs, which may be nested and which a PE takes again, and
\* the one of Fortran.
Lock == INSTANCE ShmemLock WITH
  N <- 3, Server <- 0, LockSize <- 8, InformBit <- 8, Recursive <- TRUE,
  Calls <- 0 :> 2 @@ 1 :> 1 @@ 2 :> 1
LockF == INSTANCE ShmemLock WITH
  N <- 3, Server <- 0, LockSize <- 4, InformBit <- 8, Recursive <- FALSE,
  Calls <- 0 :> 1 @@ 1 :> 1 @@ 2 :> 1

\* What three processes call on a window: locks, some of them refused; epochs
\* of one target, of one origin, and of all with all; epochs with NOCHECK; calls
\* out of order; and fences.
Does(call) == [call |-> call]
LockT(t, type) == [call |-> "lock", target |-> t, type |-> type]
LockAll(type) == [call |-> "lock_all", type |-> type]
Unlock(t) == [call |-> "unlock", target |-> t]
Post(group, check) == <<[call |-> "post", group |-> group, check |-> check]>>
Access(group, check) == <<[call |-> "start", group |-> group, check |-> check], Does("complete")>>
Expose(group) == Post(group, TRUE) \o <<Does("wait")>>
Ranks3(a, b, e) == 0 :> a @@ 1 :> b @@ 2 :> e
SharedFirst == <<LockT(1, "shared"), Unlock(1), LockT(1, "exclusive"), Unlock(1)>>
ToAll(p) ==
  LET others == (0..2) \ {p}
  IN Post(others, TRUE) \o Access(others, TRUE) \o <<Does("test"), Does("wait")>>
UncheckedAccess == <<Does("barrier")>> \o Access({0}, FALSE)
ExposeUnchecked == Post({1, 2}, FALSE) \o <<Does("barrier"), Does("wait")>>
Fences == <<Does("fence"), Does("fence"), Does("fence")>>
SharedWindowPrograms ==
  { Ranks3(SharedFirst, SharedFirst,
           <<LockT(1, "exclusive"), Unlock(1), LockAll("shared"), Does("unlock_all")>>),
    Ranks3(<<LockT(1, "shared"), LockAll("shared"), Does("unlock_all")>>,
           <<LockT(0, "exclusive"), Unlock(0)>>,
           <<LockAll("nocheck"), Does("unlock_all")>>),
    Ranks3(Expose({1, 2}) \o Expose({1, 2}), Access({0}, TRUE) \o Access({0}, TRUE),
           Access({0}, TRUE) \o Access({0}, TRUE)),
    Ranks3(Expose({2}) \o Expose({2}), Expose({2}) \o Expose({2}),
           Access({0, 1}, TRUE) \o Access({0, 1}, TRUE)),
    Ranks3(ToAll(0) \o ToAll(0), ToAll(1) \o ToAll(1), ToAll(2) \o ToAll(2)),
    Ranks3(ExposeUnchecked \o Expose({1, 2}), UncheckedAccess \o Access({0}, TRUE),
           UncheckedAccess \o Access({0}, TRUE)),
    Ranks3(ExposeUnchecked \o ExposeUnchecked, UncheckedAccess \o UncheckedAccess,
           UncheckedAccess \o UncheckedAccess),
    Ranks3(<<Does("wait")>> \o Post({1}, TRUE) \o Expose({2}),
           <<[call |-> "start", group |-> {0}, check |-> TRUE]>> \o Access({2}, TRUE)
             \o <<Does("complete")>>,
           Post({}, TRUE) \o Access({}, TRUE) \o <<Does("wait")>>),
    Ranks3(Fences, Fences, Fences) }
SharedWindow == INSTANCE OscSm WITH Size <- 3, Width <- 4, Programs <- SharedWindowPrograms,
  prog <- p_prog, at <- p_at

ASSUME ProcessesAssumption ==
  /\ Fifo!VaderFifoAssumption /\ Box!FboxAssumption /\ Endpoint!EndpointAssumption
  /\ Cid!CidAssumption /\ Lock!LockAssumption /\ LockF!LockAssumption
  /\ SharedWindow!OscSmAssumption

-----------------------------------------------------------------------------

Locks == {"lock", "lock fortran"}

NoThreads == p_pc = Unused /\ sends = Unused
NoFifo ==
  /\ fifo_head = Unused /\ fifo_tail = Unused /\ next = Unused /\ complete = Unused
  /\ free = Unused /\ p_lock = Unused /\ loc = Unused /\ queue = Unused
NoBox ==
  /\ p_mem = Unused /\ startp = Unused /\ out = Unused /\ in = Unused /\ spc = Unused
  /\ rpc = Unused /\ s = Unused /\ r = Unused /\ sent = Unused /\ got = Unused
NoEndpoint ==
  /\ fifo = Unused /\ fbox = Unused /\ fbox_out = Unused /\ send_count = Unused
  /\ setter = Unused /\ fbox_in = Unused /\ pending_frags = Unused /\ waiting = Unused
  /\ listed = Unused /\ pending_frags_lock = Unused /\ component_lock = Unused
  /\ p_progress_lock = Unused /\ p_op = Unused /\ delivered = Unused
NoCid == table = Unused /\ lowest_id = Unused /\ ctx = Unused /\ p_posted = Unused
NoShmem ==
  /\ word = Unused /\ counter = Unused /\ lock_turn = Unused /\ lock_last_ticket = Unused
  /\ lock_inform = Unused /\ pe = Unused /\ calls = Unused /\ order = Unused
NoSharedWindow ==
  /\ p_prog = Unused /\ p_at = Unused /\ node = Unused /\ posts = Unused
  /\ outstanding_locks = Unused /\ start_group = Unused /\ post_group = Unused
  /\ my_sense = Unused /\ sense = Unused /\ count = Unused /\ stale = Unused

NoProcesses == NoThreads /\ NoFifo /\ NoBox /\ NoEndpoint /\ NoCid /\ NoShmem /\ NoSharedWindow

ProcessesInit ==
  \/ /\ part = "fifo" /\ Fifo!Init
     /\ NoBox /\ NoEndpoint /\ NoCid /\ NoShmem /\ NoSharedWindow
  \/ /\ part = "fast box" /\ Box!Init
     /\ NoThreads /\ NoFifo /\ NoEndpoint /\ NoCid /\ NoShmem /\ NoSharedWindow
  \/ /\ part = "endpoint" /\ Endpoint!Init
     /\ NoFifo /\ NoBox /\ NoCid /\ NoShmem /\ NoSharedWindow
  \/ /\ part = "cid" /\ Cid!Init
     /\ NoThreads /\ NoFifo /\ NoBox /\ NoEndpoint /\ NoShmem /\ NoSharedWindow
  \/ /\ (part = "lock" /\ Lock!Init) \/ (part = "lock fortran" /\ LockF!Init)
     /\ NoThreads /\ NoFifo /\ NoBox /\ NoEndpoint /\ NoCid /\ NoSharedWindow
  \/ /\ part = "shared window" /\ SharedWindow!Init
     /\ NoThreads /\ NoFifo /\ NoBox /\ NoEndpoint /\ NoCid /\ NoShmem

\* The variables of this module that each part leaves alone.
InFifo ==
  /\ part = "fifo"
  /\ UNCHANGED <<part, boxVars, endpointVars, cidVars, shmemVars, sharedWindowVars>>
InBox ==
  /\ part = "fast box"
  /\ UNCHANGED <<part, threadVars, fifoVars, endpointVars, cidVars, shmemVars, sharedWindowVars>>
InEndpoint ==
  /\ part = "endpoint"
  /\ UNCHANGED <<part, fifoVars, boxVars, cidVars, shmemVars, sharedWindowVars>>
InCid ==
  /\ part = "cid"
  /\ UNCHANGED <<part, threadVars, fifoVars, boxVars, endpointVars, shmemVars, sharedWindowVars>>
InLock(l) ==
  /\ part = l
  /\ UNCHANGED <<part, threadVars, fifoVars, boxVars, endpointVars, cidVars, sharedWindowVars>>
InSharedWindow ==
  /\ part = "shared window"
  /\ UNCHANGED <<part, threadVars, fifoVars, boxVars, endpointVars, cidVars, shmemVars>>
LockStep(p) == (InLock("lock") /\ Lock!Step(p)) \/ (InLock("lock fortran") /\ LockF!Step(p))

ProcessesNext ==
  \/ InFifo /\ Fifo!Next
  \/ InBox /\ Box!Next
  \/ InEndpoint /\ Endpoint!Next
  \/ InCid /\ Cid!Next
  \/ InLock("lock") /\ Lock!Next
  \/ InLock("lock fortran") /\ LockF!Next
  \/ InSharedWindow /\ SharedWindow!Next

\* The fairness of the modules, each for its part: a thread or process
\* goes on with what it does.
FirstProcess ==
  \/ InFifo /\ Fifo!Progress(t1)
  \/ InBox /\ Box!Send
  \/ InEndpoint /\ Endpoint!Step(t1)
  \/ InCid /\ \E p \in {p1, p2, p3}, e \in {new1, new2} : Cid!Step(p, e)
  \/ LockStep(0)
  \/ InSharedWindow /\ (SharedWindow!Step(0) \/ SharedWindow!Barrier)
SecondProcess ==
  \/ InFifo /\ Fifo!Progress(t2)
  \/ InBox /\ Box!Poll
  \/ InEndpoint /\ Endpoint!Step(t2)
  \/ LockStep(1)
  \/ InSharedWindow /\ SharedWindow!Step(1)
ThirdProcess ==
  \/ InFifo /\ Fifo!Progress(t3)
  \/ InEndpoint /\ (Endpoint!CheckFboxes \/ Endpoint!PollFifo)
  \/ LockStep(2)
  \/ InSharedWindow /\ SharedWindow!Step(2)
=============================================================================
