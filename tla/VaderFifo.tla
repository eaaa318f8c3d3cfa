------------------------------ MODULE VaderFifo ------------------------------
(***************************************************************************)
(* opal/mca/btl/vader/btl_vader_fifo.h: every process has one FIFO in      *)
(* shared memory, written by all its peers and read by itself.  A fragment *)
(* is linked into the FIFO of its destination, handled there, marked       *)
(* complete and written back into the FIFO of its owner, which frees it.   *)
(*                                                                         *)
(* One step is one access to shared memory.  The reader is the thread that *)
(* has the progress lock of mca_btl_vader_component_progress.              *)
(***************************************************************************)
EXTENDS Integers, Sequences, FiniteSets

CONSTANTS
  Threads, Proc,      \* threads, and the process of each
  Frags, Owner,       \* fragments, and the process of each
  Dests,              \* per process: the peers it sends to
  VADER_FIFO_FREE, NoThread,
  PollCount,          \* fragments one mca_btl_vader_poll_fifo handles (31 in the code)
  Sends               \* bound: fragments each thread sends

Procs == { Proc[t] : t \in Threads }

VaderFifoAssumption ==
  /\ PollCount \in Nat \ {0}
  /\ VADER_FIFO_FREE \notin Frags /\ NoThread \notin Threads
  /\ \A f \in Frags : Owner[f] \in Procs
  /\ \A p \in Procs : Dests[p] \subseteq Procs \ {p}
  /\ Sends \in [Threads -> Nat]

VARIABLES
  fifo_head, fifo_tail,   \* per process
  next, complete,         \* per fragment: hdr->next, MCA_BTL_VADER_FLAG_COMPLETE
  free,                   \* fragments in the free list of their owner
  lock,                   \* per process: the thread in component_progress
  pc, loc, sends,
  queue                   \* per process: fragments in the order of the swaps of its tail

shared == <<fifo_head, fifo_tail, next, complete>>
vars == <<shared, free, lock, pc, loc, sends, queue>>

NoLocals == [frag |-> VADER_FIFO_FREE, prev |-> VADER_FIFO_FREE, dest |-> NoThread, count |-> 0]

\* vader_fifo_init
Init ==
  /\ fifo_head = [p \in Procs |-> VADER_FIFO_FREE]
  /\ fifo_tail = [p \in Procs |-> VADER_FIFO_FREE]
  /\ next = [f \in Frags |-> VADER_FIFO_FREE]
  /\ complete = [f \in Frags |-> FALSE]
  /\ free = Frags
  /\ lock = [p \in Procs |-> NoThread]
  /\ pc = [t \in Threads |-> "idle"]
  /\ loc = [t \in Threads |-> NoLocals]
  /\ sends = Sends
  /\ queue = [p \in Procs |-> << >>]

Goto(t, l) == pc' = [pc EXCEPT ![t] = l]
Done(t) == Goto(t, "idle") /\ loc' = [loc EXCEPT ![t] = NoLocals]
\* the next round of mca_btl_vader_poll_fifo
NextRound(t) ==
  Goto(t, "look") /\ loc' = [loc EXCEPT ![t] = [NoLocals EXCEPT !.count = loc[t].count + 1]]

\* vader_fifo_write_ep and vader_fifo_write_back, up to the swap
Write(t, f, dest) ==
  /\ loc' = [loc EXCEPT ![t].frag = f, ![t].dest = dest]
  /\ next' = [next EXCEPT ![f] = VADER_FIFO_FREE]
  /\ Goto(t, "swap")

-----------------------------------------------------------------------------

Send(t) ==
  /\ pc[t] = "idle" /\ sends[t] > 0
  /\ sends' = [sends EXCEPT ![t] = @ - 1]
  /\ \E f \in free, dest \in Dests[Proc[t]] :
       /\ Owner[f] = Proc[t]
       /\ free' = free \ {f}
       /\ Write(t, f, dest)
  /\ UNCHANGED <<fifo_head, fifo_tail, complete, lock, queue>>

Swap(t) ==
  LET f == loc[t].frag  dest == loc[t].dest IN
  /\ pc[t] = "swap"
  /\ loc' = [loc EXCEPT ![t].prev = fifo_tail[dest]]
  /\ fifo_tail' = [fifo_tail EXCEPT ![dest] = f]
  /\ queue' = [queue EXCEPT ![dest] = Append(@, f)]
  /\ Goto(t, "link")
  /\ UNCHANGED <<fifo_head, next, complete, free, lock, sends>>

\* The write is over; a reader that has written back goes on.
Link(t) ==
  LET f == loc[t].frag  prev == loc[t].prev IN
  /\ pc[t] = "link"
  /\ IF prev # VADER_FIFO_FREE
     THEN next' = [next EXCEPT ![prev] = f] /\ UNCHANGED fifo_head
     ELSE fifo_head' = [fifo_head EXCEPT ![loc[t].dest] = f] /\ UNCHANGED next
  /\ IF lock[Proc[t]] = t
     THEN NextRound(t)
     ELSE Done(t)
  /\ UNCHANGED <<fifo_tail, complete, free, lock, sends, queue>>

-----------------------------------------------------------------------------

\* mca_btl_vader_component_progress, unless another thread is in it
Poll(t) ==
  /\ pc[t] = "idle"
  /\ lock[Proc[t]] = NoThread
  /\ fifo_head[Proc[t]] # VADER_FIFO_FREE
  /\ lock' = [lock EXCEPT ![Proc[t]] = t]
  /\ Goto(t, "look")
  /\ UNCHANGED <<shared, free, loc, sends, queue>>

Look(t) ==
  LET p == Proc[t] IN
  /\ pc[t] = "look"
  /\ IF fifo_head[p] = VADER_FIFO_FREE \/ loc[t].count = PollCount
     THEN Done(t) /\ lock' = [lock EXCEPT ![p] = NoThread]
     ELSE /\ loc' = [loc EXCEPT ![t].frag = fifo_head[p]]
          /\ Goto(t, "take") /\ UNCHANGED lock
  /\ UNCHANGED <<shared, free, sends, queue>>

Take(t) ==
  LET p == Proc[t] IN
  /\ pc[t] = "take"
  /\ fifo_head' = [fifo_head EXCEPT ![p] = VADER_FIFO_FREE]
  /\ queue' = [queue EXCEPT ![p] = Tail(@)]
  /\ Goto(t, "next")
  /\ UNCHANGED <<fifo_tail, next, complete, free, lock, loc, sends>>

ReadNext(t) ==
  LET n == next[loc[t].frag] IN
  /\ pc[t] = "next"
  /\ IF n = VADER_FIFO_FREE
     THEN Goto(t, "tail") /\ UNCHANGED fifo_head
     ELSE fifo_head' = [fifo_head EXCEPT ![Proc[t]] = n] /\ Goto(t, "handle")
  /\ UNCHANGED <<fifo_tail, next, complete, free, lock, loc, sends, queue>>

GiveTail(t) ==
  LET p == Proc[t] IN
  /\ pc[t] = "tail"
  /\ IF fifo_tail[p] = loc[t].frag
     THEN fifo_tail' = [fifo_tail EXCEPT ![p] = VADER_FIFO_FREE] /\ Goto(t, "handle")
     ELSE Goto(t, "wait") /\ UNCHANGED fifo_tail
  /\ UNCHANGED <<fifo_head, next, complete, free, lock, loc, sends, queue>>

WaitLink(t) ==
  LET n == next[loc[t].frag] IN
  /\ pc[t] = "wait"
  /\ n # VADER_FIFO_FREE
  /\ fifo_head' = [fifo_head EXCEPT ![Proc[t]] = n]
  /\ Goto(t, "handle")
  /\ UNCHANGED <<fifo_tail, next, complete, free, lock, loc, sends, queue>>

\* mca_btl_vader_poll_handle_frag: a fragment of mine is done, one of a peer
\* is handed up and goes back.
Handle(t) ==
  LET f == loc[t].frag IN
  /\ pc[t] = "handle"
  /\ IF complete[f]
     THEN /\ complete' = [complete EXCEPT ![f] = FALSE]
          /\ free' = free \cup {f}
          /\ NextRound(t)
          /\ UNCHANGED next
     ELSE /\ complete' = [complete EXCEPT ![f] = TRUE]
          /\ Write(t, f, Owner[f])
          /\ UNCHANGED free
  /\ UNCHANGED <<fifo_head, fifo_tail, lock, sends, queue>>

Progress(t) ==
  \/ Swap(t) \/ Link(t) \/ Poll(t) \/ Look(t) \/ Take(t) \/ ReadNext(t) \/ GiveTail(t)
  \/ WaitLink(t) \/ Handle(t)

Next == \E t \in Threads : Send(t) \/ Progress(t)

Spec == Init /\ [][Next]_vars

\* A thread goes on with what it is doing, and threads call opal_progress.
Fairness == \A t \in Threads : WF_vars(Progress(t))
FairSpec == Spec /\ Fairness

-----------------------------------------------------------------------------
(* Properties *)

\* Safety: what the reader finds at the head is the fragment that took the
\* tail first of those that are left, a fragment is in one place only, and
\* none is linked to itself (the assertions of btl_vader_fifo.h:137 and 175).
OldestFirst ==
  /\ \A p \in Procs : fifo_head[p] # VADER_FIFO_FREE =>
       queue[p] # << >> /\ fifo_head[p] = queue[p][1]
  /\ \A f \in Frags :
       Cardinality({ p \in Procs : \E k \in DOMAIN queue[p] : queue[p][k] = f })
       + Cardinality({ t \in Threads : loc[t].frag = f /\ pc[t] \notin {"take", "link"} })
       + (IF f \in free THEN 1 ELSE 0) = 1
  /\ \A t \in Threads :
       /\ pc[t] = "next" => next[loc[t].frag] # loc[t].frag
       /\ pc[t] = "link" => loc[t].prev # loc[t].frag

\* Every fragment has come back to the free list of its owner.
AllReturned == free = Frags
=============================================================================
