-------------------------------- MODULE OscSm --------------------------------
(***************************************************************************)
(* ompi/mca/osc/sm: the synchronization calls on a window of processes     *)
(* that share memory.                                                      *)
(*                                                                         *)
(* Passive target: every target has a lock of three counters, from which a *)
(* process takes a ticket and waits for its turn (osc_sm_passive_target.c).*)
(* Active target: a target posts a bit to every process of its group and   *)
(* counts their completions; a fence is a barrier with a sense, or that of *)
(* the communicator, which CollBarrier models (osc_sm_active_target.c).    *)
(*                                                                         *)
(* A process has one thread and makes the calls of its program.  A step is *)
(* one access to shared memory, or what is done under the shared mutex.    *)
(***************************************************************************)
EXTENDS Integers, Sequences, FiniteSets, SequencesExt

CONSTANTS
  Size,       \* of the communicator
  Width,      \* the counters of a lock are numbers modulo Width (2^32)
  Programs    \* what the processes may call, a set of functions of the ranks

Procs == 0..(Size - 1)

OscSmAssumption ==
  /\ Size \in Nat \ {0} /\ Width \in Nat /\ Width > Size
  /\ \A prg \in Programs : DOMAIN prg = Procs

VARIABLES
  prog,               \* per process: the calls it has still to make
  at,                 \* where it is in its call, the ranks it has still to deal
                      \* with, the type of the lock it takes and its ticket
  node,               \* node_states: complete_count and the lock of each process
  posts,              \* per process: the word with a bit for each rank
  outstanding_locks,  \* per process and target
  start_group, post_group,
  my_sense, sense, count,
  stale               \* completions of an earlier epoch were not taken away

vars == <<prog, at, node, posts, outstanding_locks, start_group, post_group,
          my_sense, sense, count, stale>>
lockVars == <<node, outstanding_locks>>
epochVars == <<posts, start_group, post_group, stale>>
fenceVars == <<my_sense, sense, count>>

\* NULL, which is not a group of ranks
NoGroup == {-1}
At(pc, todo, type) == [pc |-> pc, todo |-> todo, type |-> type, me |-> 0]
Idle == At("idle", << >>, "none")
Pc(p) == at[p].pc
Rank(p) == Head(at[p].todo)
Call(p) == Head(prog[p])
Calls(p, names) == Pc(p) = "idle" /\ prog[p] # << >> /\ Call(p).call \in names
Goto(p, x) == at' = [at EXCEPT ![p] = x]
Return(p) == prog' = [prog EXCEPT ![p] = Tail(@)]

\* One rank of the list is dealt with: the next one, or the call returns.
Advance(p, pc) ==
  IF Len(at[p].todo) = 1
  THEN Goto(p, Idle) /\ Return(p)
  ELSE Goto(p, At(pc, Tail(at[p].todo), at[p].type)) /\ UNCHANGED prog

Inc(x) == (x + 1) % Width
Count(t, field) == node' = [node EXCEPT ![t][field] = Inc(@)]

\* component_select: each process clears its node state, rank 0 the global
\* state, and a barrier ends the call.
Init ==
  /\ prog \in Programs
  /\ at = [p \in Procs |-> Idle]
  /\ node = [t \in Procs |-> [complete_count |-> 0, counter |-> 0, write |-> 0, read |-> 0]]
  /\ posts = [p \in Procs |-> 0]
  /\ outstanding_locks = [p \in Procs |-> [t \in Procs |-> "none"]]
  /\ start_group = [p \in Procs |-> NoGroup] /\ post_group = [p \in Procs |-> NoGroup]
  /\ my_sense = [p \in Procs |-> TRUE] /\ sense = TRUE /\ count = Size
  /\ stale = [p \in Procs |-> FALSE]

-----------------------------------------------------------------------------
(* osc_sm_passive_target.c *)

Ranks == [n \in 1..Size |-> n - 1]

\* ompi_osc_sm_lock, _unlock, _lock_all and _unlock_all; those for all deal
\* with one rank after the other.
BeginLocking(p) ==
  /\ Calls(p, {"lock", "unlock", "lock_all", "unlock_all"})
  /\ Goto(p, CASE Call(p).call = "lock" -> At("lock", <<Call(p).target>>, Call(p).type)
               [] Call(p).call = "unlock" -> At("unlock", <<Call(p).target>>, "none")
               [] Call(p).call = "lock_all" -> At("lock", Ranks, Call(p).type)
               [] OTHER -> At("unlock", Ranks, "none"))
  /\ UNCHANGED <<prog, lockVars, epochVars, fenceVars>>

\* OMPI_ERR_RMA_SYNC: the target is locked already, or not at all.
RefuseLocking(p) ==
  /\ Pc(p) \in {"lock", "unlock"}
  /\ (Pc(p) = "lock") = (outstanding_locks[p][Rank(p)] # "none")
  /\ Goto(p, Idle) /\ Return(p)
  /\ UNCHANGED <<lockVars, epochVars, fenceVars>>

\* The first access of start_exclusive and of start_shared.
TakeTicket(p) ==
  /\ Pc(p) = "lock" /\ outstanding_locks[p][Rank(p)] = "none" /\ at[p].type # "nocheck"
  /\ outstanding_locks' = [outstanding_locks EXCEPT ![p][Rank(p)] = at[p].type]
  /\ Goto(p, [at[p] EXCEPT !.pc = at[p].type, !.me = node[Rank(p)].counter])
  /\ Count(Rank(p), "counter")
  /\ UNCHANGED <<prog, epochVars, fenceVars>>

\* MPI_MODE_NOCHECK
LockUnchecked(p) ==
  /\ Pc(p) = "lock" /\ outstanding_locks[p][Rank(p)] = "none" /\ at[p].type = "nocheck"
  /\ outstanding_locks' = [outstanding_locks EXCEPT ![p][Rank(p)] = "nocheck"]
  /\ Advance(p, "lock")
  /\ UNCHANGED <<node, epochVars, fenceVars>>

\* Mutation: an exclusive lock waits for the same counter as a shared one.
ExclusiveGranted_mut(p) ==
  /\ Pc(p) = "exclusive" /\ at[p].me = node[Rank(p)].read
  /\ Advance(p, "lock")
  /\ UNCHANGED <<lockVars, epochVars, fenceVars>>

ExclusiveGranted(p) ==
  /\ Pc(p) = "exclusive" /\ at[p].me = node[Rank(p)].write
  /\ Advance(p, "lock")
  /\ UNCHANGED <<lockVars, epochVars, fenceVars>>

SharedGranted(p) ==
  /\ Pc(p) = "shared" /\ at[p].me = node[Rank(p)].read
  /\ Goto(p, [at[p] EXCEPT !.pc = "admitted"])
  /\ UNCHANGED <<prog, lockVars, epochVars, fenceVars>>

\* The last access of start_shared: a shared lock with the next ticket is had.
LetNextShare(p) ==
  /\ Pc(p) = "admitted"
  /\ Count(Rank(p), "read")
  /\ Advance(p, "lock")
  /\ UNCHANGED <<outstanding_locks, epochVars, fenceVars>>

Unlocked(p) == outstanding_locks' = [outstanding_locks EXCEPT ![p][Rank(p)] = "none"]

\* end_shared
EndShared(p) ==
  /\ Pc(p) = "unlock" /\ outstanding_locks[p][Rank(p)] = "shared"
  /\ Count(Rank(p), "write")
  /\ Unlocked(p) /\ Advance(p, "unlock")
  /\ UNCHANGED <<epochVars, fenceVars>>

\* What was locked with MPI_MODE_NOCHECK
UnlockUnchecked(p) ==
  /\ Pc(p) = "unlock" /\ outstanding_locks[p][Rank(p)] = "nocheck"
  /\ Unlocked(p) /\ Advance(p, "unlock")
  /\ UNCHANGED <<node, epochVars, fenceVars>>

\* end_exclusive: an exclusive lock with the next ticket is had, then a shared.
EndExclusive(p) ==
  \/ /\ Pc(p) = "unlock" /\ outstanding_locks[p][Rank(p)] = "exclusive"
     /\ Count(Rank(p), "write")
     /\ Goto(p, [at[p] EXCEPT !.pc = "ended"])
     /\ UNCHANGED <<prog, outstanding_locks, epochVars, fenceVars>>
  \/ /\ Pc(p) = "ended"
     /\ Count(Rank(p), "read")
     /\ Unlocked(p) /\ Advance(p, "unlock")
     /\ UNCHANGED <<epochVars, fenceVars>>

Locking(p) ==
  \/ BeginLocking(p) \/ RefuseLocking(p)
  \/ TakeTicket(p) \/ LockUnchecked(p)
  \/ ExclusiveGranted(p) \/ SharedGranted(p) \/ LetNextShare(p)
  \/ EndShared(p) \/ EndExclusive(p) \/ UnlockUnchecked(p)

-----------------------------------------------------------------------------
(* osc_sm_active_target.c: post, start, complete, wait and test *)

\* ompi_osc_sm_group_ranks: the ranks of a group, sorted.
SortedRanks(group) == SetToSortSeq(group, <)

\* A loop over the ranks, or nothing to do.
Loop(p, pc, group) ==
  IF group = {} THEN Return(p) /\ UNCHANGED at
  ELSE Goto(p, At(pc, SortedRanks(group), "none")) /\ UNCHANGED prog

HasBit(w, r) == (w \div 2^r) % 2 = 1

\* Mutation: the completions of the last epoch stay.
Post_mut(p) ==
  /\ Calls(p, {"post"}) /\ post_group[p] = NoGroup
  /\ post_group' = [post_group EXCEPT ![p] = Call(p).group]
  /\ IF Call(p).check
     THEN UNCHANGED <<node, stale>> /\ Loop(p, "posting", Call(p).group)
     ELSE /\ stale' = [stale EXCEPT ![p] = @ \/ node[p].complete_count # 0]
          /\ Return(p) /\ UNCHANGED <<at, node>>
  /\ UNCHANGED <<outstanding_locks, posts, start_group, fenceVars>>

\* ompi_osc_sm_post; MPI_MODE_NOCHECK leaves complete_count as it is.
Post(p) ==
  /\ Calls(p, {"post"}) /\ post_group[p] = NoGroup
  /\ post_group' = [post_group EXCEPT ![p] = Call(p).group]
  /\ IF Call(p).check
     THEN /\ node' = [node EXCEPT ![p].complete_count = 0]
          /\ Loop(p, "posting", Call(p).group) /\ UNCHANGED stale
     ELSE /\ stale' = [stale EXCEPT ![p] = @ \/ node[p].complete_count # 0]
          /\ Return(p) /\ UNCHANGED <<at, node>>
  /\ UNCHANGED <<outstanding_locks, posts, start_group, fenceVars>>

\* The bit is added, so that a bit which is still set would be carried over.
AddPost(p) ==
  /\ Pc(p) = "posting"
  /\ posts' = [posts EXCEPT ![Rank(p)] = @ + 2^p]
  /\ Advance(p, "posting")
  /\ UNCHANGED <<lockVars, start_group, post_group, stale, fenceVars>>

\* ompi_osc_sm_start
Start(p) ==
  /\ Calls(p, {"start"}) /\ start_group[p] = NoGroup
  /\ start_group' = [start_group EXCEPT ![p] = Call(p).group]
  /\ IF Call(p).check THEN Loop(p, "starting", Call(p).group) ELSE Return(p) /\ UNCHANGED at
  /\ UNCHANGED <<lockVars, posts, post_group, stale, fenceVars>>

\* The bit of the rank is awaited and cleared; only this process clears it.
AwaitPost(p) ==
  /\ Pc(p) = "starting" /\ HasBit(posts[p], Rank(p))
  /\ posts' = [posts EXCEPT ![p] = @ - 2^Rank(p)]
  /\ Advance(p, "starting")
  /\ UNCHANGED <<lockVars, start_group, post_group, stale, fenceVars>>

\* ompi_osc_sm_complete
Complete(p) ==
  /\ Calls(p, {"complete"}) /\ start_group[p] # NoGroup
  /\ start_group' = [start_group EXCEPT ![p] = NoGroup]
  /\ Loop(p, "completing", start_group[p])
  /\ UNCHANGED <<lockVars, posts, post_group, stale, fenceVars>>

AddComplete(p) ==
  /\ Pc(p) = "completing"
  /\ node' = [node EXCEPT ![Rank(p)].complete_count = @ + 1]
  /\ Advance(p, "completing")
  /\ UNCHANGED <<outstanding_locks, epochVars, fenceVars>>

AllCompleted(p) == node[p].complete_count = Cardinality(post_group[p])

\* ompi_osc_sm_wait, and an ompi_osc_sm_test that returns true.
ExposureEnds(p) ==
  /\ Calls(p, {"wait", "test"}) /\ post_group[p] # NoGroup /\ AllCompleted(p)
  /\ post_group' = [post_group EXCEPT ![p] = NoGroup]
  /\ Return(p)
  /\ UNCHANGED <<at, lockVars, posts, start_group, stale, fenceVars>>

TestFails(p) ==
  /\ Calls(p, {"test"}) /\ post_group[p] # NoGroup /\ ~AllCompleted(p)
  /\ Return(p)
  /\ UNCHANGED <<at, lockVars, epochVars, fenceVars>>

\* OMPI_ERR_RMA_SYNC: the epoch is open already, or there is none.
RefuseEpoch(p) ==
  /\ \/ Calls(p, {"post"}) /\ post_group[p] # NoGroup
     \/ Calls(p, {"start"}) /\ start_group[p] # NoGroup
     \/ Calls(p, {"complete"}) /\ start_group[p] = NoGroup
     \/ Calls(p, {"wait", "test"}) /\ post_group[p] = NoGroup
  /\ Return(p)
  /\ UNCHANGED <<at, lockVars, epochVars, fenceVars>>

Epochs(p) ==
  \/ Post(p) \/ AddPost(p) \/ Start(p) \/ AwaitPost(p) \/ Complete(p) \/ AddComplete(p)
  \/ ExposureEnds(p) \/ TestFails(p) \/ RefuseEpoch(p)

-----------------------------------------------------------------------------
(* osc_sm_active_target.c: ompi_osc_sm_fence with blocking_fence *)

\* Mutation: the process keeps its sense.
Fence_mut(p) ==
  /\ Calls(p, {"fence"})
  /\ IF count = 1
     THEN /\ count' = Size /\ sense' = my_sense[p]
          /\ at' = [q \in Procs |-> IF Pc(q) = "asleep" THEN [at[q] EXCEPT !.pc = "awake"] ELSE at[q]]
          /\ Return(p)
     ELSE count' = count - 1 /\ Goto(p, At("awake", << >>, "none")) /\ UNCHANGED <<sense, prog>>
  /\ UNCHANGED <<my_sense, lockVars, epochVars>>

\* The last process sets the count back and wakes the others.
Fence(p) ==
  /\ Calls(p, {"fence"})
  /\ my_sense' = [my_sense EXCEPT ![p] = ~@]
  /\ IF count = 1
     THEN /\ count' = Size /\ sense' = ~my_sense[p]
          /\ at' = [q \in Procs |-> IF Pc(q) = "asleep" THEN [at[q] EXCEPT !.pc = "awake"] ELSE at[q]]
          /\ Return(p)
     ELSE count' = count - 1 /\ Goto(p, At("awake", << >>, "none")) /\ UNCHANGED <<sense, prog>>
  /\ UNCHANGED <<lockVars, epochVars>>

\* The condition of the loop, looked at with the mutex held.
LeaveFence(p) ==
  /\ Pc(p) = "awake" /\ sense = my_sense[p]
  /\ Goto(p, Idle) /\ Return(p)
  /\ UNCHANGED <<lockVars, epochVars, fenceVars>>

Sleep(p) ==
  /\ Pc(p) = "awake" /\ sense # my_sense[p]
  /\ Goto(p, [at[p] EXCEPT !.pc = "asleep"])
  /\ UNCHANGED <<prog, lockVars, epochVars, fenceVars>>

\* pthread_cond_wait may return without a broadcast.
SpuriousWakeup(p) ==
  /\ Pc(p) = "asleep"
  /\ Goto(p, [at[p] EXCEPT !.pc = "awake"])
  /\ UNCHANGED <<prog, lockVars, epochVars, fenceVars>>

-----------------------------------------------------------------------------

\* A barrier of the program: MPI_MODE_NOCHECK is for a start that is known to
\* come after the posts.
Barrier ==
  /\ \A p \in Procs : Calls(p, {"barrier"})
  /\ prog' = [p \in Procs |-> Tail(prog[p])]
  /\ UNCHANGED <<at, lockVars, epochVars, fenceVars>>

Step(p) == Locking(p) \/ Epochs(p) \/ Fence(p) \/ LeaveFence(p) \/ Sleep(p)

Next == Barrier \/ \E p \in Procs : Step(p) \/ SpuriousWakeup(p)

-----------------------------------------------------------------------------

\* The process waits for its turn at the lock of t.
Waiting(p, t) == Pc(p) \in {"exclusive", "shared"} /\ Rank(p) = t
\* It has the lock, until it raises write.
Has(p, t, type) ==
  /\ outstanding_locks[p][t] = type /\ ~Waiting(p, t) /\ ~(Pc(p) = "ended" /\ Rank(p) = t)

\* Safety: an exclusive lock excludes every other on the same target, also
\* when the 32-bit counters start again at zero.
MutualExclusion ==
  \A t, p, q \in Procs :
    Has(p, t, "exclusive") /\ p # q => ~Has(q, t, "exclusive") /\ ~Has(q, t, "shared")

\* How long ago p took its ticket, in tickets.
Age(p) == (node[Rank(p)].counter - at[p].me) % Width

\* Action property: the locks are had in the order of the tickets, so that no
\* process is overtaken by one that asked later, shared or not.
NoOvertaking ==
  \A t, p, q \in Procs :
    Waiting(p, t) /\ ~Waiting(p, t)' /\ Waiting(q, t) => Age(p) >= Age(q)

\* Safety: a process whose start has returned and that has not called complete
\* is in the group of an epoch that its target has open: wait and test have not
\* returned (MPI_Win_wait.3in:56).  The exception is an epoch with NOCHECK
\* after another one, for which post leaves the completions of the last one.
AccessIsExposed ==
  \A p \in Procs :
    (start_group[p] # NoGroup /\ Pc(p) # "starting") =>
      \A t \in start_group[p] : p \in post_group[t] \/ stale[t]

\* Safety: the bit that post adds is clear, so that no post is taken for that
\* of the next rank (osc_sm_active_target.c:250).
BitIsClear == \A p \in Procs : Pc(p) = "posting" => ~HasBit(posts[Rank(p)], p)

FencesLeft(p) == Len(SelectSeq(prog[p], LAMBDA c : c.call = "fence"))
InFence(p) == Pc(p) \in {"awake", "asleep"}

\* Safety: no process leaves a fence that another one has not entered, also
\* when fences follow one another with the same count.
FenceHolds ==
  \A p, q \in Procs :
    FencesLeft(q) - (IF InFence(q) THEN 1 ELSE 0) <= FencesLeft(p)

\* Every call has returned and no post is left, unless an epoch began with the
\* completions of another one.
AllReturned ==
  (\A p \in Procs : prog[p] = << >> /\ posts[p] = 0) \/ (\E p \in Procs : stale[p])
=============================================================================
