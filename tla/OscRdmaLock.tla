----------------------------- MODULE OscRdmaLock -----------------------------
(***************************************************************************)
(* ompi/mca/osc/rdma: MPI_Win_lock, MPI_Win_lock_all and their unlocks, by *)
(* atomic operations on words of other processes.  Every target has a      *)
(* local_lock with a bit for an exclusive lock and a count of shared ones. *)
(* With two levels the leader has a global_lock: its low half counts those *)
(* who want an exclusive lock anywhere, its high half those in lock_all.   *)
(* With locks on demand, lock_all locks a target when it is first used.    *)
(*                                                                         *)
(* A lock is taken by an atomic operation whose result is awaited; what a  *)
(* process takes back is sent off and arrives at any time, in any order.   *)
(* The code only asks whether a field is zero, so a field is kept as what  *)
(* each process has in it.                                                 *)
(*                                                                         *)
(* A process follows the rule of MPI that its access epochs are disjoint.  *)
(* MPI_MODE_NOCHECK, which takes no lock, is left out.                     *)
(***************************************************************************)
EXTENDS Integers, FiniteSets

CONSTANTS
  Procs,
  Targets,     \* the processes that are locked
  TwoLevel,    \* OMPI_OSC_RDMA_LOCKING_TWO_LEVEL, not _ON_DEMAND
  Epochs,      \* how often each process may lock
  MaxFlight    \* how many operations of a process on a field may be under way

LockingAssumption ==
  /\ Targets \subseteq Procs /\ IsFiniteSet(Targets)
  /\ TwoLevel \in BOOLEAN /\ Epochs \in [Procs -> Nat] /\ MaxFlight \in Nat

VARIABLES
  word,      \* per field and process: what the process has added to it
  flight,    \* what it takes back has been sent off this often
  at,        \* where a process is in its call, for which target, and whether it
             \* has added to a field in vain
  locks,     \* per process and target: the lock of a finished MPI_Win_lock
  all,       \* whether a process is in an epoch of MPI_Win_lock_all
  demand,    \* the targets it has locked on demand
  epochs     \* how often a process may still lock

vars == <<word, flight, at, locks, all, demand, epochs>>

\* The fields of global_lock, and of the local_lock of each target.
Low == <<"low">>
High == <<"high">>
Excl(t) == <<"excl", t>>
Shared(t) == <<"shared", t>>
Fields == {Low, High} \cup {Excl(t) : t \in Targets} \cup {Shared(t) : t \in Targets}

NoTarget == "none"
At(pc, t) == [pc |-> pc, target |-> t, added |-> FALSE]
Idle == At("idle", NoTarget)
Goto(p, x) == at' = [at EXCEPT ![p] = x]
Pc(p) == at[p].pc
Target(p) == at[p].target

Init ==
  /\ word = [f \in Fields |-> [p \in Procs |-> 0]]
  /\ flight = [f \in Fields |-> [p \in Procs |-> 0]]
  /\ at = [p \in Procs |-> Idle]
  /\ locks = [p \in Procs |-> [t \in Targets |-> "none"]]
  /\ all = [p \in Procs |-> FALSE]
  /\ demand = [p \in Procs |-> {}]
  /\ epochs = Epochs

-----------------------------------------------------------------------------
(* osc_rdma_lock.h *)

Zero(f) == \A q \in Procs : word[f][q] = 0
Add(f, p) == word' = [word EXCEPT ![f][p] = @ + 1]

\* ompi_osc_rdma_lock_release_shared and _release_exclusive
Release(fs, p) ==
  flight' = [f \in Fields |-> IF f \in fs THEN [flight[f] EXCEPT ![p] = @ + 1] ELSE flight[f]]

\* The operation reaches the word.
Arrive(f, p) ==
  /\ flight[f][p] > 0
  /\ flight' = [flight EXCEPT ![f][p] = @ - 1]
  /\ word' = [word EXCEPT ![f][p] = @ - 1]
  /\ UNCHANGED <<at, locks, all, demand, epochs>>

\* ompi_osc_rdma_lock_acquire_shared: field(p) goes up, and the old value of
\* check(p) tells whether the lock is had.
Acquires(p) == Pc(p) \in {"low", "high", "shared"} /\ ~at[p].added
field(p) == CASE Pc(p) = "low" -> Low [] Pc(p) = "high" -> High [] OTHER -> Shared(Target(p))

\* Mutation: the master lock is had although a process is in lock_all.
check_mut(p) == IF Pc(p) = "high" THEN Low ELSE Excl(Target(p))

check(p) == CASE Pc(p) = "low" -> High [] Pc(p) = "high" -> Low [] OTHER -> Excl(Target(p))

Granted(p) == Zero(check(p)) /\ Add(field(p), p)

Refused(p) ==
  /\ Acquires(p) /\ ~Zero(check(p)) /\ flight[field(p)][p] < MaxFlight
  /\ Add(field(p), p)
  /\ Goto(p, [at[p] EXCEPT !.added = TRUE])
  /\ UNCHANGED <<flight, locks, all, demand, epochs>>

BackOff(p) ==
  /\ at[p].added
  /\ Release({field(p)}, p)
  /\ Goto(p, [at[p] EXCEPT !.added = FALSE])
  /\ UNCHANGED <<word, locks, all, demand, epochs>>

-----------------------------------------------------------------------------
(* ompi_osc_rdma_lock_atomic and ompi_osc_rdma_unlock_atomic *)

Lock(p, t, type) ==
  /\ Pc(p) = "idle" /\ ~all[p] /\ locks[p][t] = "none" /\ epochs[p] > 0
  /\ epochs' = [epochs EXCEPT ![p] = @ - 1]
  /\ Goto(p, At(IF type = "shared" THEN "shared" ELSE IF TwoLevel THEN "low" ELSE "excl", t))
  /\ UNCHANGED <<word, flight, locks, all, demand>>

\* The master lock is had: no process is in lock_all.
LowGranted(p) ==
  /\ Acquires(p) /\ Pc(p) = "low" /\ Granted(p)
  /\ Goto(p, At("excl", Target(p)))
  /\ UNCHANGED <<flight, locks, all, demand, epochs>>

\* ompi_osc_rdma_lock_try_acquire_exclusive: the whole word is zero.
Unlocked(t) == Zero(Excl(t)) /\ Zero(Shared(t))

TryExclusive(p) ==
  /\ Pc(p) = "excl" /\ Unlocked(Target(p))
  /\ Add(Excl(Target(p)), p)
  /\ locks' = [locks EXCEPT ![p][Target(p)] = "exclusive"]
  /\ Goto(p, Idle)
  /\ UNCHANGED <<flight, all, demand, epochs>>

\* Mutation: the master lock is not given back before the next attempt.
TryFails_mut(p) ==
  /\ Pc(p) = "excl" /\ ~Unlocked(Target(p)) /\ flight[Low][p] < MaxFlight
  /\ Goto(p, At(IF TwoLevel THEN "low" ELSE "excl", Target(p)))
  /\ UNCHANGED <<word, flight, locks, all, demand, epochs>>

TryFails(p) ==
  /\ Pc(p) = "excl" /\ ~Unlocked(Target(p)) /\ flight[Low][p] < MaxFlight
  /\ Release(IF TwoLevel THEN {Low} ELSE {}, p)
  /\ Goto(p, At(IF TwoLevel THEN "low" ELSE "excl", Target(p)))
  /\ UNCHANGED <<word, locks, all, demand, epochs>>

\* A shared lock, of MPI_Win_lock or of ompi_osc_rdma_demand_lock_peer.
SharedGranted(p) ==
  /\ Acquires(p) /\ Pc(p) = "shared" /\ Granted(p)
  /\ IF all[p]
     THEN demand' = [demand EXCEPT ![p] = @ \cup {Target(p)}] /\ UNCHANGED locks
     ELSE locks' = [locks EXCEPT ![p][Target(p)] = "shared"] /\ UNCHANGED demand
  /\ Goto(p, Idle)
  /\ UNCHANGED <<flight, all, epochs>>

Unlock(p, t) ==
  /\ Pc(p) = "idle" /\ locks[p][t] # "none"
  /\ Release(IF locks[p][t] = "shared" THEN {Shared(t)}
             ELSE IF TwoLevel THEN {Excl(t), Low} ELSE {Excl(t)}, p)
  /\ locks' = [locks EXCEPT ![p][t] = "none"]
  /\ UNCHANGED <<word, at, all, demand, epochs>>

-----------------------------------------------------------------------------
(* ompi_osc_rdma_lock_all_atomic and ompi_osc_rdma_unlock_all_atomic *)

\* On demand, a process begins with the lock on itself.
LockAll(p) ==
  /\ Pc(p) = "idle" /\ ~all[p] /\ epochs[p] > 0 /\ \A t \in Targets : locks[p][t] = "none"
  /\ epochs' = [epochs EXCEPT ![p] = @ - 1]
  /\ all' = [all EXCEPT ![p] = TRUE]
  /\ IF TwoLevel THEN Goto(p, At("high", NoTarget))
     ELSE IF p \in Targets THEN Goto(p, At("shared", p)) ELSE UNCHANGED at
  /\ UNCHANGED <<word, flight, locks, demand>>

HighGranted(p) ==
  /\ Acquires(p) /\ Pc(p) = "high" /\ Granted(p)
  /\ Goto(p, Idle)
  /\ UNCHANGED <<flight, locks, all, demand, epochs>>

\* ompi_osc_rdma_module_sync_lookup, before an access to a target
Lookup(p, t) ==
  /\ Pc(p) = "idle" /\ all[p] /\ ~TwoLevel /\ t \notin demand[p]
  /\ Goto(p, At("shared", t))
  /\ UNCHANGED <<word, flight, locks, all, demand, epochs>>

\* Mutation: the targets locked on demand are forgotten.
UnlockAll_mut(p) ==
  /\ Pc(p) = "idle" /\ all[p]
  /\ Release(IF TwoLevel THEN {High} ELSE {}, p)
  /\ all' = [all EXCEPT ![p] = FALSE]
  /\ demand' = [demand EXCEPT ![p] = {}]
  /\ UNCHANGED <<word, at, locks, epochs>>

UnlockAll(p) ==
  /\ Pc(p) = "idle" /\ all[p]
  /\ Release(IF TwoLevel THEN {High} ELSE { Shared(t) : t \in demand[p] }, p)
  /\ all' = [all EXCEPT ![p] = FALSE]
  /\ demand' = [demand EXCEPT ![p] = {}]
  /\ UNCHANGED <<word, at, locks, epochs>>

-----------------------------------------------------------------------------

Next ==
  \/ \E f \in Fields, p \in Procs : Arrive(f, p)
  \/ \E p \in Procs :
       \/ Refused(p) \/ BackOff(p)
       \/ \E t \in Targets, type \in {"shared", "exclusive"} : Lock(p, t, type)
       \/ LowGranted(p) \/ TryExclusive(p) \/ TryFails(p) \/ SharedGranted(p)
       \/ \E t \in Targets : Unlock(p, t) \/ Lookup(p, t)
       \/ LockAll(p) \/ HighGranted(p) \/ UnlockAll(p)

Spec == Init /\ [][Next]_vars

-----------------------------------------------------------------------------

\* p may access the window of t without excluding others.
SharesAccess(p, t) ==
  \/ locks[p][t] = "shared" \/ t \in demand[p]
  \/ TwoLevel /\ all[p] /\ Pc(p) # "high"

\* Safety: while a process has the exclusive lock on a target, nobody else
\* has any lock on it, by MPI_Win_lock, MPI_Win_lock_all or on demand,
\* although releases arrive late and in any order and refused attempts leave
\* traces in the words.
MutualExclusion ==
  \A p, q \in Procs, t \in Targets :
    p # q /\ locks[p][t] = "exclusive" => locks[q][t] # "exclusive" /\ ~SharesAccess(q, t)

\* What p holds in the field f, and what it has added in vain.
ExclusiveLocks(p) == { t \in Targets : locks[p][t] = "exclusive" }
InLow(p) ==
  IF ~TwoLevel THEN 0
  ELSE IF Pc(p) = "excl" THEN Cardinality(ExclusiveLocks(p)) + 1
  ELSE Cardinality(ExclusiveLocks(p))
Holds(p, f) ==
  \/ f = High /\ TwoLevel /\ all[p] /\ Pc(p) # "high"
  \/ \E t \in Targets :
       \/ f = Excl(t) /\ locks[p][t] = "exclusive"
       \/ f = Shared(t) /\ (locks[p][t] = "shared" \/ t \in demand[p])
Held(p, f) == IF f = Low THEN InLow(p) ELSE IF Holds(p, f) THEN 1 ELSE 0
InVain(p, f) == IF at[p].added /\ field(p) = f THEN 1 ELSE 0

\* Safety: nothing is added to a field but what a process holds there, has
\* just added in vain, or has already sent off to be taken back.  So no field
\* falls below zero, and when nobody holds anything and all has arrived the
\* words are zero and the next lock is granted.
WordsAreOwned ==
  \A f \in Fields, p \in Procs : word[f][p] = flight[f][p] + Held(p, f) + InVain(p, f)
=============================================================================
