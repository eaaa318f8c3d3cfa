--------------------------- MODULE MCSharedMemory ---------------------------
(***************************************************************************)
(* One instance for TLC of each structure that threads or processes work   *)
(* on by atomic accesses: the containers and the free list of OPAL, and    *)
(* the locks on windows of osc rdma in both modes.  A behaviour is a       *)
(* behaviour of one of them, the one named by the variable part, which     *)
(* never changes; the variables of the others stay as they are.  Modules   *)
(* that use the same name for a variable share the variable.  The module   *)
(* extends OscRdmaLock, which its proofs are about, in the mode with two   *)
(* levels; everything else is an instance.                                 *)
(***************************************************************************)
EXTENDS OscRdmaLock, Sequences, TLC

CONSTANTS t1, t2, t3, a, b, Ghost, Null, NoThread, Unused

VARIABLES
  part,
  pc, loc, ops, using_threads,
  head, tail, next, linked, held, result, item_free, queue, busy,
  free, in_use, num_allocated, num_waiting, c_waiting, c_signaled, lock,
  d_word, d_flight, d_at, d_locks, d_all, d_demand, d_epochs

containerVars == <<head, next, linked, held, result>>
lifoVars == item_free
fifoVars == <<tail, queue, busy>>
freeVars == <<free, in_use, num_allocated, num_waiting, c_waiting, c_signaled, lock>>
threadVars == <<pc, loc, ops, using_threads>>
demandVars == <<d_word, d_flight, d_at, d_locks, d_all, d_demand, d_epochs>>
mcVars ==
  <<part, threadVars, containerVars, lifoVars, fifoVars, freeVars, vars, demandVars>>

\* The main thread pushes both items; it can take both and put the first back
\* between two accesses of another thread.
Two == {t1, t2}
Three == {t1, t2, t3}
FiveOps == t1 :> 5 @@ t2 :> 1 @@ t3 :> 1
\* t1 is the main thread; the others, and the items, are alike.
Alike == Permutations({t2, t3}) \cup Permutations({a, b})

LifoWide == INSTANCE OpalLifo WITH
  Variant <- "cas128", Threads <- Three, MainThread <- t1, Items <- {a, b}, Ops <- FiveOps
LifoLlsc == INSTANCE OpalLifo WITH
  Variant <- "llsc", Threads <- Three, MainThread <- t1, Items <- {a, b}, Ops <- FiveOps
LifoFlag == INSTANCE OpalLifo WITH
  Variant <- "item_free", Threads <- Three, MainThread <- t1, Items <- {a, b}, Ops <- FiveOps

FifoWide == INSTANCE OpalFifo WITH
  Variant <- "cas128", Threads <- Two, MainThread <- t1, Items <- {a, b}, Ops <- t1 :> 4 @@ t2 :> 1
FifoLlsc == INSTANCE OpalFifo WITH
  Variant <- "llsc", Threads <- Three, MainThread <- t1, Items <- {a, b}, Ops <- FiveOps
FifoLock == INSTANCE OpalFifo WITH
  Variant <- "lock", Threads <- Three, MainThread <- t1, Items <- {a, b}, Ops <- FiveOps

Pool == INSTANCE FreeList WITH
  Threads <- Three, MainThread <- t1, MaxToAlloc <- 3, PerAlloc <- 2, Initial <- 0,
  PageSize <- 2, ElemSize <- 1,
  Ops <- t1 :> 3 @@ t2 :> 1 @@ t3 :> 1

\* Two of three processes are targets; the third makes the most calls.
TwoTargets == {t2, t3}
FourEpochs == t1 :> 2 @@ t2 :> 1 @@ t3 :> 1
OnDemand == INSTANCE OscRdmaLock WITH
  TwoLevel <- FALSE, word <- d_word, flight <- d_flight, at <- d_at, locks <- d_locks,
  all <- d_all, demand <- d_demand, epochs <- d_epochs

ASSUME LifoAssumptions ==
  LifoWide!LifoAssumption /\ LifoLlsc!LifoAssumption /\ LifoFlag!LifoAssumption
ASSUME FifoAssumptions ==
  FifoWide!FifoAssumption /\ FifoLlsc!FifoAssumption /\ FifoLock!FifoAssumption
ASSUME PoolAssumption == Pool!FreeListAssumption
ASSUME WindowAssumptions ==
  LockingAssumption /\ OnDemand!LockingAssumption

-----------------------------------------------------------------------------

Lifos == {"lifo cas128", "lifo llsc", "lifo item_free"}

NoContainer == head = Unused /\ next = Unused /\ linked = Unused /\ held = Unused /\ result = Unused
NoLifo == item_free = Unused
NoFifo == tail = Unused /\ queue = Unused /\ busy = Unused
NoPool ==
  /\ free = Unused /\ in_use = Unused /\ num_allocated = Unused /\ num_waiting = Unused
  /\ c_waiting = Unused /\ c_signaled = Unused /\ lock = Unused

NoThreads == pc = Unused /\ loc = Unused /\ ops = Unused /\ using_threads = Unused
NoDemand ==
  /\ d_word = Unused /\ d_flight = Unused /\ d_at = Unused /\ d_locks = Unused
  /\ d_all = Unused /\ d_demand = Unused /\ d_epochs = Unused
NoLocals == NoThreads /\ NoContainer /\ NoLifo /\ NoFifo /\ NoPool

MCInit ==
  /\ Init
  /\ \/ part \in Lifos /\ LifoWide!Init /\ NoFifo /\ NoPool /\ NoDemand
     \/ part = "fifo cas128" /\ FifoWide!Init /\ NoLifo /\ NoPool /\ NoDemand
     \/ part \in {"fifo llsc", "fifo lock"} /\ FifoLlsc!Init /\ NoLifo /\ NoPool /\ NoDemand
     \/ part = "free list" /\ Pool!Init /\ NoContainer /\ NoLifo /\ NoFifo /\ NoDemand
     \/ part = "window two level" /\ NoLocals /\ NoDemand
     \/ part = "window on demand" /\ NoLocals /\ OnDemand!Init

MCNext ==
  \/ /\ \/ part = "lifo cas128" /\ LifoWide!Next
        \/ part = "lifo llsc" /\ LifoLlsc!Next
        \/ part = "lifo item_free" /\ LifoFlag!Next
     /\ UNCHANGED <<part, fifoVars, freeVars, vars, demandVars>>
  \/ /\ \/ part = "fifo cas128" /\ FifoWide!Next
        \/ part = "fifo llsc" /\ FifoLlsc!Next
        \/ part = "fifo lock" /\ FifoLock!Next
     /\ UNCHANGED <<part, lifoVars, freeVars, vars, demandVars>>
  \/ /\ part = "free list" /\ Pool!Next
     /\ UNCHANGED <<part, containerVars, lifoVars, fifoVars, vars, demandVars>>
  \/ /\ part = "window two level" /\ Next
     /\ UNCHANGED <<part, threadVars, containerVars, lifoVars, fifoVars, freeVars, demandVars>>
  \/ /\ part = "window on demand" /\ OnDemand!Next
     /\ UNCHANGED <<part, threadVars, containerVars, lifoVars, fifoVars, freeVars, vars>>

MCSpec == MCInit /\ [][MCNext]_mcVars

-----------------------------------------------------------------------------
(* The properties of the modules, each for its part; MutualExclusion and
   WordsAreOwned of OscRdmaLock are checked as they stand. *)

\* Refinement: OpalLifo is a stack with atomic operations (ItemStack).
ImplementsStack == [][(part \in Lifos) => LifoWide!Stack!Step]_mcVars

\* Refinement: OpalFifo is a queue ordered by the tails (ItemQueue).
ImplementsQueue ==
  [][/\ part = "fifo cas128" => FifoWide!Queue!Step
     /\ part = "fifo llsc" => FifoLlsc!Queue!Step
     /\ part = "fifo lock" => FifoLock!Queue!Step]_mcVars

\* Safety: OpalLifo, the list always ends at the ghost (opal_lifo.h:108).
\* OpalFifo, no link is lost once every operation has returned, and a pop that
\* waits for a link waits for a push that is about to write it
\* (opal_fifo.h:154).
ListsAreWhole ==
  /\ part \in Lifos => LifoWide!ListEndsAtGhost
  /\ part = "fifo cas128" => FifoWide!QuiescentListIsQueue /\ FifoWide!WaitsForPush
  /\ part \in {"fifo llsc", "fifo lock"} => FifoLlsc!QuiescentListIsQueue /\ FifoLlsc!WaitsForPush

\* Safety: FreeList, every item is in one place, the maximum is passed only to
\* fill a page, and the counters of waiting threads are the sleepers.
PoolIsAccounted == part = "free list" => Pool!ItemsAccounted /\ Pool!SleepersAreCounted

\* Safety: OscRdmaLock with locks on demand, an exclusive lock on a window
\* excludes every other, and the words hold nothing that nobody takes back.
OnDemandExcludes ==
  part = "window on demand" => OnDemand!MutualExclusion /\ OnDemand!WordsAreOwned

\* What opal_free_list.h:245 says of a blocked caller.
BlockedUntilReturned == part = "free list" => Pool!BlockedUntilReturned
=============================================================================
