------------------------------ MODULE FreeList ------------------------------
(***************************************************************************)
(* opal/class/opal_free_list.h and .c: a pool of items that grows up to a  *)
(* maximum, whose users may block until an item is returned.  The pool is  *)
(* a LIFO; OpalLifo shows that its operations are atomic, and the items    *)
(* are alike, so that the model counts them.                               *)
(*                                                                         *)
(* opal_condition_t (opal/threads/condition.h) is two plain counters, and  *)
(* return_mt signals without the lock: one step is one access to them.  A  *)
(* thread asleep in opal_condition_wait polls: it takes the lock for the   *)
(* moment it needs to look at c_signaled, and runs opal_progress.          *)
(***************************************************************************)
EXTENDS Integers, FiniteSets, FiniteSetsExt

CONSTANTS
  Threads, MainThread, NoThread,
  MaxToAlloc, PerAlloc, Initial,   \* fl_max_to_alloc, fl_num_per_alloc, the items of init
  PageSize, ElemSize,       \* of memory and of the payload of an item, 0 if it has none
  Ops                       \* bound: calls of each thread

FreeListAssumption ==
  /\ MainThread \in Threads /\ NoThread \notin Threads
  /\ MaxToAlloc \in Nat \ {0} /\ PerAlloc \in Nat \ {0}
  /\ Initial \in Nat /\ PageSize \in Nat \ {0} /\ ElemSize \in Nat
  /\ Ops \in [Threads -> Nat]

VARIABLES
  free,             \* items on the LIFO
  in_use,           \* items its users have
  num_allocated, num_waiting, c_waiting, c_signaled,
  lock,             \* the thread that holds fl_lock
  using_threads,
  pc, loc, ops

listVars == <<free, in_use, num_allocated>>
condVars == <<num_waiting, c_waiting, c_signaled>>
vars == <<listVars, condVars, lock, using_threads, pc, loc, ops>>

\* item: one was found; todo: items that grow has still to push; grown: items
\* it has yet to count; seen: c_signaled as read; caller: what to go back to.
NoLocals == [item |-> FALSE, todo |-> 0, grown |-> 0, seen |-> 0, size |-> 0, caller |-> "idle"]

(* How much opal_free_list_grow_st adds *)

\* The request is cut to what is left below the maximum.
Clamp(allocated, n) ==
  IF allocated + n > MaxToAlloc THEN MaxToAlloc - allocated ELSE n

\* MCA_RCACHE_FLAGS_CUDA_REGISTER_MEM, a default flag: the payloads fill whole
\* pages, and the number of items becomes what the pages hold.  The maximum
\* is not looked at again.  Once it has been passed, by less than a page, the
\* size_t arithmetic of both steps wraps to a buffer of 0 bytes and 0 items.
FillPages(n) ==
  IF ElemSize = 0
  THEN n
  ELSE (((n * ElemSize + PageSize - 1) \div PageSize) * PageSize) \div ElemSize

Growth(allocated, n) == FillPages(Clamp(allocated, n))

\* opal_free_list_init grows the list once.
Init ==
  /\ free = Growth(0, Initial) /\ in_use = 0 /\ num_allocated = free
  /\ num_waiting = 0 /\ c_waiting = 0 /\ c_signaled = 0
  /\ lock = NoThread
  /\ using_threads = FALSE
  /\ pc = [t \in Threads |-> "idle"]
  /\ loc = [t \in Threads |-> NoLocals]
  /\ ops = Ops

Goto(t, l) == pc' = [pc EXCEPT ![t] = l]
Return(t) == Goto(t, "idle") /\ loc' = [loc EXCEPT ![t] = NoLocals]
Call(t, l, locals) ==
  /\ pc[t] = "idle" /\ using_threads /\ ops[t] > 0
  /\ ops' = [ops EXCEPT ![t] = @ - 1]
  /\ loc' = [loc EXCEPT ![t] = locals]
  /\ Goto(t, l)
Lock(t) == lock = NoThread /\ lock' = t
Unlock(t) == lock = t /\ lock' = NoThread

-----------------------------------------------------------------------------
(* opal_free_list_grow_st, under the lock *)

Room == Growth(num_allocated, PerAlloc)

\* n items are allocated and initialised: fewer than Room, or none, when the
\* memory or item_init fails.  With item_out the first goes to the caller.
Grow(t, n, item_out) ==
  loc' = [loc EXCEPT ![t].item = item_out, ![t].grown = n,
                     ![t].todo = IF item_out THEN n - 1 ELSE n]

GrowPush(t) ==
  /\ pc[t] = "grow" /\ loc[t].todo > 0
  /\ free' = free + 1
  /\ loc' = [loc EXCEPT ![t].todo = @ - 1]
  /\ UNCHANGED <<in_use, num_allocated, condVars, lock, using_threads, pc, ops>>

GrowCount(t) ==
  /\ pc[t] = "grow" /\ loc[t].todo = 0
  /\ num_allocated' = num_allocated + loc[t].grown
  /\ loc' = [loc EXCEPT ![t].grown = 0]
  /\ Goto(t, CASE loc[t].caller = "get"    -> "unlock"
               [] loc[t].caller = "wait"   -> "wake"
               [] loc[t].caller = "resize" -> IF loc[t].size > num_allocated'
                                              THEN "resize" ELSE "unlock")
  /\ UNCHANGED <<free, in_use, condVars, lock, using_threads, ops>>

-----------------------------------------------------------------------------
(* opal_free_list_get_mt, opal_free_list_wait_mt, opal_free_list_resize_mt *)

CallGet(t) ==
  Call(t, "pop", [NoLocals EXCEPT !.caller = "get"])
  /\ UNCHANGED <<listVars, condVars, lock, using_threads>>

CallWait(t) ==
  Call(t, "pop", [NoLocals EXCEPT !.caller = "wait"])
  /\ UNCHANGED <<listVars, condVars, lock, using_threads>>

CallResize(t, size) ==
  /\ num_allocated <= size
  /\ Call(t, "lock", [NoLocals EXCEPT !.caller = "resize", !.size = size])
  /\ UNCHANGED <<listVars, condVars, lock, using_threads>>

Pop(t) ==
  /\ pc[t] = "pop"
  /\ IF free > 0
     THEN /\ free' = free - 1 /\ in_use' = in_use + 1
          /\ Return(t)
     ELSE /\ Goto(t, IF loc[t].caller = "get" THEN "lock" ELSE "trylock")
          /\ UNCHANGED <<free, in_use, loc>>
  /\ UNCHANGED <<num_allocated, condVars, lock, using_threads, ops>>

TryLock(t) ==
  /\ pc[t] = "trylock"
  /\ \/ Lock(t) /\ Goto(t, "check")
     \/ /\ lock # NoThread \/ \E u \in Threads : pc[u] = "asleep"
        /\ Goto(t, "lock") /\ UNCHANGED lock
  /\ UNCHANGED <<listVars, condVars, using_threads, loc, ops>>

\* A wait that had to queue for the lock only goes back to the pop.
TakeLock(t) ==
  /\ pc[t] = "lock"
  /\ Lock(t)
  /\ Goto(t, CASE loc[t].caller = "get"    -> "check"
               [] loc[t].caller = "wait"   -> "unlock"
               [] loc[t].caller = "resize" -> "resize")
  /\ UNCHANGED <<listVars, condVars, using_threads, loc, ops>>

Check(t) ==
  /\ pc[t] \in {"check", "resize"}
  /\ \E n \in 0 .. Room :
       IF n = 0
       THEN /\ Goto(t, IF loc[t].caller = "wait" THEN "count" ELSE "unlock")
            /\ UNCHANGED loc
       ELSE Grow(t, n, pc[t] = "check") /\ Goto(t, "grow")
  /\ UNCHANGED <<listVars, condVars, lock, using_threads, ops>>

ReleaseLock(t) ==
  /\ pc[t] = "unlock"
  /\ Unlock(t)
  /\ in_use' = IF loc[t].item THEN in_use + 1 ELSE in_use
  /\ IF loc[t].caller = "wait" /\ ~loc[t].item
     THEN Goto(t, "pop") /\ UNCHANGED loc
     ELSE Return(t)
  /\ UNCHANGED <<free, num_allocated, condVars, using_threads, ops>>

\* After a growth the others that wait are woken.
Wake(t) ==
  /\ pc[t] = "wake"
  /\ c_signaled' = IF num_waiting > 1 THEN c_waiting ELSE c_signaled
  /\ Goto(t, IF num_waiting = 1 THEN "signal" ELSE "unlock")
  /\ UNCHANGED <<listVars, num_waiting, c_waiting, lock, using_threads, loc, ops>>

-----------------------------------------------------------------------------
(* opal_condition_signal *)

Signal(t) ==
  /\ pc[t] = "signal"
  /\ IF c_waiting > 0
     THEN Goto(t, "signal_read") /\ UNCHANGED loc
     ELSE IF lock = t THEN Goto(t, "unlock") /\ UNCHANGED loc ELSE Return(t)
  /\ UNCHANGED <<listVars, condVars, lock, using_threads, ops>>

SignalRead(t) ==
  /\ pc[t] = "signal_read"
  /\ loc' = [loc EXCEPT ![t].seen = c_signaled]
  /\ Goto(t, "signal_write")
  /\ UNCHANGED <<listVars, condVars, lock, using_threads, ops>>

SignalWrite(t) ==
  /\ pc[t] = "signal_write"
  /\ c_signaled' = loc[t].seen + 1
  /\ IF lock = t
     THEN Goto(t, "unlock") /\ loc' = [loc EXCEPT ![t].seen = 0]
     ELSE Return(t)
  /\ UNCHANGED <<listVars, num_waiting, c_waiting, lock, using_threads, ops>>
-----------------------------------------------------------------------------
(* fl_num_waiting and opal_condition_wait, under the lock *)

Count(t) ==
  /\ pc[t] = "count"
  /\ num_waiting' = num_waiting + 1
  /\ Goto(t, "cond_count")
  /\ UNCHANGED <<listVars, c_waiting, c_signaled, lock, using_threads, loc, ops>>

CondCount(t) ==
  /\ pc[t] = "cond_count"
  /\ c_waiting' = c_waiting + 1
  /\ Goto(t, "cond_look")
  /\ UNCHANGED <<listVars, num_waiting, c_signaled, lock, using_threads, loc, ops>>

\* Mutation: a wait that finds a signal stays counted.
CondLook_mut(t) ==
  /\ pc[t] = "cond_look"
  /\ Unlock(t)
  /\ Goto(t, IF c_signaled # 0 THEN "relock" ELSE "asleep")
  /\ UNCHANGED <<listVars, condVars, using_threads, loc, ops>>

\* A signal that is already there is left there.
CondLook(t) ==
  /\ pc[t] = "cond_look"
  /\ IF c_signaled # 0
     THEN c_waiting' = c_waiting - 1 /\ Goto(t, "relock")
     ELSE UNCHANGED c_waiting /\ Goto(t, "asleep")
  /\ Unlock(t)
  /\ UNCHANGED <<listVars, num_waiting, c_signaled, using_threads, loc, ops>>

Relock(t) ==
  /\ pc[t] = "relock"
  /\ Lock(t)
  /\ Goto(t, "uncount")
  /\ UNCHANGED <<listVars, condVars, using_threads, loc, ops>>

Awake(t) ==
  /\ pc[t] = "asleep"
  /\ c_signaled # 0
  /\ Lock(t)
  /\ Goto(t, "cond_read")
  /\ UNCHANGED <<listVars, condVars, using_threads, loc, ops>>

CondRead(t) ==
  /\ pc[t] = "cond_read"
  /\ loc' = [loc EXCEPT ![t].seen = c_signaled]
  /\ Goto(t, "cond_write")
  /\ UNCHANGED <<listVars, condVars, lock, using_threads, ops>>

CondWrite(t) ==
  /\ pc[t] = "cond_write"
  /\ c_signaled' = loc[t].seen - 1
  /\ loc' = [loc EXCEPT ![t].seen = 0]
  /\ Goto(t, "cond_uncount")
  /\ UNCHANGED <<listVars, num_waiting, c_waiting, lock, using_threads, ops>>

CondUncount(t) ==
  /\ pc[t] = "cond_uncount"
  /\ c_waiting' = c_waiting - 1
  /\ Goto(t, "uncount")
  /\ UNCHANGED <<listVars, num_waiting, c_signaled, lock, using_threads, loc, ops>>

Uncount(t) ==
  /\ pc[t] = "uncount"
  /\ num_waiting' = num_waiting - 1
  /\ Goto(t, "unlock")
  /\ UNCHANGED <<listVars, c_waiting, c_signaled, lock, using_threads, loc, ops>>

-----------------------------------------------------------------------------
(* opal_free_list_return_mt: one signal, if the list was empty and if a      *)
(* thread is known to wait when it looks                                     *)

CallReturn(t) ==
  /\ in_use > 0
  /\ Call(t, IF free = 0 THEN "return_look" ELSE "idle", NoLocals)
  /\ in_use' = in_use - 1
  /\ free' = free + 1
  /\ UNCHANGED <<num_allocated, condVars, lock, using_threads>>

ReturnLook(t) ==
  /\ pc[t] = "return_look"
  /\ Goto(t, IF num_waiting > 0 THEN "signal" ELSE "idle")
  /\ UNCHANGED <<listVars, condVars, lock, using_threads, loc, ops>>

-----------------------------------------------------------------------------
(* One thread: get_st, wait_st and return_st, which nothing interrupts.  A   *)
(* wait_st that neither finds an item nor grows runs opal_progress, whose    *)
(* callbacks return items, and looks again.                                  *)

GetSt(n) ==
  IF free > 0
  THEN free' = free - 1 /\ in_use' = in_use + 1 /\ UNCHANGED num_allocated
  ELSE /\ num_allocated' = num_allocated + n
       /\ free' = IF n > 0 THEN n - 1 ELSE 0
       /\ in_use' = IF n > 0 THEN in_use + 1 ELSE in_use

ReturnSt ==
  /\ in_use > 0
  /\ in_use' = in_use - 1 /\ free' = free + 1
  /\ UNCHANGED num_allocated

SingleThreaded(t) ==
  /\ ~using_threads /\ t = MainThread /\ ops[t] > 0
  /\ ops' = [ops EXCEPT ![t] = @ - 1]
  /\ ReturnSt \/ \E n \in 0 .. Room : GetSt(n)
  /\ UNCHANGED <<condVars, lock, using_threads, pc, loc>>

StartThreads ==
  /\ ~using_threads
  /\ using_threads' = TRUE
  /\ UNCHANGED <<listVars, condVars, lock, pc, loc, ops>>

Next ==
  \/ StartThreads
  \/ \E t \in Threads :
       \/ SingleThreaded(t)
       \/ CallGet(t) \/ CallWait(t) \/ CallReturn(t) \/ \E size \in 1 .. MaxToAlloc : CallResize(t, size)
       \/ GrowPush(t) \/ GrowCount(t) \/ Pop(t) \/ TryLock(t) \/ TakeLock(t) \/ Check(t)
       \/ ReleaseLock(t) \/ Wake(t) \/ Signal(t) \/ SignalRead(t) \/ SignalWrite(t)
       \/ Count(t) \/ CondCount(t) \/ CondLook(t) \/ Relock(t) \/ Awake(t)
       \/ CondRead(t) \/ CondWrite(t) \/ CondUncount(t) \/ Uncount(t) \/ ReturnLook(t)

Spec == Init /\ [][Next]_vars

-----------------------------------------------------------------------------
(* Properties *)

Asleep(t) == pc[t] = "asleep" /\ c_signaled = 0
Quiet == \A t \in Threads : pc[t] = "idle" \/ Asleep(t)

\* Safety: every item is on the list, with a user, or in the hands of a call,
\* however the calls interleave, and the maximum is passed by the items that
\* fill the last page at most: the list never grows again once it is there.
\* (A list without payload keeps to the maximum.)
ItemsAccounted ==
  LET Local(op(_)) == MapThenSumSet(op, Threads)
      allocated == num_allocated + Local(LAMBDA t : loc[t].grown)
  IN  /\ free + in_use + Local(LAMBDA t : loc[t].todo)
           + Cardinality({ t \in Threads : loc[t].item }) = allocated
      /\ \/ allocated <= MaxToAlloc
         \/ (allocated - MaxToAlloc) * ElemSize \in 1 .. PageSize - 1

\* Safety: when every thread is out of the list or asleep, both counters of
\* waiting threads are their number and the lock is free; c_signaled, which
\* is written without the lock, never becomes negative.
SleepersAreCounted ==
  /\ c_signaled >= 0
  /\ Quiet => /\ num_waiting = Cardinality({ t \in Threads : Asleep(t) })
              /\ c_waiting = num_waiting
              /\ lock = NoThread

\* What opal_free_list.h:245 says of a blocked caller: nobody is left asleep
\* while an item that was returned is on the list.
BlockedUntilReturned ==
  Quiet => free = 0 \/ \A t \in Threads : ~Asleep(t)
=============================================================================
