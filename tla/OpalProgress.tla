---------------------------- MODULE OpalProgress ----------------------------
(***************************************************************************)
(* The progress engine (opal/runtime/opal_progress.c) and the user of it   *)
(* that comes and goes, the pending sends of ob1 (pml_ob1_progress.c).     *)
(*                                                                         *)
(* opal_progress walks an array of callbacks without a lock, and every     *)
(* eighth time an array of low priority.  The arrays are changed under     *)
(* progress_lock, by other threads and by the callbacks themselves: an     *)
(* entry that goes is overwritten by the ones behind it, one by one, and   *)
(* an array that is full is replaced and freed.                            *)
(*                                                                         *)
(* Each access to the arrays and the counters is a step.  The event        *)
(* library is left out.  Writes behind the end of an array are lost, and a *)
(* freed array keeps its contents.                                         *)
(***************************************************************************)
EXTENDS Integers, Sequences

LOCAL INSTANCE FiniteSetsExt

CONSTANTS
  Threads,
  Programs,     \* per thread: the calls it makes, [call, cb]
  Walkers,      \* threads that call opal_progress again and again
  Callbacks,
  Ob1,          \* mca_pml_ob1_progress
  Fake,         \* fake_cb
  InitialSize,  \* of the arrays, 8
  Period,       \* of the callbacks of low priority, 8
  Lacks,        \* how often a send finds no resource again
  NoThread

ProgressAssumption ==
  /\ Walkers \subseteq Threads /\ Ob1 \in Callbacks /\ Fake \notin Callbacks
  /\ InitialSize \in Nat \ {0} /\ Period \in Nat \ {0} /\ Lacks \in Nat

VARIABLES
  mem,            \* the arrays, in the order of their allocation
  freed,
  cbs,            \* callbacks and callbacks_lp: the array and the length
  progress_lock,
  num_calls,
  needed,         \* mca_pml_ob1_progress_needed
  send_pending,   \* how many requests are on mca_pml_ob1.send_pending
  lacks,
  prog,
  walk,           \* per thread: where it is in opal_progress
  op              \* per thread: where it is in another function

vars == <<mem, freed, cbs, progress_lock, num_calls, needed, send_pending, lacks, prog, walk, op>>

arrayVars == <<mem, freed, cbs>>
ob1Vars == <<needed, send_pending, lacks>>

NoWalk == [pc |-> "out", prio |-> "hp", i |-> 0, array |-> 0, cb |-> Fake, calls |-> 0]
NoOp == [pc |-> "none", fun |-> "none", cb |-> Fake, prio |-> "hp", k |-> 0, old |-> 0,
         left |-> 0, done |-> 0, next |-> "none"]

Init ==
  /\ mem = [a \in 1 .. 2 |-> [i \in 1 .. InitialSize |-> Fake]]
  /\ freed = {}
  /\ cbs = [hp |-> [array |-> 1, len |-> 0], lp |-> [array |-> 2, len |-> 0]]
  /\ progress_lock = NoThread /\ num_calls = 0
  /\ needed = 0 /\ send_pending = 0 /\ lacks = Lacks
  /\ prog = Programs
  /\ walk = [t \in Threads |-> NoWalk]
  /\ op = [t \in Threads |-> NoOp]

At(t, l) == op[t].pc = l
Goto(t, l) == op' = [op EXCEPT ![t].pc = l]

-----------------------------------------------------------------------------
(* opal_progress *)

Walk(t) ==
  /\ t \in Walkers /\ walk[t].pc = "out" /\ op[t] = NoOp
  /\ walk' = [walk EXCEPT ![t] = [NoWalk EXCEPT !.pc = "test"]]
  /\ UNCHANGED <<arrayVars, progress_lock, num_calls, ob1Vars, prog, op>>

\* The length, and when there is another entry the address of the array.
Test(t) ==
  /\ walk[t].pc = "test"
  /\ LET w == walk[t] IN
     walk' = [walk EXCEPT ![t] =
       IF w.i < cbs[w.prio].len THEN [w EXCEPT !.pc = "read", !.array = cbs[w.prio].array]
       ELSE IF w.prio = "hp" THEN [w EXCEPT !.pc = "count"]
       ELSE NoWalk]
  /\ UNCHANGED <<arrayVars, progress_lock, num_calls, ob1Vars, prog, op>>

\* The entry is read and called; mca_pml_ob1_progress begins with the length
\* of its queue.
CallBack(t) ==
  /\ walk[t].pc = "read"
  /\ LET cb == mem[walk[t].array][walk[t].i + 1] IN
     /\ walk' = [walk EXCEPT ![t].pc = "in", ![t].cb = cb]
     /\ op' = IF cb = Ob1 THEN [op EXCEPT ![t] = [NoOp EXCEPT !.pc = "take", !.left = send_pending]]
              ELSE op
  /\ UNCHANGED <<arrayVars, progress_lock, num_calls, ob1Vars, prog>>

Return(t) ==
  /\ walk[t].pc = "in" /\ op[t] = NoOp
  /\ walk' = [walk EXCEPT ![t].pc = "test", ![t].i = @ + 1, ![t].cb = Fake]
  /\ UNCHANGED <<arrayVars, progress_lock, num_calls, ob1Vars, prog, op>>

\* num_calls++ is not atomic; only its value modulo the period matters.
ReadCalls(t) ==
  /\ walk[t].pc = "count"
  /\ walk' = [walk EXCEPT ![t].pc = "counted", ![t].calls = num_calls]
  /\ UNCHANGED <<arrayVars, progress_lock, num_calls, ob1Vars, prog, op>>

WriteCalls(t) ==
  /\ walk[t].pc = "counted"
  /\ num_calls' = (walk[t].calls + 1) % Period
  /\ walk' = [walk EXCEPT ![t] = IF walk[t].calls = 0
                                 THEN [NoWalk EXCEPT !.pc = "test", !.prio = "lp"]
                                 ELSE NoWalk]
  /\ UNCHANGED <<arrayVars, progress_lock, ob1Vars, prog, op>>

-----------------------------------------------------------------------------
(* opal_progress_register, opal_progress_register_lp, opal_progress_unregister *)

Other(prio) == IF prio = "hp" THEN "lp" ELSE "hp"
Entries(prio) == SubSeq(mem[cbs[prio].array], 1, cbs[prio].len)

\* opal_progress_find_cb
Found(cb, prio) == \E i \in 1 .. cbs[prio].len : Entries(prio)[i] = cb
Position(cb, prio) ==
  CHOOSE i \in 1 .. cbs[prio].len :
    Entries(prio)[i] = cb /\ \A j \in 1 .. i - 1 : Entries(prio)[j] # cb

\* A thread makes the next of its calls.
Call(t) ==
  /\ walk[t].pc = "out" /\ op[t] = NoOp /\ prog[t] # << >>
  /\ Head(prog[t]).call # "send"
  /\ op' = [op EXCEPT ![t] = [NoOp EXCEPT !.pc = "lock", !.fun = Head(prog[t]).call,
                                          !.cb = Head(prog[t]).cb]]
  /\ prog' = [prog EXCEPT ![t] = Tail(@)]
  /\ UNCHANGED <<arrayVars, progress_lock, num_calls, ob1Vars, walk>>

\* A registration first takes the callback out of the other array.
Lock(t) ==
  /\ At(t, "lock") /\ progress_lock = NoThread
  /\ progress_lock' = t
  /\ op' = [op EXCEPT ![t].pc = "find",
                      ![t].prio = IF op[t].fun = "register" THEN "lp" ELSE "hp"]
  /\ UNCHANGED <<arrayVars, num_calls, ob1Vars, prog, walk>>

\* _opal_progress_unregister is over for one array.
AfterDrop(t, found) ==
  op' = [op EXCEPT
    ![t].pc = IF op[t].fun # "unregister" THEN "add"
              ELSE IF found \/ op[t].prio = "lp" THEN "unlock" ELSE "find",
    ![t].prio = Other(@), ![t].k = 0]

Find(t) ==
  /\ At(t, "find")
  /\ IF Found(op[t].cb, op[t].prio)
     THEN op' = [op EXCEPT ![t].pc = "shift", ![t].k = Position(op[t].cb, op[t].prio)]
     ELSE AfterDrop(t, FALSE)
  /\ UNCHANGED <<arrayVars, progress_lock, num_calls, ob1Vars, prog, walk>>

Shift(t) ==
  /\ At(t, "shift") /\ op[t].k < cbs[op[t].prio].len
  /\ LET a == cbs[op[t].prio].array IN
     mem' = [mem EXCEPT ![a][op[t].k] = mem[a][op[t].k + 1]]
  /\ op' = [op EXCEPT ![t].k = @ + 1]
  /\ UNCHANGED <<freed, cbs, progress_lock, num_calls, ob1Vars, prog, walk>>

\* fake_cb is written behind the last entry, outside of an array that is full.
Shrink(t) ==
  /\ At(t, "shift") /\ op[t].k = cbs[op[t].prio].len
  /\ LET c == cbs[op[t].prio] IN
     mem' = IF c.len < Len(mem[c.array]) THEN [mem EXCEPT ![c.array][c.len + 1] = Fake] ELSE mem
  /\ cbs' = [cbs EXCEPT ![op[t].prio].len = @ - 1]
  /\ AfterDrop(t, TRUE)
  /\ UNCHANGED <<freed, progress_lock, num_calls, ob1Vars, prog, walk>>

Present(t) == Found(op[t].cb, op[t].prio)
Full(t) == cbs[op[t].prio].len + 1 > Len(mem[cbs[op[t].prio].array])

AlreadyThere(t) ==
  /\ At(t, "add") /\ Present(t)
  /\ Goto(t, "unlock")
  /\ UNCHANGED <<arrayVars, progress_lock, num_calls, ob1Vars, prog, walk>>

\* A copy of twice the size takes the place of the array.
Grow(t) ==
  /\ At(t, "add") /\ ~Present(t) /\ Full(t)
  /\ LET c == cbs[op[t].prio]
         n == Len(mem[c.array])
     IN  /\ mem' = Append(mem, [i \in 1 .. 2 * n |-> IF i <= c.len THEN mem[c.array][i] ELSE Fake])
         /\ cbs' = [cbs EXCEPT ![op[t].prio].array = Len(mem) + 1]
         /\ op' = [op EXCEPT ![t].pc = "free", ![t].old = c.array]
  /\ UNCHANGED <<freed, progress_lock, num_calls, ob1Vars, prog, walk>>

FreeOld(t) ==
  /\ At(t, "free")
  /\ freed' = freed \cup {op[t].old}
  /\ Goto(t, "add")
  /\ UNCHANGED <<mem, cbs, progress_lock, num_calls, ob1Vars, prog, walk>>

Add(t) ==
  /\ At(t, "add") /\ ~Present(t) /\ ~Full(t)
  /\ LET c == cbs[op[t].prio] IN
     /\ mem' = [mem EXCEPT ![c.array][c.len + 1] = op[t].cb]
     /\ cbs' = [cbs EXCEPT ![op[t].prio].len = @ + 1]
  /\ Goto(t, "unlock")
  /\ UNCHANGED <<freed, progress_lock, num_calls, ob1Vars, prog, walk>>

\* The caller goes on where next tells.
Resumed(o) == IF o.next = "none" THEN NoOp ELSE [o EXCEPT !.pc = o.next, !.next = "none"]

Unlock(t) ==
  /\ At(t, "unlock")
  /\ progress_lock' = NoThread
  /\ op' = [op EXCEPT ![t] = Resumed(@)]
  /\ UNCHANGED <<arrayVars, num_calls, ob1Vars, prog, walk>>

-----------------------------------------------------------------------------
(* The pending sends of ob1 *)

\* A send finds no resource: add_request_to_send_pending.
Send(t) ==
  /\ walk[t].pc = "out" /\ op[t] = NoOp /\ prog[t] # << >>
  /\ Head(prog[t]).call = "send"
  /\ send_pending' = send_pending + 1
  /\ op' = [op EXCEPT ![t].pc = "enable"]
  /\ prog' = [prog EXCEPT ![t] = Tail(@)]
  /\ UNCHANGED <<arrayVars, progress_lock, num_calls, needed, lacks, walk>>

\* Mutation: the comparison is off by one.
AlreadyOn_mut(count) == 1 <= count

AlreadyOn(count) == 1 < count

\* mca_pml_ob1_enable_progress
Enable(t) ==
  /\ At(t, "enable")
  /\ needed' = needed + 1
  /\ op' = [op EXCEPT ![t] = IF AlreadyOn(needed') THEN Resumed(@)
                             ELSE [@ EXCEPT !.pc = "lock", !.fun = "register", !.cb = Ob1]]
  /\ UNCHANGED <<arrayVars, progress_lock, num_calls, send_pending, lacks, prog, walk>>

\* get_request_from_send_pending, as often as the queue was long at first.
Take(t) ==
  /\ At(t, "take") /\ op[t].left > 0 /\ send_pending > 0
  /\ send_pending' = send_pending - 1
  /\ op' = [op EXCEPT ![t].pc = "serve", ![t].left = @ - 1]
  /\ UNCHANGED <<arrayVars, progress_lock, num_calls, needed, lacks, prog, walk>>

Served(t) ==
  /\ At(t, "serve")
  /\ op' = [op EXCEPT ![t].pc = "take", ![t].done = @ + 1]
  /\ UNCHANGED <<arrayVars, progress_lock, num_calls, ob1Vars, prog, walk>>

\* No resource again: the request goes back to the queue.  One that is to
\* start lets the loop go on; one that is to be scheduled ends the callback,
\* and what it had completed is not subtracted.
ServedLater(t) ==
  /\ At(t, "serve") /\ lacks > 0
  /\ lacks' = lacks - 1
  /\ send_pending' = send_pending + 1
  /\ \E next \in {"take", "none"} : op' = [op EXCEPT ![t].pc = "enable", ![t].next = next]
  /\ UNCHANGED <<arrayVars, progress_lock, num_calls, needed, prog, walk>>

Completed(o) == o.done

Finish(t) ==
  /\ At(t, "take") /\ (op[t].left = 0 \/ send_pending = 0)
  /\ needed' = needed - Completed(op[t])
  /\ op' = [op EXCEPT ![t] = IF Completed(@) > 0 /\ needed' = 0
                             THEN [NoOp EXCEPT !.pc = "lock", !.fun = "unregister", !.cb = Ob1]
                             ELSE NoOp]
  /\ UNCHANGED <<arrayVars, progress_lock, num_calls, send_pending, lacks, prog, walk>>

-----------------------------------------------------------------------------
Step(t) ==
  \/ Walk(t) \/ Test(t) \/ CallBack(t) \/ Return(t) \/ ReadCalls(t) \/ WriteCalls(t)
  \/ Call(t) \/ Lock(t) \/ Find(t) \/ Shift(t) \/ Shrink(t) \/ AlreadyThere(t) \/ Grow(t)
  \/ FreeOld(t) \/ Add(t) \/ Unlock(t)
  \/ Send(t) \/ Enable(t) \/ Take(t) \/ Served(t) \/ ServedLater(t) \/ Finish(t)

Next == \E t \in Threads : Step(t)

Spec == Init /\ [][Next]_vars

-----------------------------------------------------------------------------
(* Properties *)

TypeOK ==
  /\ \A a \in DOMAIN mem : \A i \in DOMAIN mem[a] : mem[a][i] \in Callbacks \cup {Fake}
  /\ freed \subseteq DOMAIN mem
  /\ \A p \in {"hp", "lp"} : cbs[p].array \in DOMAIN mem \ freed
                             /\ cbs[p].len \in 0 .. Len(mem[cbs[p].array])
  /\ progress_lock \in Threads \cup {NoThread}
  /\ num_calls \in 0 .. Period - 1
  /\ needed \in Int /\ send_pending \in Nat /\ lacks \in 0 .. Lacks

\* "A callback will never be in both" arrays (opal_progress.c:493), nor twice
\* in one, nor is fake_cb among the entries that count, whenever nobody holds
\* progress_lock.
CallbacksOnce ==
  progress_lock = NoThread =>
    LET all == Entries("hp") \o Entries("lp") IN
    \A i, j \in DOMAIN all : all[i] # Fake /\ (all[i] = all[j] => i = j)

\* mca_pml_ob1_progress_needed and the calls that are about to raise it cover
\* every request that is pending or served and not yet subtracted
\* (pml_ob1_progress.c:57-129): the count cannot reach zero before the queue
\* is empty.
NeededCoversPending ==
  LET Enabling(t) == IF At(t, "enable") THEN 1 ELSE 0
      Taken(t) == op[t].done + (IF At(t, "serve") THEN 1 ELSE 0)
  IN  needed + MapThenSumSet(Enabling, Threads) >= send_pending + MapThenSumSet(Taken, Threads)

AtRest == \A t \in Threads : op[t] = NoOp

\* Whenever no thread is in the middle of a call, mca_pml_ob1_progress is
\* registered if its count tells that "progress was already on"
\* (pml_ob1_progress.c:61).
ProgressIsOn == AtRest /\ needed > 0 => Found(Ob1, "hp")

\* A callback that stays registered is called again and again by the threads
\* that wait in opal_progress, although the entries move under them and the
\* array of low priority is walked only now and then (opal_progress.c:222-262):
\* there are always times when it is called, or not registered.
CalledOrGone(cb) ==
  ~(Found(cb, "hp") \/ Found(cb, "lp")) \/ \E t \in Threads : walk[t].cb = cb

\* Every send that lacks a resource is served in the end
\* (pml_ob1_progress.c:67-129): there are always times when none is pending.
NonePending == send_pending = 0
=============================================================================
