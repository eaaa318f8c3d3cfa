------------------------------ MODULE OpalFifo ------------------------------
(***************************************************************************)
(* opal/class/opal_fifo.h: a queue of list items that threads share.  A    *)
(* push takes the tail and then links its item behind the previous one, or *)
(* sets the head when the queue was empty; a pop that empties the queue    *)
(* has to give the tail back, and may meet a push half done.               *)
(*                                                                         *)
(* Variant is the choice of the build: "cas128" compares and increments    *)
(* the counters of head and tail, "llsc" pops with load-linked and         *)
(* store-conditional, "lock" uses the counter of the head as a lock.       *)
(* One step is one access to shared memory; a plain read of a counted      *)
(* pointer is two, in either order.                                        *)
(***************************************************************************)
EXTENDS Integers, Sequences, FiniteSets, TLC

CONSTANTS
  Threads, MainThread, Items, Ghost, Null, Variant,
  Ops    \* bound: operations of each thread

FifoAssumption ==
  /\ MainThread \in Threads
  /\ Ghost # Null /\ {Ghost, Null} \cap Items = {}
  /\ Variant \in {"cas128", "llsc", "lock"}
  /\ Ops \in [Threads -> Nat]

VARIABLES
  head, tail,       \* opal_fifo_head, opal_fifo_tail: [counter, item]
  next,             \* opal_list_next of every item
  linked,           \* threads whose load-linked is still valid
  using_threads,
  held, result, pc, ops,
  loc,              \* per thread: the locals of the function it is in
  queue, busy       \* the queue by the order of the tails, pushes half done

memVars == <<head, tail, next, linked>>
absVars == <<queue, held, result, busy>>
vars == <<memVars, using_threads, absVars, pc, loc, ops>>

NoPointer == [counter |-> 0, item |-> Null]
NoLocals == [item |-> Null, next |-> Null, head |-> NoPointer, tail |-> NoPointer,
             read |-> {}]

\* opal_fifo_construct; the main thread has allocated the items.
Init ==
  /\ head = [counter |-> 0, item |-> Ghost]
  /\ tail = [counter |-> 0, item |-> Ghost]
  /\ next = [i \in Items |-> Null] @@ (Ghost :> Ghost)
  /\ linked = {}
  /\ using_threads = FALSE
  /\ held = [t \in Threads |-> IF t = MainThread THEN Items ELSE {}]
  /\ result = [t \in Threads |-> Null]
  /\ pc = [t \in Threads |-> "idle"]
  /\ loc = [t \in Threads |-> NoLocals]
  /\ ops = Ops
  /\ queue = << >>
  /\ busy = {}

Goto(t, l) == pc' = [pc EXCEPT ![t] = l]
Again(t, l, locals) == Goto(t, l) /\ loc' = [loc EXCEPT ![t] = locals]
Return(t) == Again(t, "idle", NoLocals)
SetHead(h) == head' = h /\ linked' = {}
Counted == IF Variant = "cas128" THEN 1 ELSE 0

Halves == {"counter", "item"}

\* One half of a plain read of a counted pointer.
ReadHalf(t, f, name, p, then) ==
  LET read == loc[t].read \cup {f}
      done == read = Halves
  IN  /\ f \notin loc[t].read
      /\ loc' = [loc EXCEPT ![t][name][f] = p[f], ![t].read = IF done THEN {} ELSE read]
      /\ IF done THEN Goto(t, then) ELSE UNCHANGED pc

-----------------------------------------------------------------------------
(* push *)

PushStart(t) ==
  /\ pc[t] = "idle" /\ using_threads /\ ops[t] > 0
  /\ \E i \in held[t] : loc' = [loc EXCEPT ![t].item = i]
  /\ ops' = [ops EXCEPT ![t] = @ - 1]
  /\ Goto(t, "push_link")
  /\ UNCHANGED <<memVars, using_threads, absVars>>

PushLink(t) ==
  /\ pc[t] = "push_link"
  /\ next' = [next EXCEPT ![loc[t].item] = Ghost]
  /\ Goto(t, "push_take")
  /\ UNCHANGED <<head, tail, linked, using_threads, absVars, loc, ops>>

\* The compare-and-swap of the tail, or the swap of the other variants.  The
\* value first compared was read before, at any time and perhaps torn: it is
\* the tail or it is not, and then the compare has read the tail.
PushTake(t) ==
  /\ pc[t] = "push_take"
  /\ Variant = "cas128" => loc[t].tail \in {NoPointer, tail}
  /\ loc' = [loc EXCEPT ![t].tail = tail]
  /\ tail' = [counter |-> tail.counter + Counted, item |-> loc[t].item]
  /\ queue' = Append(queue, loc[t].item)
  /\ held' = [held EXCEPT ![t] = @ \ {loc[t].item}]
  /\ busy' = busy \cup {t}
  /\ Goto(t, IF tail.item # Ghost THEN "push_prev"
             ELSE IF Variant = "cas128" THEN "push_head" ELSE "push_set_head")
  /\ UNCHANGED <<head, next, linked, using_threads, result, ops>>

PushTakeFails(t) ==
  /\ pc[t] = "push_take" /\ Variant = "cas128"
  /\ loc[t].tail # tail
  /\ loc' = [loc EXCEPT ![t].tail = tail]
  /\ UNCHANGED <<memVars, using_threads, absVars, pc, ops>>

PushHead(t) ==
  /\ pc[t] = "push_head"
  /\ \E f \in Halves : ReadHalf(t, f, "head", head, "push_set_head")
  /\ UNCHANGED <<memVars, using_threads, absVars, ops>>

\* The result of the compare-and-swap is not looked at.
PushSetHead(t) ==
  /\ pc[t] = "push_set_head"
  /\ IF Variant = "cas128" => loc[t].head = head
     THEN SetHead([counter |-> head.counter + Counted, item |-> loc[t].item])
     ELSE UNCHANGED <<head, linked>>
  /\ busy' = busy \ {t}
  /\ Return(t)
  /\ UNCHANGED <<tail, next, using_threads, queue, held, result, ops>>

PushPrev(t) ==
  /\ pc[t] = "push_prev"
  /\ next' = [next EXCEPT ![loc[t].tail.item] = loc[t].item]
  /\ busy' = busy \ {t}
  /\ Return(t)
  /\ UNCHANGED <<head, tail, linked, using_threads, queue, held, result, ops>>

-----------------------------------------------------------------------------
(* pop *)

PopStart(t) ==
  /\ pc[t] = "idle" /\ using_threads /\ ops[t] > 0
  /\ ops' = [ops EXCEPT ![t] = @ - 1]
  /\ Goto(t, CASE Variant = "cas128" -> "pop_counter"
               [] Variant = "llsc"   -> "pop_head"
               [] Variant = "lock"   -> "pop_lock")
  /\ UNCHANGED <<memVars, using_threads, absVars, loc>>

PopLock(t) ==
  /\ pc[t] = "pop_lock"
  /\ head.counter = 0
  /\ SetHead([head EXCEPT !.counter = 1])
  /\ Goto(t, "pop_head")
  /\ UNCHANGED <<tail, next, using_threads, absVars, loc, ops>>

PopCounter(t) ==
  /\ pc[t] = "pop_counter"
  /\ loc' = [loc EXCEPT ![t].head.counter = head.counter]
  /\ Goto(t, "pop_head")
  /\ UNCHANGED <<memVars, using_threads, absVars, ops>>

\* With the lock, a head that is the ghost is enough to return NULL.
PopHead(t) ==
  /\ pc[t] = "pop_head"
  /\ loc' = [loc EXCEPT ![t].head.item = head.item, ![t].item = head.item]
  /\ linked' = IF Variant = "llsc" THEN linked \cup {t} ELSE linked
  /\ IF Variant = "lock" /\ head.item = Ghost
     THEN result' = [result EXCEPT ![t] = Null] /\ Goto(t, "pop_unlock")
     ELSE /\ Goto(t, IF \/ Variant = "cas128"
                        \/ Variant = "llsc" /\ head.item = Ghost
                     THEN "pop_tail" ELSE "pop_next")
          /\ UNCHANGED result
  /\ UNCHANGED <<head, tail, next, using_threads, queue, held, busy, ops>>

\* Mutation: a head that is the ghost means empty, whatever the tail.
PopTail_mut(t) ==
  /\ pc[t] = "pop_tail"
  /\ LET empty == loc[t].head.item = Ghost IN
     IF Variant = "llsc"
     THEN IF empty
          THEN result' = [result EXCEPT ![t] = Null] /\ Return(t)
          ELSE Again(t, "pop_head", NoLocals) /\ UNCHANGED result
     ELSE \E f \in Halves :
            /\ ReadHalf(t, f, "tail", tail, "pop_next")
            /\ UNCHANGED result
  /\ UNCHANGED <<memVars, using_threads, queue, held, busy, ops>>

\* NULL is decided here when both ends are the ghost.
PopTail(t) ==
  /\ pc[t] = "pop_tail"
  /\ LET empty == loc[t].head.item = Ghost /\ tail.item = Ghost IN
     IF Variant = "llsc"
     THEN IF empty
          THEN result' = [result EXCEPT ![t] = Null] /\ Return(t)
          ELSE Again(t, "pop_head", NoLocals) /\ UNCHANGED result
     ELSE \E f \in Halves :
            /\ ReadHalf(t, f, "tail", tail, "pop_next")
            /\ result' = IF empty /\ f = "item" THEN [result EXCEPT ![t] = Null] ELSE result
  /\ UNCHANGED <<memVars, using_threads, queue, held, busy, ops>>

\* The next pointer is read; "cas128" looks whether the three agree.
PopNext(t) ==
  /\ pc[t] = "pop_next"
  /\ LET l == loc[t]
         n == next[l.item]
     IN  IF Variant = "cas128" /\ l.tail.item = Ghost /\ l.item = Ghost
         THEN Return(t)
         ELSE IF Variant = "cas128" /\ l.tail.item \notin {l.item, Ghost} /\ n = Ghost
         THEN Again(t, "pop_counter", NoLocals)
         ELSE loc' = [loc EXCEPT ![t].next = n] /\ Goto(t, "pop_take")
  /\ UNCHANGED <<memVars, using_threads, absVars, ops>>

\* The item is out of the list: the lock is still to be given back and its
\* next pointer to be cleared.
Popped(t) ==
  Again(t, IF Variant = "lock" THEN "pop_unlock" ELSE "pop_clear",
        [NoLocals EXCEPT !.item = loc[t].item])

CanTake(t) ==
  CASE Variant = "cas128" -> head = loc[t].head
    [] Variant = "llsc"   -> t \in linked
    [] Variant = "lock"   -> TRUE

PopTake(t) ==
  /\ pc[t] = "pop_take"
  /\ CanTake(t)
  /\ SetHead([counter |-> head.counter + Counted, item |-> loc[t].next])
  /\ queue' = Tail(queue)
  /\ held' = [held EXCEPT ![t] = @ \cup {loc[t].item}]
  /\ result' = [result EXCEPT ![t] = loc[t].item]
  /\ IF loc[t].next = Ghost
     THEN Goto(t, "pop_give_tail") /\ loc' = [loc EXCEPT ![t].head = NoPointer]
     ELSE Popped(t)
  /\ UNCHANGED <<tail, next, using_threads, busy, ops>>

PopTakeFails(t) ==
  /\ pc[t] = "pop_take"
  /\ CanTake(t) => Variant = "llsc"
  /\ IF Variant = "llsc"
     THEN Again(t, "pop_head", NoLocals)
     ELSE Again(t, "pop_tail", [NoLocals EXCEPT !.head = head, !.item = head.item])
  /\ UNCHANGED <<memVars, using_threads, absVars, ops>>

\* Mutation: the tail is given back without a look at it.
PopGiveTail_mut(t) ==
  /\ pc[t] = "pop_give_tail"
  /\ tail' = [counter |-> tail.counter + Counted, item |-> Ghost]
  /\ Popped(t)
  /\ UNCHANGED <<head, next, linked, using_threads, absVars, ops>>

\* The queue is empty now, unless a push has taken the tail meanwhile.
PopGiveTail(t) ==
  /\ pc[t] = "pop_give_tail"
  /\ IF IF Variant = "cas128" THEN tail = loc[t].tail ELSE tail.item = loc[t].item
     THEN /\ tail' = [counter |-> tail.counter + Counted, item |-> Ghost]
          /\ Popped(t)
     ELSE Goto(t, "pop_wait") /\ UNCHANGED <<tail, loc>>
  /\ UNCHANGED <<head, next, linked, using_threads, absVars, ops>>

\* It waits for the push to link its item and moves the head there.
PopWait(t) ==
  /\ pc[t] = "pop_wait"
  /\ next[loc[t].item] # Ghost
  /\ SetHead([head EXCEPT !.item = next[loc[t].item]])
  /\ Popped(t)
  /\ UNCHANGED <<tail, next, using_threads, absVars, ops>>

PopUnlock(t) ==
  /\ pc[t] = "pop_unlock"
  /\ SetHead([head EXCEPT !.counter = 0])
  /\ IF loc[t].item = Ghost THEN Return(t) ELSE Goto(t, "pop_clear") /\ UNCHANGED loc
  /\ UNCHANGED <<tail, next, using_threads, absVars, ops>>

PopClear(t) ==
  /\ pc[t] = "pop_clear"
  /\ next' = [next EXCEPT ![loc[t].item] = Null]
  /\ Return(t)
  /\ UNCHANGED <<head, tail, linked, using_threads, absVars, ops>>

-----------------------------------------------------------------------------
(* The functions for one thread, and the switch to many. *)

PushSt(t, i) ==
  /\ tail' = [tail EXCEPT !.item = i]
  /\ IF head.item = Ghost
     THEN /\ SetHead([head EXCEPT !.item = i])
          /\ next' = [next EXCEPT ![i] = Ghost]
     ELSE /\ next' = [next EXCEPT ![i] = Ghost, ![tail.item] = i]
          /\ UNCHANGED <<head, linked>>
  /\ queue' = Append(queue, i)
  /\ held' = [held EXCEPT ![t] = @ \ {i}]
  /\ UNCHANGED <<result, busy>>

PopSt(t) ==
  LET i == head.item IN
  /\ IF i = Ghost
     THEN /\ result' = [result EXCEPT ![t] = Null]
          /\ UNCHANGED <<memVars, queue, held>>
     ELSE /\ SetHead([head EXCEPT !.item = next[i]])
          /\ tail' = IF next[i] = Ghost THEN [tail EXCEPT !.item = Ghost] ELSE tail
          /\ next' = [next EXCEPT ![i] = Null]
          /\ queue' = Tail(queue)
          /\ held' = [held EXCEPT ![t] = @ \cup {i}]
          /\ result' = [result EXCEPT ![t] = i]
  /\ UNCHANGED busy

SingleThreaded(t) ==
  /\ ~using_threads /\ t = MainThread /\ ops[t] > 0
  /\ ops' = [ops EXCEPT ![t] = @ - 1]
  /\ PopSt(t) \/ \E i \in held[t] : PushSt(t, i)
  /\ UNCHANGED <<using_threads, pc, loc>>

StartThreads ==
  /\ ~using_threads
  /\ using_threads' = TRUE
  /\ UNCHANGED <<memVars, absVars, pc, loc, ops>>

Next ==
  \/ StartThreads
  \/ \E t \in Threads :
       \/ SingleThreaded(t)
       \/ PushStart(t) \/ PushLink(t) \/ PushTake(t) \/ PushTakeFails(t) \/ PushHead(t)
       \/ PushSetHead(t) \/ PushPrev(t)
       \/ PopStart(t) \/ PopLock(t) \/ PopCounter(t) \/ PopHead(t) \/ PopTail(t)
       \/ PopNext(t) \/ PopTake(t) \/ PopTakeFails(t) \/ PopGiveTail(t) \/ PopWait(t)
       \/ PopUnlock(t) \/ PopClear(t)

Spec == Init /\ [][Next]_vars

-----------------------------------------------------------------------------
(* Properties *)

Last == IF queue = << >> THEN Ghost ELSE queue[Len(queue)]

\* Safety: once every operation has returned, the list from the head to the
\* tail is the queue: no push and no pop has lost the other's link.
QuiescentListIsQueue ==
  (\A t \in Threads : pc[t] = "idle") =>
    /\ head.item = IF queue = << >> THEN Ghost ELSE queue[1]
    /\ tail.item = Last
    /\ \A k \in 1 .. Len(queue) :
         next[queue[k]] = IF k = Len(queue) THEN Ghost ELSE queue[k + 1]

\* Safety: a pop that waits for the link of its item waits for a push that
\* is about to write it (opal_fifo.h:154).
WaitsForPush ==
  \A t \in Threads :
    pc[t] = "pop_wait" =>
      \/ next[loc[t].item] # Ghost
      \/ \E u \in busy : pc[u] = "push_prev" /\ loc[u].tail.item = loc[t].item

Queue == INSTANCE ItemQueue WITH NullWhileBusy <- Variant = "lock"

\* Refinement: the threads see a queue ordered by the instants at which the
\* pushes took the tail.  Only the variant with the lock may return NULL
\* while an item is in the queue, and only while a push is under way.
ImplementsQueue == Queue!Spec
=============================================================================
