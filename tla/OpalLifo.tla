------------------------------ MODULE OpalLifo ------------------------------
(***************************************************************************)
(* opal/class/opal_lifo.h: a stack of list items that threads share        *)
(* without a lock.  The head is a counted pointer; the last item points to *)
(* a ghost, whose next pointer is itself.                                  *)
(*                                                                         *)
(* The build chooses one of three ways to survive the reuse of an item     *)
(* between the read of the head and the compare-and-swap (Variant):        *)
(*   "cas128"     the pop compares and increments a counter as well;       *)
(*   "llsc"       load-linked and store-conditional;                       *)
(*   "item_free"  a flag in the item is a small lock.                      *)
(*                                                                         *)
(* One step is one access to memory that other threads may access.  Until  *)
(* opal_using_threads is set, the main thread runs the _st functions.      *)
(***************************************************************************)
EXTENDS Integers, Sequences, FiniteSets, TLC

CONSTANTS
  Threads, MainThread, Items, Ghost, Null, Variant,
  Ops    \* bound: operations of each thread

LifoAssumption ==
  /\ MainThread \in Threads
  /\ Ghost # Null /\ {Ghost, Null} \cap Items = {}
  /\ Variant \in {"cas128", "llsc", "item_free"}
  /\ Ops \in [Threads -> Nat]

VARIABLES
  head,       \* opal_lifo_head: [counter, item]
  next,       \* opal_list_next of every item
  item_free,
  linked,     \* threads whose load-linked is still valid
  using_threads,
  held,       \* per thread: the items it owns
  result,     \* per thread: what its last pop returned
  pc,
  loc,        \* per thread: item, next and counter of the function it is in
  ops

memVars == <<head, next, item_free, linked>>
vars == <<memVars, using_threads, held, result, pc, loc, ops>>

NoLocals == [item |-> Null, next |-> Null, counter |-> 0]

\* opal_lifo_construct; the main thread has allocated the items.
Init ==
  /\ head = [counter |-> 0, item |-> Ghost]
  /\ next = [i \in Items |-> Null] @@ (Ghost :> Ghost)
  /\ item_free = [i \in Items |-> 0]
  /\ linked = {}
  /\ using_threads = FALSE
  /\ held = [t \in Threads |-> IF t = MainThread THEN Items ELSE {}]
  /\ result = [t \in Threads |-> Null]
  /\ pc = [t \in Threads |-> "idle"]
  /\ loc = [t \in Threads |-> NoLocals]
  /\ ops = Ops

Goto(t, l) == pc' = [pc EXCEPT ![t] = l]
Return(t) == Goto(t, "idle") /\ loc' = [loc EXCEPT ![t] = NoLocals]
SetHead(h) == head' = h /\ linked' = {}

-----------------------------------------------------------------------------
(* push *)

PushStart(t) ==
  /\ pc[t] = "idle" /\ using_threads /\ ops[t] > 0
  /\ \E i \in held[t] :
        loc' = [loc EXCEPT ![t] = [NoLocals EXCEPT !.item = i, !.next = head.item]]
  /\ ops' = [ops EXCEPT ![t] = @ - 1]
  /\ Goto(t, IF Variant = "item_free" THEN "push_flag" ELSE "push_link")
  /\ UNCHANGED <<memVars, using_threads, held, result>>

PushFlag(t) ==
  /\ pc[t] = "push_flag"
  /\ item_free' = [item_free EXCEPT ![loc[t].item] = 1]
  /\ Goto(t, "push_link")
  /\ UNCHANGED <<head, next, linked, using_threads, held, result, loc, ops>>

PushLink(t) ==
  /\ pc[t] = "push_link"
  /\ next' = [next EXCEPT ![loc[t].item] = loc[t].next]
  /\ Goto(t, "push_cas")
  /\ UNCHANGED <<head, item_free, linked, using_threads, held, result, loc, ops>>

\* Only the item is compared; the counter is left to pop.
PushCas(t) ==
  /\ pc[t] = "push_cas"
  /\ IF head.item = loc[t].next
     THEN /\ SetHead([head EXCEPT !.item = loc[t].item])
          /\ held' = [held EXCEPT ![t] = @ \ {loc[t].item}]
          /\ IF Variant = "item_free"
             THEN Goto(t, "push_unflag") /\ UNCHANGED loc ELSE Return(t)
     ELSE /\ loc' = [loc EXCEPT ![t].next = head.item]
          /\ Goto(t, "push_link")
          /\ UNCHANGED <<head, linked, held>>
  /\ UNCHANGED <<next, item_free, using_threads, result, ops>>

PushUnflag(t) ==
  /\ pc[t] = "push_unflag"
  /\ item_free' = [item_free EXCEPT ![loc[t].item] = 0]
  /\ Return(t)
  /\ UNCHANGED <<head, next, linked, using_threads, held, result, ops>>

-----------------------------------------------------------------------------
(* pop *)

\* What pop does with the head h it has read.
GotHead(t, h) ==
  IF h.item = Ghost
  THEN result' = [result EXCEPT ![t] = Null] /\ Return(t)
  ELSE /\ loc' = [loc EXCEPT ![t].item = h.item, ![t].counter = h.counter]
       /\ Goto(t, IF Variant = "item_free" THEN "pop_flag" ELSE "pop_next")
       /\ UNCHANGED result

PopStart(t) ==
  /\ pc[t] = "idle" /\ using_threads /\ ops[t] > 0
  /\ ops' = [ops EXCEPT ![t] = @ - 1]
  /\ loc' = [loc EXCEPT ![t] = [NoLocals EXCEPT
               !.counter = IF Variant = "cas128" THEN head.counter ELSE 0]]
  /\ Goto(t, "pop_head")
  /\ UNCHANGED <<memVars, using_threads, held, result>>

\* The counter was read first: opal_read_counted_pointer.
PopHead(t) ==
  /\ pc[t] = "pop_head"
  /\ linked' = IF Variant = "llsc" THEN linked \cup {t} ELSE linked
  /\ GotHead(t, [item |-> head.item, counter |-> loc[t].counter])
  /\ UNCHANGED <<head, next, item_free, using_threads, held, ops>>

PopFlag(t) ==
  /\ pc[t] = "pop_flag"
  /\ item_free' = [item_free EXCEPT ![loc[t].item] = 1]
  /\ Goto(t, IF item_free[loc[t].item] = 1 THEN "pop_head" ELSE "pop_next")
  /\ UNCHANGED <<head, next, linked, using_threads, held, result, loc, ops>>

PopNext(t) ==
  /\ pc[t] = "pop_next"
  /\ loc' = [loc EXCEPT ![t].next = next[loc[t].item]]
  /\ Goto(t, "pop_cas")
  /\ UNCHANGED <<memVars, using_threads, held, result, ops>>

\* Whether the head is the one that was read.
Unchanged(t) ==
  CASE Variant = "cas128"    -> head.item = loc[t].item /\ head.counter = loc[t].counter
    [] Variant = "llsc"      -> t \in linked
    [] Variant = "item_free" -> head.item = loc[t].item

PopCasSucceeds(t) ==
  /\ pc[t] = "pop_cas"
  /\ Unchanged(t)
  /\ SetHead([counter |-> head.counter + (IF Variant = "cas128" THEN 1 ELSE 0),
              item |-> loc[t].next])
  /\ held' = [held EXCEPT ![t] = @ \cup {loc[t].item}]
  /\ result' = [result EXCEPT ![t] = loc[t].item]
  /\ Goto(t, "pop_clear")
  /\ UNCHANGED <<next, item_free, using_threads, loc, ops>>

\* Mutation: a head that has changed is taken for an empty list.
PopCasFails_mut(t) ==
  /\ pc[t] = "pop_cas"
  /\ Unchanged(t) => Variant = "llsc"
  /\ result' = [result EXCEPT ![t] = Null] /\ Return(t)
  /\ UNCHANGED <<memVars, using_threads, held, ops>>

\* The compare-and-swap returns the head it found; a store-conditional may
\* also fail for no reason.
PopCasFails(t) ==
  /\ pc[t] = "pop_cas"
  /\ Unchanged(t) => Variant = "llsc"
  /\ CASE Variant = "cas128" -> GotHead(t, head)
       [] Variant = "llsc" -> Goto(t, "pop_head") /\ UNCHANGED <<loc, result>>
       [] OTHER -> Goto(t, "pop_unflag") /\ UNCHANGED <<loc, result>>
  /\ UNCHANGED <<memVars, using_threads, held, ops>>

PopUnflag(t) ==
  /\ pc[t] = "pop_unflag"
  /\ item_free' = [item_free EXCEPT ![loc[t].item] = 0]
  /\ Goto(t, "pop_head")
  /\ UNCHANGED <<head, next, linked, using_threads, held, result, loc, ops>>

PopClear(t) ==
  /\ pc[t] = "pop_clear"
  /\ next' = [next EXCEPT ![loc[t].item] = Null]
  /\ Return(t)
  /\ UNCHANGED <<head, item_free, linked, using_threads, held, result, ops>>

-----------------------------------------------------------------------------
(* The functions for one thread, and the switch to many. *)

PushSt(t, i) ==
  /\ next' = [next EXCEPT ![i] = head.item]
  /\ item_free' = [item_free EXCEPT ![i] = 0]
  /\ SetHead([head EXCEPT !.item = i])
  /\ held' = [held EXCEPT ![t] = @ \ {i}]
  /\ UNCHANGED result

PopSt(t) ==
  LET i == head.item IN
  /\ SetHead([head EXCEPT !.item = next[i]])
  /\ IF i = Ghost
     THEN /\ result' = [result EXCEPT ![t] = Null]
          /\ UNCHANGED <<next, item_free, held>>
     ELSE /\ next' = [next EXCEPT ![i] = Null]
          /\ item_free' = [item_free EXCEPT ![i] = 1]
          /\ held' = [held EXCEPT ![t] = @ \cup {i}]
          /\ result' = [result EXCEPT ![t] = i]

SingleThreaded(t) ==
  /\ ~using_threads /\ t = MainThread /\ ops[t] > 0
  /\ ops' = [ops EXCEPT ![t] = @ - 1]
  /\ PopSt(t) \/ \E i \in held[t] : PushSt(t, i)
  /\ UNCHANGED <<using_threads, pc, loc>>

\* MPI_Init_thread sets opal_using_threads.
StartThreads ==
  /\ ~using_threads
  /\ using_threads' = TRUE
  /\ UNCHANGED <<memVars, held, result, pc, loc, ops>>

Next ==
  \/ StartThreads
  \/ \E t \in Threads :
       \/ SingleThreaded(t)
       \/ PushStart(t) \/ PushFlag(t) \/ PushLink(t) \/ PushCas(t) \/ PushUnflag(t)
       \/ PopStart(t) \/ PopHead(t) \/ PopFlag(t) \/ PopNext(t)
       \/ PopCasSucceeds(t) \/ PopCasFails(t) \/ PopUnflag(t) \/ PopClear(t)

Spec == Init /\ [][Next]_vars

-----------------------------------------------------------------------------
(* Properties *)

\* Where n steps along the list lead.
Walk ==
  LET w[n \in 0 .. Cardinality(Items)] ==
        IF n = 0 THEN head.item
        ELSE IF w[n - 1] \in Items THEN next[w[n - 1]] ELSE w[n - 1]
  IN  w

Chain == [ k \in 1 .. Cardinality({ n \in DOMAIN Walk : Walk[n] \in Items }) |-> Walk[k - 1] ]

\* Safety: the list ends at the ghost after at most all the items, so that no
\* thread meets a NULL or runs in a circle (opal_lifo.h:108).
ListEndsAtGhost == Walk[Cardinality(Items)] = Ghost

Stack == INSTANCE ItemStack WITH stack <- Chain

\* Refinement: whatever the interleaving, and across the switch from one
\* thread to many, the list behaves as a stack whose operations are atomic.
ImplementsStack == Stack!Spec
=============================================================================
