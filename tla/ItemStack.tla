------------------------------ MODULE ItemStack ------------------------------
(***************************************************************************)
(* What a LIFO of list items promises to the threads that share it: a      *)
(* push and a pop each happen at one instant, an item is on the stack or   *)
(* with one thread, and NULL is returned only when the stack is empty.     *)
(***************************************************************************)
EXTENDS Sequences

CONSTANTS Threads, Null

VARIABLES
  stack,    \* items, the top first
  held,     \* per thread: the items it owns
  result    \* per thread: what its last pop returned

Push(t, i) ==
  /\ i \in held[t]
  /\ stack' = <<i>> \o stack
  /\ held' = [held EXCEPT ![t] = @ \ {i}]
  /\ UNCHANGED result

Pop(t) ==
  /\ stack # << >>
  /\ stack' = Tail(stack)
  /\ held' = [held EXCEPT ![t] = @ \cup {Head(stack)}]
  /\ result' = [result EXCEPT ![t] = Head(stack)]

PopEmpty(t) ==
  /\ stack = << >>
  /\ result' = [result EXCEPT ![t] = Null]
  /\ UNCHANGED <<stack, held>>

Next == \E t \in Threads : Pop(t) \/ PopEmpty(t) \/ \E i \in held[t] : Push(t, i)

vars == <<stack, held, result>>
Step == [Next]_vars
Spec == [][Step]_vars
=============================================================================
