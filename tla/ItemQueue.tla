------------------------------ MODULE ItemQueue ------------------------------
(***************************************************************************)
(* What a FIFO of list items promises.  A push takes effect when it takes  *)
(* the tail; until it has also linked its item the thread is busy.  A pop  *)
(* takes the oldest item.  NULL means that the queue was empty or, where   *)
(* the implementation is content with the head, that it may only have      *)
(* looked so because a push was under way.                                 *)
(***************************************************************************)
EXTENDS Sequences

CONSTANTS Threads, Null, NullWhileBusy

VARIABLES queue, held, result, busy

Push(t, i) ==
  /\ i \in held[t]
  /\ queue' = Append(queue, i)
  /\ held' = [held EXCEPT ![t] = @ \ {i}]
  /\ busy' \in {busy, busy \cup {t}}
  /\ UNCHANGED result

Linked(t) ==
  /\ t \in busy
  /\ busy' = busy \ {t}
  /\ UNCHANGED <<queue, held, result>>

Pop(t) ==
  /\ queue # << >>
  /\ queue' = Tail(queue)
  /\ held' = [held EXCEPT ![t] = @ \cup {Head(queue)}]
  /\ result' = [result EXCEPT ![t] = Head(queue)]
  /\ UNCHANGED busy

PopEmpty(t) ==
  /\ queue = << >> \/ (NullWhileBusy /\ busy # {})
  /\ result' = [result EXCEPT ![t] = Null]
  /\ UNCHANGED <<queue, held, busy>>

Next ==
  \E t \in Threads :
    Pop(t) \/ PopEmpty(t) \/ Linked(t) \/ \E i \in held[t] : Push(t, i)

vars == <<queue, held, result, busy>>
Step == [Next]_vars
Spec == [][Step]_vars
=============================================================================
