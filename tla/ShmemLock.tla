------------------------------ MODULE ShmemLock ------------------------------
(***************************************************************************)
(* oshmem/shmem/c/shmem_lock.c: the distributed lock of OpenSHMEM.  Every  *)
(* PE has a copy of the lock word.  The copy of the server holds the last  *)
(* PE of the queue and the successor of the server; any other copy holds   *)
(* the PE's own count and its successor.  Who comes to the lock takes its  *)
(* place at the server, subscribes at its predecessor and waits until that *)
(* one informs it.                                                         *)
(*                                                                         *)
(* Each step is one access to one copy.  A loop that repeats a             *)
(* compare-and-swap with the value it finds, until it succeeds, is the     *)
(* update of its last round.  A clear by a PE that does not hold the lock  *)
(* changes nothing and is left out.                                        *)
(***************************************************************************)
EXTENDS Integers, Sequences, FiniteSets

CONSTANTS
  N,           \* shmem_n_pes()
  Server,      \* shmem_lock_get_server(lock)
  LockSize,    \* 8 from C, 4 from Fortran
  InformBit,   \* the highest bit of a first word; counts stay below it
  Recursive,   \* oshmem_shmem_lock_recursive
  Calls        \* how many calls of set or test a PE makes

VARIABLES
  word,                \* per PE: its copy of the lock, of two words
  counter,             \* the server's entry in its list of counters
  lock_turn,           \* the turn and the next ticket at the server
  lock_last_ticket,
  lock_inform,         \* how often the server has been informed
  pe,                  \* per PE: where it is, and its locals
  calls,
  order                \* the PEs that have a place, in the order in which they got it

vars == <<word, counter, lock_turn, lock_last_ticket, lock_inform, pe, calls, order>>

PEs == 0 .. N - 1

LockAssumption ==
  /\ N \in Nat \ {0} /\ Server \in PEs
  /\ LockSize \in {4, 8} /\ Recursive \in BOOLEAN
  /\ Calls \in [PEs -> Nat]
  /\ InformBit \in Nat /\ \A p \in PEs : Calls[p] + 1 < InformBit

\* level is how often the program still has to clear the lock.
NoLocals(l) ==
  [pc |-> l, waits |-> FALSE, ticket |-> 0, other |-> 0, seen |-> 0,
   level |-> IF l = "in" THEN 1 ELSE 0]

Init ==
  /\ word = [p \in PEs |-> [one |-> 0, two |-> 0]]
  /\ counter = 0
  /\ lock_turn = 0 /\ lock_last_ticket = 0 /\ lock_inform = 0
  /\ pe = [p \in PEs |-> NoLocals("out")]
  /\ calls = Calls
  /\ order = << >>

serverVars == <<lock_turn, lock_last_ticket, lock_inform>>
Pc(p) == pe[p].pc
Goto(p, l) == pe' = [pe EXCEPT ![p].pc = l]
Return(p, l) == pe' = [pe EXCEPT ![p] = NoLocals(l)]

\* The first word without the inform bit.  The mask is the highest bit of an
\* int, which is not the inform bit of a lock of four bytes.
extract_counter(w) == IF LockSize = 8 THEN w.one % InformBit ELSE w.one
Informed(w) == w.one >= InformBit

\* A second word, and the first word of the server, hold a PE plus one.
PeOf(n) == n - 1

lock_get_count(p) == IF p = Server THEN counter ELSE extract_counter(word[p])
SetCount(p, n) ==
  IF p = Server
  THEN counter' = n /\ UNCHANGED word
  ELSE word' = [word EXCEPT ![p].one = n] /\ UNCHANGED counter
increment_counter(p) == SetCount(p, lock_get_count(p) + 1)
Decremented(p) == IF Recursive THEN lock_get_count(p) - 1 ELSE 0
decrement_counter(p) == SetCount(p, Decremented(p))

-----------------------------------------------------------------------------
(* _shmem_test_lock and _shmem_set_lock *)

\* A PE that has the lock counts one more.
CallAgain(p) ==
  /\ Pc(p) = "in" /\ calls[p] > 0
  /\ calls' = [calls EXCEPT ![p] = @ - 1]
  /\ increment_counter(p)
  /\ pe' = [pe EXCEPT ![p].level = @ + 1]
  /\ UNCHANGED <<serverVars, order>>

\* Both calls begin as a test; waits tells a set.
Call(p, waits) ==
  /\ Pc(p) = "out" /\ calls[p] > 0
  /\ calls' = [calls EXCEPT ![p] = @ - 1]
  /\ increment_counter(p)
  /\ pe' = [pe EXCEPT ![p].pc = "cas", ![p].waits = waits]
  /\ UNCHANGED <<serverVars, order>>

TestSucceeds(p) ==
  /\ Pc(p) = "cas" /\ word[Server] = [one |-> 0, two |-> 0]
  /\ word' = [word EXCEPT ![Server].one = p + 1]
  /\ order' = Append(order, p)
  /\ Return(p, "in")
  /\ UNCHANGED <<counter, serverVars, calls>>

TestFails(p) ==
  /\ Pc(p) = "cas" /\ word[Server] # [one |-> 0, two |-> 0]
  /\ Goto(p, "uncount")
  /\ UNCHANGED <<word, counter, serverVars, calls, order>>

TestUncount(p) ==
  /\ Pc(p) = "uncount"
  /\ decrement_counter(p)
  /\ IF pe[p].waits THEN Goto(p, "ticket") ELSE Return(p, "out")
  /\ UNCHANGED <<serverVars, calls, order>>

get_ticket(p) ==
  /\ Pc(p) = "ticket"
  /\ pe' = [pe EXCEPT ![p].pc = "count", ![p].ticket = lock_last_ticket]
  /\ lock_last_ticket' = lock_last_ticket + 1
  /\ UNCHANGED <<word, counter, lock_turn, lock_inform, calls, order>>

CountTicket(p) ==
  /\ Pc(p) = "count"
  /\ increment_counter(p)
  /\ Goto(p, "turn")
  /\ UNCHANGED <<serverVars, calls, order>>

-----------------------------------------------------------------------------
(* shmem_lock_wait_for_ticket *)

AwaitTurn(p) ==
  /\ Pc(p) = "turn" /\ lock_turn = pe[p].ticket
  /\ Goto(p, "last")
  /\ UNCHANGED <<word, counter, serverVars, calls, order>>

\* The PE becomes the last one at the server.
TakePlace(p) ==
  /\ Pc(p) = "last"
  /\ pe' = [pe EXCEPT ![p].pc = "check", ![p].other = PeOf(word[Server].one)]
  /\ word' = [word EXCEPT ![Server].one = p + 1]
  /\ order' = Append(order, p)
  /\ UNCHANGED <<counter, serverVars, calls>>

PassTurn(p) ==
  /\ Pc(p) = "check" /\ PeOf(word[Server].one) = p
  /\ lock_turn' = lock_turn + 1
  /\ IF pe[p].other = -1 THEN Return(p, "in") ELSE Goto(p, "subscribe")
  /\ UNCHANGED <<word, counter, lock_last_ticket, lock_inform, calls, order>>

-----------------------------------------------------------------------------
(* shmem_lock_subscribe_for_informing and shmem_lock_wait_for_informing *)

\* Mutation: the PE itself is added, not the PE plus one.
Subscribe_mut(p) ==
  /\ Pc(p) = "subscribe"
  /\ word' = [word EXCEPT ![pe[p].other].two = @ + p]
  /\ pe' = [pe EXCEPT ![p].pc = IF p = Server THEN "look" ELSE "wait", ![p].seen = lock_inform]
  /\ UNCHANGED <<counter, serverVars, calls, order>>

\* The repair of a second word that was not zero is left out:
\* LinkedInOrder says that it is never needed.
Subscribe(p) ==
  /\ Pc(p) = "subscribe"
  /\ word' = [word EXCEPT ![pe[p].other].two = @ + p + 1]
  /\ pe' = [pe EXCEPT ![p].pc = IF p = Server THEN "look" ELSE "wait", ![p].seen = lock_inform]
  /\ UNCHANGED <<counter, serverVars, calls, order>>

\* Not the server: the count is kept from before the wait.
ReadCount(p) ==
  /\ Pc(p) = "wait"
  /\ pe' = [pe EXCEPT ![p].pc = "sleep", ![p].seen = extract_counter(word[p])]
  /\ UNCHANGED <<word, counter, serverVars, calls, order>>

\* The bit is set: the count is written back over it.
AwaitInform(p) ==
  /\ Pc(p) = "sleep" /\ p # Server /\ Informed(word[p])
  /\ word' = [word EXCEPT ![p].one = pe[p].seen]
  /\ Return(p, "in")
  /\ UNCHANGED <<counter, serverVars, calls, order>>

\* The server looks at the copy of its predecessor.
PrevHolds(p) ==
  /\ extract_counter(word[pe[p].other]) > 0
  /\ PeOf(word[pe[p].other].two) = p

LookAtPrev(p) ==
  /\ Pc(p) = "look"
  /\ IF PrevHolds(p) THEN Goto(p, "sleep") ELSE Return(p, "in")
  /\ UNCHANGED <<word, counter, serverVars, calls, order>>

ServerWakes(p) ==
  /\ Pc(p) = "sleep" /\ p = Server /\ lock_inform # pe[p].seen
  /\ pe' = [pe EXCEPT ![p].pc = "look", ![p].seen = lock_inform]
  /\ UNCHANGED <<word, counter, serverVars, calls, order>>

-----------------------------------------------------------------------------
(* _shmem_clear_lock *)

\* The last level given back ends the turn of the PE.
ClearCount(p) ==
  LET last == Decremented(p) = 0 IN
  /\ Pc(p) = "in" /\ pe[p].level > 0
  /\ decrement_counter(p)
  /\ pe' = [pe EXCEPT ![p].level = @ - 1, ![p].pc = IF last THEN "next" ELSE "in"]
  /\ order' = IF last THEN SelectSeq(order, LAMBDA q : q # p) ELSE order
  /\ UNCHANGED <<serverVars, calls>>

ReadNext(p) ==
  LET pe_next == PeOf(word[p].two) IN
  /\ Pc(p) = "next"
  /\ pe' = [pe EXCEPT ![p].pc = IF pe_next >= 0 THEN "inform" ELSE "server",
                      ![p].other = pe_next]
  /\ UNCHANGED <<word, counter, serverVars, calls, order>>

\* The queue ends with this PE, or someone has come and will subscribe.
try_inform_server(p) ==
  LET alone == word[Server] = [one |-> p + 1, two |-> 0] IN
  /\ Pc(p) = "server"
  /\ word' = IF alone THEN [word EXCEPT ![Server] = [one |-> 0, two |-> 0]] ELSE word
  /\ Goto(p, IF alone THEN "reset" ELSE "next")
  /\ UNCHANGED <<counter, serverVars, calls, order>>

inform_next(p) ==
  LET q == pe[p].other IN
  /\ Pc(p) = "inform"
  /\ IF q = Server
     THEN lock_inform' = lock_inform + 1 /\ UNCHANGED word
     ELSE /\ word' = [word EXCEPT ![q].one = IF Informed(word[q]) THEN @ ELSE @ + InformBit]
          /\ UNCHANGED lock_inform
  /\ Goto(p, "reset")
  /\ UNCHANGED <<counter, lock_turn, lock_last_ticket, calls, order>>

ResetNext(p) ==
  /\ Pc(p) = "reset"
  /\ word' = [word EXCEPT ![p].two = 0]
  /\ Return(p, "out")
  /\ UNCHANGED <<counter, serverVars, calls, order>>

-----------------------------------------------------------------------------

Step(p) ==
  \/ CallAgain(p)
  \/ \E waits \in BOOLEAN : Call(p, waits)
  \/ TestSucceeds(p) \/ TestFails(p) \/ TestUncount(p)
  \/ get_ticket(p) \/ CountTicket(p)
  \/ AwaitTurn(p) \/ TakePlace(p) \/ PassTurn(p)
  \/ Subscribe(p) \/ ReadCount(p) \/ AwaitInform(p) \/ LookAtPrev(p) \/ ServerWakes(p)
  \/ ClearCount(p) \/ ReadNext(p) \/ try_inform_server(p) \/ inform_next(p) \/ ResetNext(p)

Next == \E p \in PEs : Step(p)

\* The program clears the lock it has, and every PE goes on.
FairSpec == Init /\ [][Next]_vars /\ \A p \in PEs : WF_vars(Step(p))

-----------------------------------------------------------------------------

\* Safety: the PE that has the lock is the first of those that have a place,
\* so that one PE has it at a time and the places are served in order,
\* although a test may come in between and the server does not wait to be
\* informed once its predecessor's count is zero (shmem_lock.c:856).
HolderIsFirst ==
  \A p \in PEs : Pc(p) = "in" => order # << >> /\ order[1] = p

\* Safety: the second words link the PEs in the order of their places.  A PE
\* that subscribes finds nobody else behind its predecessor, so what the code
\* reports as a bug and tries to repair (shmem_lock.c:758) does not occur; one
\* that waits stands behind the PE before it until it is informed.
LinkedInOrder ==
  \A i \in DOMAIN order :
    LET q == order[i]
        p == pe[q].other
        waits == Pc(q) \in {"wait", "look", "sleep"}
    IN  /\ Pc(q) = "subscribe" => word[p].two = 0 /\ p # q
        /\ i > 1 /\ (waits \/ Pc(q) = "subscribe") => p = order[i - 1]
        /\ waits => \/ PeOf(word[p].two) = q
                    \/ i = 1 /\ (q = Server \/ Informed(word[q]))

\* Safety: once every PE is out of its calls the lock is as it was at the
\* start, so that the next test succeeds.
CleanAtRest ==
  (\A p \in PEs : Pc(p) = "out") =>
    /\ \A p \in PEs : word[p] = [one |-> 0, two |-> 0]
    /\ counter = 0 /\ order = << >> /\ lock_turn = lock_last_ticket

\* What liveness is about: every PE has made its calls and is out.
AllOut == \A p \in PEs : Pc(p) = "out" /\ calls[p] = 0
=============================================================================
