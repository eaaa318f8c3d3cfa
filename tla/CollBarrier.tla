----------------------------- MODULE CollBarrier -----------------------------
(***************************************************************************)
(* MPI_Barrier by the algorithms of coll_base_barrier.c.  What an          *)
(* algorithm has a rank do depends on its rank and on the size of the      *)
(* communicator alone, so it is computed once: the sequence of the         *)
(* operations of the PML that it calls.                                    *)
(*                                                                         *)
(* The messages have no data and all have the same tag, in every barrier,  *)
(* so that only the order of the operations tells them apart.  The PML     *)
(* (external here; Ob1Match models it) matches the messages from one rank  *)
(* in the order they were sent.  A standard send may return before it is   *)
(* matched, and need not; a synchronous one does not.                      *)
(***************************************************************************)
EXTENDS Integers, Sequences, FiniteSets, Bitwise

LOCAL INSTANCE SequencesExt

CONSTANTS
  Sizes,       \* the sizes of the communicator
  Rounds       \* how many barriers follow one another

BarrierAssumption == Sizes \subseteq Nat \ {0, 1} /\ Rounds \in Nat

VARIABLES
  ops,         \* the operations of each rank in a barrier
  pos,         \* the next of them
  round,       \* the barriers each rank has entered
  sending,     \* the rank is in the call that sends
  posted,      \* the receives of each rank that are not matched, by their source
  unexpected   \* the messages to each rank that are not matched, by their source

vars == <<ops, pos, round, sending, posted, unexpected>>

-----------------------------------------------------------------------------
(* The algorithms *)

MPI_ANY_SOURCE == -1

Op(op, peer) == [op |-> op, peer |-> peer]
Wait == Op("wait", MPI_ANY_SOURCE)
Irecv(source) == Op("irecv", source)
Send(dest) == Op("standard", dest)
Ssend(dest) == Op("synchronous", dest)
Recv(source) == <<Irecv(source), Wait>>
sendrecv_zero(dest, source) == <<Irecv(source), Send(dest), Wait>>

When(c, s) == IF c THEN s ELSE <<>>

\* The operators of bit_ops.h.
next_poweroftwo(v) == 2 ^ Cardinality({i \in 0..v : 2^i <= v})
next_poweroftwo_inclusive(v) == 2 ^ Cardinality({i \in 0..v : 2^i < v})
\* 1, 2, 4, ... below n.
PowersBelow(n) == [i \in 1..Cardinality({k \in 0..n : 2^k < n}) |-> 2^(i - 1)]

\* Once round the ring to enter, once to leave.  In C (0 - 1) % size is -1,
\* so that rank 0 receives from any source.
doublering(r, size) ==
  LET left == IF r = 0 THEN MPI_ANY_SOURCE ELSE r - 1
      right == (r + 1) % size
  IN  When(r > 0, Recv(left)) \o <<Send(right)>> \o When(r = 0, Recv(left))
      \o When(r > 0, Recv(left)) \o <<Ssend(right)>> \o When(r = 0, Recv(left))

\* The ranks above the largest power of two have a lower one enter for them.
\* Mutation: the lower rank does not wait for the one it stands for.
recursivedoubling_mut(r, size) ==
  LET adjsize == next_poweroftwo(size) \div 2
      Exchange(mask) ==
        When(r ^^ mask < adjsize, sendrecv_zero(r ^^ mask, r ^^ mask))
      masks == PowersBelow(adjsize)
  IN  IF r >= adjsize THEN sendrecv_zero(r - adjsize, r - adjsize)
      ELSE FlattenSeq([i \in DOMAIN masks |-> Exchange(masks[i])])
           \o When(r < size - adjsize, Recv(r + adjsize) \o <<Ssend(r + adjsize)>>)
recursivedoubling(r, size) ==
  LET adjsize == next_poweroftwo(size) \div 2
      Exchange(mask) ==
        When(r ^^ mask < adjsize, sendrecv_zero(r ^^ mask, r ^^ mask))
      masks == PowersBelow(adjsize)
  IN  IF r >= adjsize THEN sendrecv_zero(r - adjsize, r - adjsize)
      ELSE When(r < size - adjsize, Recv(r + adjsize))
           \o FlattenSeq([i \in DOMAIN masks |-> Exchange(masks[i])])
           \o When(r < size - adjsize, <<Ssend(r + adjsize)>>)

\* In each round the distance doubles.
bruck(r, size) ==
  LET distances == PowersBelow(size)
  IN  FlattenSeq([i \in DOMAIN distances |->
        sendrecv_zero((r + distances[i]) % size, (r + size - distances[i]) % size)])

two_procs(r, size) == sendrecv_zero((r + 1) % 2, (r + 1) % 2)

\* The root collects a message of each, and answers each.
basic_linear(r, size) ==
  IF r > 0 THEN <<Send(0)>> \o Recv(0)
  ELSE [i \in 1..size - 1 |-> Irecv(MPI_ANY_SOURCE)] \o <<Wait>>
       \o [i \in 1..size - 1 |-> Send(i)]

\* Up a binomial tree and down again.
tree(r, size) ==
  LET jumps == PowersBelow(next_poweroftwo_inclusive(size))
      Partner(jump) == (r ^^ jump) % jump = 0 /\ (r ^^ jump) < size
      Up(jump) ==
        When(Partner(jump), IF r ^^ jump > r THEN Recv(r ^^ jump) ELSE <<Send(r ^^ jump)>>)
      Down(jump) ==
        When(Partner(jump), IF r ^^ jump > r THEN <<Send(r ^^ jump)>> ELSE Recv(r ^^ jump))
  IN  FlattenSeq([i \in DOMAIN jumps |-> Up(jumps[i])])
      \o FlattenSeq([i \in DOMAIN jumps |-> Down(jumps[Len(jumps) + 1 - i])])

\* Any of them may be asked for; the one for two processes needs two.
Algorithms(size) ==
  { [r \in 0..size - 1 |-> doublering(r, size)],
    [r \in 0..size - 1 |-> recursivedoubling(r, size)],
    [r \in 0..size - 1 |-> bruck(r, size)],
    [r \in 0..size - 1 |-> basic_linear(r, size)],
    [r \in 0..size - 1 |-> tree(r, size)] }
  \cup IF size = 2 THEN {[r \in 0..size - 1 |-> two_procs(r, size)]} ELSE {}

-----------------------------------------------------------------------------

Ranks == DOMAIN ops
Returned(r) == pos[r] > Len(ops[r])
Calls(r, op) == ~Returned(r) /\ ops[r][pos[r]].op = op
PeerOf(r) == ops[r][pos[r]].peer

\* What the variables may hold.
TypeOK ==
  /\ \E n \in Sizes : Ranks = 0..n - 1
  /\ \A r \in Ranks : pos[r] \in 1..Len(ops[r]) + 1
  /\ round \in [Ranks -> 0..Rounds] /\ sending \in [Ranks -> BOOLEAN]
  /\ posted \in [Ranks -> Seq(Ranks \cup {MPI_ANY_SOURCE})]
  /\ unexpected \in [Ranks -> Seq(Ranks)]

Init ==
  \E n \in Sizes :
    /\ ops \in Algorithms(n)
    /\ pos = [r \in Ranks |-> Len(ops[r]) + 1]
    /\ round = [r \in Ranks |-> 0]
    /\ sending = [r \in Ranks |-> FALSE]
    /\ posted = [r \in Ranks |-> <<>>]
    /\ unexpected = [r \in Ranks |-> <<>>]

Goes(r) == pos' = [pos EXCEPT ![r] = @ + 1]

\* The program calls the next barrier.
Enter(r) ==
  /\ Returned(r) /\ round[r] < Rounds
  /\ round' = [round EXCEPT ![r] = @ + 1]
  /\ pos' = [pos EXCEPT ![r] = 1]
  /\ UNCHANGED <<ops, sending, posted, unexpected>>

\* The first message that fits, if there is one, is taken.
PostRecv(r) ==
  LET Fits(source) == PeerOf(r) \in {source, MPI_ANY_SOURCE}
      i == SelectInSeq(unexpected[r], Fits)
  IN
  /\ Calls(r, "irecv")
  /\ IF i = 0
     THEN posted' = [posted EXCEPT ![r] = Append(@, PeerOf(r))] /\ UNCHANGED unexpected
     ELSE unexpected' = [unexpected EXCEPT ![r] = RemoveAt(@, i)] /\ UNCHANGED posted
  /\ Goes(r)
  /\ UNCHANGED <<ops, round, sending>>

\* The first receive that fits, if there is one, is matched.
StartSend(r) ==
  LET d == PeerOf(r)
      Fits(source) == source \in {r, MPI_ANY_SOURCE}
      i == SelectInSeq(posted[d], Fits)
  IN
  /\ Calls(r, "standard") \/ Calls(r, "synchronous")
  /\ ~sending[r]
  /\ sending' = [sending EXCEPT ![r] = TRUE]
  /\ IF i = 0
     THEN unexpected' = [unexpected EXCEPT ![d] = Append(@, r)] /\ UNCHANGED posted
     ELSE posted' = [posted EXCEPT ![d] = RemoveAt(@, i)] /\ UNCHANGED unexpected
  /\ UNCHANGED <<ops, pos, round>>

\* Messages of one rank are matched in order, so the last one is matched when
\* none is left.
Matched(r) == \A i \in DOMAIN unexpected[PeerOf(r)] : unexpected[PeerOf(r)][i] # r

SendReturns(r) == Goes(r) /\ sending' = [sending EXCEPT ![r] = FALSE]

\* The call that sends returns, for its message was received.
SendMatched(r) ==
  /\ sending[r] /\ Matched(r)
  /\ SendReturns(r)
  /\ UNCHANGED <<ops, round, posted, unexpected>>

\* A standard send returns before that.
SendBuffered(r) ==
  /\ sending[r] /\ Calls(r, "standard") /\ ~Matched(r)
  /\ SendReturns(r)
  /\ UNCHANGED <<ops, round, posted, unexpected>>

\* All the receives the rank has posted are matched.
WaitReturns(r) ==
  /\ Calls(r, "wait") /\ posted[r] = <<>>
  /\ Goes(r)
  /\ UNCHANGED <<ops, round, sending, posted, unexpected>>

-----------------------------------------------------------------------------

\* What a rank is bound to do when it can: a send need not be buffered.
Step(r) == Enter(r) \/ PostRecv(r) \/ StartSend(r) \/ SendMatched(r) \/ WaitReturns(r)

Next == \E r \in Ranks : Step(r) \/ SendBuffered(r)

FairSpec == Init /\ [][Next]_vars /\ WF_vars(\E r \in Ranks : Step(r))

-----------------------------------------------------------------------------

\* Safety: who has returned from a barrier knows that all have entered it:
\* for every algorithm, for sizes that are no power of two, and for the second
\* of two barriers, where messages of both may be under way together.
BarrierHolds == \A r, q \in Ranks : Returned(r) => round[q] >= round[r]

\* All have returned from the last barrier, and none of its messages is left
\* to be taken for one of the next.
AllOut ==
  \A r \in Ranks :
    Returned(r) /\ round[r] = Rounds /\ posted[r] = <<>> /\ unexpected[r] = <<>>
=============================================================================
