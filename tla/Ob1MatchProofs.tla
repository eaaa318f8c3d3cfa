---------------------------- MODULE Ob1MatchProofs ---------------------------
(***************************************************************************)
(* Ob1Match for any number of peers, threads, messages and requests:       *)
(* messages are consumed in order, every message is in one place, no       *)
(* receive and message that fit wait for each other, and both of MPI's     *)
(* rules on the order of matching hold; while numbers do not wrap, no      *)
(* message that is next stays on the list of out-of-sequence fragments.    *)
(***************************************************************************)
EXTENDS Ob1MatchPlaces, FiniteSetTheorems, WellFoundedInduction

(* The inductive invariants hold always.                                   *)

\* Every set of naturals has a least element.
LEMMA LeastOK == Least
<1> SUFFICES ASSUME NEW T \in SUBSET Nat, T # {}
             PROVE  \E x \in T : \A y \in T : x <= y
  BY DEF Least
<1>1. PICK x \in T : \A y \in T : ~(<<y, x>> \in OpToRel(<, Nat))
  BY NatLessThanWellFounded, WFMin
<1>2. \A y \in T : ~(y < x)
  BY Zenon, <1>1 DEF OpToRel
<1> QED BY <1>2

(* The messages in transit.                                                *)

\* Every step preserves the inductive invariant.
LEMMA StepIInv == IInv /\ [Next]_vars => IInv'
<1> SUFFICES ASSUME IInv, [Next]_vars PROVE IInv'
  OBVIOUS
<1>1. CommTypeOK' /\ RecvTypeOK' /\ ThreadOK'
  BY LeastOK, StepType DEF IInv
<1>2. PlaceOK' /\ Effect
  BY LeastOK, StepPlace
<1>3. NumberOK' /\ SequenceOK' /\ LogBound' /\ InOrder'
  BY Zenon, <1>2, SentOK, MovedOK, ConsumedOK DEF Effect
<1>4. DOMAIN frags_cant_match' = Peers
      /\ frags_cant_match' = [p \in Peers |-> frags_cant_match'[p]]
  <2>1. frags_cant_match \in [Peers -> Lists(Frags)]
    BY TypeParts DEF IInv
  <2> QED BY <2>1, ListStep
<1>5. frags_cant_match' \in [Peers -> Lists(Frags)]
  BY <1>2, <1>4 DEF PlaceOK, WellFormed
<1>6. TypeOK'
  BY Zenon, <1>1, <1>5 DEF TypeOK, CommTypeOK, RecvTypeOK, ReqRecords, Lists
<1> QED BY <1>1, <1>2, <1>3, <1>6 DEF IInv

\* The inductive invariant always holds.
LEMMA AlwaysIInv == Spec => []IInv
BY InitIInv, StepIInv, PTL DEF Spec

------------------------------------------------------------------------------
(* The effects of the steps on the receive side.                           *)

\* Every step has one of the effects.
LEMMA StepChange ==
  ASSUME IInv, RInv, [Next]_vars
  PROVE  Change /\ RestOK'
<1>0. TypeOK /\ ThreadOK /\ PlaceOK
  BY DEF IInv
<1>1. ASSUME NEW p \in Peers, NEW e \in Envelopes, Send(p, e)
      PROVE  Change /\ RestOK'
  <2>1. Sent(p, e) /\ NewFrag(p, e) \in Frags
    BY <1>1, SendPlace
  <2>2. Quiet /\ RestOK'
    BY <1>1, OutsideStep DEF Send, countVars, commVars
  <2> QED BY <2>1, <2>2 DEF Change
<1>2. ASSUME NEW t \in Threads, NEW p \in Peers, NEW f \in net[p],
             RecvFragNoComm(t, p, f) \/ RecvFragOutOfSequence(t, p, f)
      PROVE  Change /\ RestOK'
  <2>1. Moved
    BY Zenon, <1>2, LeastOK, NoCommPlace, OutOfSequencePlace
  <2>2. Quiet /\ RestOK'
    BY <1>2, OutsideStep DEF RecvFragNoComm, RecvFragOutOfSequence, countVars, commVars
  <2> QED BY <2>1, <2>2 DEF Change
<1>3. ASSUME NEW t \in Threads, NEW p \in Peers, NEW f \in net[p],
             RecvFragInSequence(t, p, f)
      PROVE  Change /\ RestOK'
  <2>1. Consumed(f)
    BY <1>3, InSequencePlace
  <2>2. f \in Frags
    BY <1>0 DEF TypeOK
  <2>3. (Stored(f) \/ \E m \in Reqs : Gave(f, m)) /\ RestOK'
    <3>1. /\ pc[t] # "add_comm" /\ match_one(t, f)
          /\ UNCHANGED <<recv_sequence, comm_state>>
      BY Zenon, <1>3 DEF RecvFragInSequence, countVars, commVars
    <3> QED BY Zenon, <2>2, <3>1, LeastOK, MatchStep
  <2> QED BY <2>1, <2>2, <2>3 DEF Change
<1>4. ASSUME NEW t \in Threads, RelockMatch(t)
      PROVE  Change /\ RestOK'
  <2>1. PICK h \in Frags : h = frags_cant_match[cur[t].peer][1][1] /\ Consumed(h)
    BY ZenonT(60), <1>4, RelockPlace
  <2>2. /\ pc[t] # "add_comm" /\ match_one(t, h)
        /\ UNCHANGED <<recv_sequence, comm_state>>
    BY <1>4, <2>1 DEF RelockMatch, countVars, commVars
  <2>3. (Stored(h) \/ \E m \in Reqs : Gave(h, m)) /\ RestOK'
    BY Zenon, <2>2, LeastOK, MatchStep
  <2> QED BY Zenon, <2>1, <2>3 DEF Change
<1>5. ASSUME NEW t \in Threads, AddCommDrain(t)
      PROVE  Change /\ RestOK'
  <2>1. PICK h \in Frags : Consumed(h) /\ to_unexpected(h)
    BY Zenon, <1>5, DrainPlace
  <2>2. /\ pc[t] = "add_comm"
        /\ UNCHANGED <<recvVars, recv_sequence, comm_state, req, pc, cur>>
    BY Zenon, <1>5 DEF AddCommDrain, countVars, commVars
  <2>3. Stored(h) /\ RestOK'
    BY ZenonT(60), <2>1, <2>2, AddingStep
  <2> QED BY <2>1, <2>3 DEF Change
<1>6. ASSUME NEW t \in Threads, AddCommFrag(t)
      PROVE  Change /\ RestOK'
  <2>1. PICK f \in Frags :
          /\ f = Head(non_existing_communicator_pending)
          /\ InSequence(f) => Consumed(f)
          /\ ~InSequence(f) => Moved
    BY Zenon, <1>6, LeastOK, AddCommFragPlace
  <2>2. /\ pc[t] = "add_comm"
        /\ UNCHANGED <<recvVars, recv_sequence, comm_state, req, pc>>
        /\ InSequence(f) => to_unexpected(f)
        /\ ~InSequence(f) => UNCHANGED unexpected_frags
        /\ \E x : cur' = [cur EXCEPT ![t].peer = x]
    BY Zenon, <1>6, <2>1 DEF AddCommFrag, countVars
  <2>3. \A u \in Threads : cur'[u].req = cur[u].req
    BY <1>0, <2>2 DEF TypeOK
  <2>4. /\ RestOK'
        /\ unexpected_frags' = unexpected_frags => Quiet
        /\ to_unexpected(f) => Stored(f)
    BY Zenon, <2>2, <2>3, AddingStep
  <2> QED BY Zenon, <2>1, <2>2, <2>4 DEF Change
<1>7. ASSUME NEW t \in Threads,
             \/ Progress(t) \/ CheckCantMatch(t) \/ RelockNothing(t)
             \/ StartProgress(t) \/ AddCommBegin(t) \/ AddCommEnd(t)
             \/ \E r \in Reqs : Mrecv(t, r) \/ Cancel(t, r)
      PROVE  Change /\ RestOK'
  <2>1. Moved
    BY <1>7, QuietPlace DEF Post
  <2>2. Quiet /\ RestOK'
    BY Zenon, <1>7, ThreadStep, MarkStep
  <2> QED BY <2>1, <2>2 DEF Change
<1>8. ASSUME NEW t \in Threads, NEW r \in FreeReq, NEW want \in Wanted,
             StartNoMatch(t, r, want) \/ StartMatch(t, r, want)
      PROVE  Change /\ RestOK'
  <2>1. Moved
    BY Zenon, <1>8, QuietPlace DEF Post
  <2>2. r \in Reqs
    BY DEF FreeReq
  <2>3. /\ \/ Looked(r, want)
           \/ \E p \in Peers : \E i \in 1 .. Len(unexpected_frags[p]) : Took(r, want, p, i)
        /\ RestOK'
    BY Zenon, <1>8, <2>2, LeastOK, StartNoMatchStep, StartMatchStep
  <2> QED BY Zenon, <2>1, <2>2, <2>3 DEF Change
<1>9. ASSUME UNCHANGED vars PROVE Change /\ RestOK'
  <2>1. Moved
    BY <1>9, SamePlace DEF vars, commVars
  <2>2. Quiet /\ RestOK'
    BY <1>9, OutsideStep DEF vars, commVars, countVars
  <2> QED BY <2>1, <2>2 DEF Change
<1> QED BY Zenon, <1>1, <1>2, <1>3, <1>4, <1>5, <1>6, <1>7, <1>8, <1>9
        DEF Next, Arrive, Continue, AddComm, Post

------------------------------------------------------------------------------
\* Every step preserves it.
LEMMA StepRInv == IInv /\ RInv /\ [Next]_vars => RInv'
<1> SUFFICES ASSUME IInv, RInv, [Next]_vars PROVE RInv'
  OBVIOUS
<1>1. Change /\ RestOK'
  BY StepChange
<1>2. IInv' /\ InOrder'
  BY StepIInv DEF IInv
<1>3. ReqOK' /\ UnexpectedOK' /\ OwnedOK'
  BY Zenon, <1>1, <1>2, ReqStep, UnexpectedStep, OwnedStep
<1>4. NoMissedMatch' /\ PostOrder' /\ UnmatchedOK'
  BY Zenon, <1>1, <1>2, NoMissedMatchStep, PostOrderStep, UnmatchedStep
<1>5. NonOvertaking'
  BY <1>2, <1>3, <1>4, UnmatchedSuffices, PTL
<1> QED BY Zenon, <1>1, <1>3, <1>4, <1>5 DEF RInv, RestOK, MatchingOrder

\* Both inductive invariants always hold.
LEMMA AlwaysRInv == Spec => [](IInv /\ RInv)
<1>1. Init => IInv /\ RInv
  BY InitIInv, InitRInv
<1>2. IInv /\ RInv /\ [Next]_vars => (IInv /\ RInv)'
  BY StepIInv, StepRInv
<1> QED BY <1>1, <1>2, PTL DEF Spec

------------------------------------------------------------------------------
(* The fragments that are next.                                            *)

\* The lists of out-of-sequence fragments as long as numbers do not wrap: they
\* go up from the head, and are not used where overtaking is allowed.
ListOK ==
  /\ \A p \in Peers : send_sequence[p] <= MaxSend
  /\ \A p \in Peers : Sorted(frags_cant_match[p])
  /\ AllowOvertake => \A p \in Peers : frags_cant_match[p] = << >>

\* The next message of p is on the list.
NextIsHere(p) ==
  \E f \in Frags : On(frags_cant_match[p], f) /\ hdr_seq(f) = expected_sequence[p]

\* t has not looked at the list of p for the last time.
Looks(t, p) ==
  cur[t].peer = p /\ pc[t] \in {"progress", "check", "relock", "add_comm"}

\* The inductive invariant: a list that holds the next message is looked at.
LooksOK ==
  \A p \in Peers : NextIsHere(p) => \E t \in Threads : Looks(t, p)

\* What is on a list.
LEMMA OnList ==
  ASSUME IInv, NEW p \in Peers, NEW x, On(frags_cant_match[p], x)
  PROVE  x \in Frags /\ x.src = p /\ Moving(x)
<1>1. WellFormed(frags_cant_match[p], Frags)
  BY Zenon DEF IInv, PlaceOK
<1>2. PICK k \in 1 .. Len(frags_cant_match[p]) :
        \E i \in 1 .. Len(frags_cant_match[p][k]) : x = frags_cant_match[p][k][i]
  BY Zenon DEF On
<1>3. x \in Frags
  BY Zenon, <1>1, <1>2, RangeType DEF WellFormed
<1> QED BY Zenon, <1>3 DEF IInv, PlaceOK, Moving

\* A message in transit has its own number, which is not below the expected one.
LEMMA OwnNumber ==
  ASSUME MaxSend < SeqMod, IInv, ListOK, ~AllowOvertake, NEW f \in Frags, Moving(f)
  PROVE  /\ hdr_seq(f) = f.n /\ f.n \in Nat
         /\ expected_sequence[f.src] \in Int /\ expected_sequence[f.src] <= hdr_seq(f)
<1>1. /\ f.src \in Peers /\ f.n \in Nat /\ Len(log[f.src]) \in Nat
      /\ f.n <= send_sequence[f.src] /\ send_sequence[f.src] <= MaxSend
      /\ Len(log[f.src]) < f.n
      /\ expected_sequence[f.src] = (Len(log[f.src]) + 1) % SeqMod
  BY Zenon, NumberTypes DEF IInv, NumberOK, SequenceOK, ListOK
<1>2. PICK l \in Nat, n \in Nat : l = Len(log[f.src]) /\ n = f.n
  BY Zenon, <1>1
<1>3. send_sequence[f.src] \in Nat /\ MaxSend \in Nat /\ SeqMod \in Nat \ {0}
  BY <1>1, BoundsAssumption, SeqModAssumption DEF IInv, TypeOK
<1>4. n \in 0 .. SeqMod - 1 /\ l + 1 \in 0 .. SeqMod - 1 /\ l + 1 <= n
  BY <1>1, <1>2, <1>3
<1>5. n % SeqMod = n /\ (l + 1) % SeqMod = l + 1
  BY Zenon, <1>3, <1>4, SmallMod
<1>6. hdr_seq(f) = n /\ expected_sequence[f.src] = l + 1
  BY Zenon, <1>1, <1>2, <1>5 DEF hdr_seq
<1> QED BY <1>2, <1>4, <1>6

\* When the next message is on the list it is the head.
LEMMA HeadIsNext ==
  ASSUME MaxSend < SeqMod, IInv, ListOK, NEW p \in Peers, NextIsHere(p)
  PROVE  ~AllowOvertake /\ head_is_expected(frags_cant_match[p], expected_sequence[p])
<1> DEFINE q == frags_cant_match[p]
<1>1. PICK f \in Frags : On(q, f) /\ hdr_seq(f) = expected_sequence[p]
  BY Zenon DEF NextIsHere
<1>2. WellFormed(q, Frags) /\ Sorted(q) /\ Numbered(Frags)
  BY Zenon, FragsNumbered DEF IInv, PlaceOK, ListOK
<1>3. q # << >> /\ chain_seq(q, 1) <= hdr_seq(f)
  BY Zenon, <1>1, <1>2, HeadLeast
<1>4. ~AllowOvertake
  BY Zenon, <1>3 DEF ListOK
<1>5. On(q, q[1][1])
  BY Zenon, <1>2, <1>3, ChainTypes
<1>6. q[1][1] \in Frags /\ q[1][1].src = p /\ Moving(q[1][1])
  BY Zenon, <1>5, OnList
<1>7. PICK h \in Nat : h = chain_seq(q, 1) /\ expected_sequence[p] \in Int /\ expected_sequence[p] <= h
  BY Zenon, <1>4, <1>6, OwnNumber DEF chain_seq
<1>8. h <= expected_sequence[p]
  BY Zenon, <1>1, <1>3, <1>7
<1>9. h = expected_sequence[p]
  BY <1>7, <1>8
<1> QED BY Zenon, <1>3, <1>4, <1>7, <1>9 DEF head_is_expected

\* A fragment that is not the next one goes to its place on the list.
LEMMA ListAppends ==
  ASSUME Least, MaxSend < SeqMod, IInv, ListOK, NEW f \in Frags, Moving(f), ~InSequence(f),
         ~On(frags_cant_match[f.src], f),
         frags_cant_match' = [frags_cant_match EXCEPT ![f.src] =
            append_frag_to_ordered_list(@, f, expected_sequence[f.src])],
         UNCHANGED <<send_sequence, expected_sequence>>
  PROVE  ListOK' /\ \A p \in Peers : NextIsHere(p)' => NextIsHere(p)
<1> DEFINE y == f.src
           q == frags_cant_match[y]
           e == expected_sequence[y]
<1>1. y \in Peers /\ ~AllowOvertake /\ hdr_seq(f) # e
  BY Zenon DEF InSequence, Frags
<1>2. WellFormed(q, Frags) /\ Sorted(q) /\ Numbered(Frags)
  BY Zenon, <1>1, FragsNumbered DEF IInv, PlaceOK, ListOK
<1>3. e \in Int /\ e < hdr_seq(f)
  <2>1. PICK a \in Nat : a = hdr_seq(f) /\ e \in Int /\ e <= a
    BY Zenon, <1>1, OwnNumber
  <2> HIDE DEF e
  <2> QED BY <1>1, <2>1
<1>4. ASSUME NEW x, On(q, x) PROVE e <= hdr_seq(x) /\ hdr_seq(x) # hdr_seq(f)
  <2>1. x \in Frags /\ x.src = y /\ Moving(x)
    BY Zenon, <1>1, <1>4, OnList
  <2>2. e <= hdr_seq(x) /\ hdr_seq(x) = x.n /\ hdr_seq(f) = f.n
    BY Zenon, <1>1, <2>1, OwnNumber
  <2>3. x.n # f.n
    BY Zenon, <1>4, <2>1 DEF IInv, NumberOK
  <2> QED BY Zenon, <2>2, <2>3
<1>5. Sorted(append_frag_to_ordered_list(q, f, e))
  <2> HIDE DEF q, e
  <2> QED BY Zenon, <1>2, <1>3, <1>4, AppendSorted DEF q
<1>6. /\ frags_cant_match'[y] = append_frag_to_ordered_list(q, f, e)
      /\ \A p \in Peers \ {y} : frags_cant_match'[p] = frags_cant_match[p]
  BY <1>1, TypeParts DEF IInv
<1>7. ListOK'
  BY Zenon, <1>1, <1>5, <1>6 DEF ListOK
<1>8. ASSUME NEW p \in Peers, NEW x \in Frags, On(frags_cant_match'[p], x)
      PROVE  On(frags_cant_match[p], x) \/ (p = y /\ x = f)
  BY Zenon, <1>8, ListGains DEF IInv
<1>9. ASSUME NEW p \in Peers, NextIsHere(p)' PROVE NextIsHere(p)
  <2>1. PICK x \in Frags : On(frags_cant_match'[p], x) /\ hdr_seq(x) = expected_sequence[p]
    BY Zenon, <1>9 DEF NextIsHere, hdr_seq
  <2> QED BY Zenon, <1>1, <1>8, <2>1 DEF NextIsHere
<1> QED BY Zenon, <1>7, <1>9

\* The head is the next message and leaves the list.
LEMMA ListRemoves ==
  ASSUME MaxSend < SeqMod, IInv, ListOK, NEW y \in Peers,
         head_is_expected(frags_cant_match[y], expected_sequence[y]),
         frags_cant_match' = [frags_cant_match EXCEPT ![y] =
            remove_head_from_ordered_list(frags_cant_match[y])],
         advance(y), UNCHANGED send_sequence
  PROVE  ListOK' /\ \A p \in Peers \ {y} : NextIsHere(p)' => NextIsHere(p)
<1> DEFINE q == frags_cant_match[y]
<1>1. q # << >> /\ ~AllowOvertake
  BY Zenon DEF head_is_expected, ListOK
<1>2. WellFormed(q, Frags) /\ Sorted(q) /\ Numbered(Frags)
  BY Zenon, FragsNumbered DEF IInv, PlaceOK, ListOK
<1>3. ASSUME NEW x, NEW z, On(q, x), On(q, z), hdr_seq(x) = hdr_seq(z) PROVE x = z
  <2>1. /\ x \in Frags /\ x.src = y /\ Moving(x)
        /\ z \in Frags /\ z.src = y /\ Moving(z)
    BY Zenon, <1>3, OnList
  <2>2. x.n = z.n
    BY Zenon, <1>1, <1>3, <2>1, OwnNumber
  <2> QED BY Zenon, <2>1, <2>2 DEF IInv, NumberOK
<1>4. Sorted(remove_head_from_ordered_list(q))
  <2> HIDE DEF q
  <2> QED BY Zenon, <1>1, <1>2, <1>3, RemoveSorted
<1>5. /\ frags_cant_match'[y] = remove_head_from_ordered_list(q)
      /\ \A p \in Peers \ {y} : frags_cant_match'[p] = frags_cant_match[p]
      /\ \A p \in Peers \ {y} : expected_sequence'[p] = expected_sequence[p]
  BY TypeParts DEF IInv, CommTypeOK, advance
<1>6. ListOK'
  BY Zenon, <1>1, <1>4, <1>5 DEF ListOK
<1> QED BY Zenon, <1>5, <1>6 DEF NextIsHere, hdr_seq

\* What a step must do for a list that holds the next message to be looked at:
\* a thread is going to look, or the next message is elsewhere, or it was there
\* before and no thread that was going to look gives up.
Settled(p) ==
  \/ \E t \in Threads : Looks(t, p)'
  \/ ~NextIsHere(p)'
  \/ /\ NextIsHere(p)' => NextIsHere(p)
     /\ \A t \in Threads : Looks(t, p) /\ NextIsHere(p) => Looks(t, p)'

\* A step of t that leaves the lists alone.
LEMMA SameLists ==
  ASSUME ListOK, NEW t \in Threads, UNCHANGED <<send_sequence, seqVars>>,
         \A u \in Threads \ {t} : cur'[u].peer = cur[u].peer /\ pc'[u] = pc[u],
         \A p \in Peers : Looks(t, p) /\ NextIsHere(p) => Looks(t, p)'
  PROVE  ListOK' /\ \A p \in Peers : Settled(p)
<1>1. ListOK'
  BY Zenon DEF ListOK, seqVars
<1>2. \A p \in Peers : NextIsHere(p)' => NextIsHere(p)
  BY Zenon DEF NextIsHere, hdr_seq, seqVars
<1>3. \A p \in Peers, u \in Threads \ {t} : Looks(u, p) => Looks(u, p)'
  BY Zenon DEF Looks
<1> QED BY Zenon, <1>1, <1>2, <1>3 DEF Settled

\* A thread that only goes on keeps looking; one that stops has found that the
\* next message is not at the head, so it is not on the list.
LEMMA ThreadSettled ==
  ASSUME MaxSend < SeqMod, IInv, ListOK, NEW t \in Threads,
         \/ Progress(t) \/ CheckCantMatch(t) \/ RelockNothing(t)
         \/ StartProgress(t) \/ AddCommBegin(t) \/ AddCommEnd(t)
  PROVE  ListOK' /\ \A p \in Peers : Settled(p)
<1>1. /\ UNCHANGED <<send_sequence, seqVars>>
      /\ \E x : pc' = [pc EXCEPT ![t] = x]
  BY Zenon DEF Progress, CheckCantMatch, RelockNothing, StartProgress, AddCommBegin,
               AddCommEnd, netVars
<1>2. \/ UNCHANGED cur
      \/ cur' = [cur EXCEPT ![t].req = None]
      \/ cur' = [cur EXCEPT ![t] = IdleThread]
  BY Zenon DEF Progress, CheckCantMatch, RelockNothing, StartProgress, AddCommBegin, AddCommEnd
<1>3. pc \in [Threads -> {"idle", "start", "progress", "check", "relock", "add_comm"}]
      /\ cur \in [Threads -> [peer : Peers \cup {None}, req : Reqs \cup {None}]]
  BY Zenon DEF IInv, TypeOK
<1>4. \A u \in Threads \ {t} : cur'[u].peer = cur[u].peer /\ pc'[u] = pc[u]
  BY <1>1, <1>2, <1>3
<1>5. ASSUME NEW p \in Peers, Looks(t, p), NextIsHere(p) PROVE Looks(t, p)'
  <2>1. /\ head_is_expected(frags_cant_match[p], expected_sequence[p])
        /\ cur[t].peer = p /\ p # None
    BY Zenon, <1>5, HeadIsNext, PeersAssumption DEF Looks
  <2>2. CASE Progress(t)
    BY <1>3, <2>1, <2>2 DEF Progress, Looks
  <2>3. CASE CheckCantMatch(t)
    BY <1>3, <2>1, <2>3 DEF CheckCantMatch, Looks, head_is_expected
  <2>4. CASE RelockNothing(t)
    BY Zenon, <2>1, <2>4 DEF RelockNothing
  <2>5. CASE StartProgress(t) \/ AddCommBegin(t)
    BY <1>5, <2>5 DEF StartProgress, AddCommBegin, Looks
  <2>6. CASE AddCommEnd(t)
    BY Zenon, <2>1, <2>6 DEF AddCommEnd, AddCommDrained
  <2> QED BY <2>2, <2>3, <2>4, <2>5, <2>6
<1> QED BY Zenon, <1>1, <1>4, <1>5, SameLists

\* Posting a receive is not done by a thread that is going to look.
LEMMA PostSettled ==
  ASSUME IInv, ListOK, NEW t \in Threads, Post(t)
  PROVE  ListOK' /\ \A p \in Peers : Settled(p)
<1>1. /\ UNCHANGED <<send_sequence, seqVars>> /\ pc[t] = "idle"
      /\ \/ UNCHANGED <<pc, cur>>
         \/ \E r : pc' = [pc EXCEPT ![t] = "start"] /\ cur' = [cur EXCEPT ![t].req = r]
  BY Zenon DEF Post, StartNoMatch, StartMatch, Mrecv, Cancel, start_common, netVars
<1>2. pc \in [Threads -> {"idle", "start", "progress", "check", "relock", "add_comm"}]
      /\ cur \in [Threads -> [peer : Peers \cup {None}, req : Reqs \cup {None}]]
  BY Zenon DEF IInv, TypeOK
<1>3. \A u \in Threads \ {t} : cur'[u].peer = cur[u].peer /\ pc'[u] = pc[u]
  BY <1>1, <1>2
<1>4. \A p \in Peers : ~Looks(t, p)
  BY <1>1 DEF Looks
<1> QED BY Zenon, <1>1, <1>3, <1>4, SameLists

\* A fragment that is put on a list is not the next one.
LEMMA OutOfSequenceSettled ==
  ASSUME MaxSend < SeqMod, IInv, ListOK, NEW t \in Threads, NEW p \in Peers,
         NEW f \in net[p], RecvFragOutOfSequence(t, p, f)
  PROVE  ListOK' /\ \A y \in Peers : Settled(y)
<1>1. f \in Frags /\ f.src = p
  BY Zenon, NetLoses DEF IInv, RecvFragOutOfSequence
<1>2. Moving(f) /\ ~On(frags_cant_match[f.src], f)
  BY Zenon, <1>1 DEF IInv, PlaceOK, Moving
<1>3. /\ ~InSequence(f)
      /\ frags_cant_match' = [frags_cant_match EXCEPT ![f.src] =
           append_frag_to_ordered_list(@, f, expected_sequence[f.src])]
      /\ UNCHANGED <<send_sequence, expected_sequence, pc, cur>>
  BY Zenon, <1>1 DEF RecvFragOutOfSequence
<1>4. ListOK' /\ \A y \in Peers : NextIsHere(y)' => NextIsHere(y)
  BY Zenon, <1>1, <1>2, <1>3, LeastOK, ListAppends
<1>5. \A u \in Threads, y \in Peers : Looks(u, y) => Looks(u, y)'
  BY Zenon, <1>3 DEF Looks
<1> QED BY Zenon, <1>4, <1>5 DEF Settled

\* A thread that consumes a message of y looks at the list of y afterwards, and
\* the lists of the other peers are as before.
LEMMA ConsumerSettled ==
  ASSUME ListOK', NEW t \in Threads, NEW y \in Peers,
         AllowOvertake \/ Looks(t, y)',
         \A p \in Peers \ {y} : NextIsHere(p)' => NextIsHere(p),
         \A p \in Peers \ {y} : Looks(t, p) => ~NextIsHere(p),
         \A u \in Threads \ {t} : cur'[u].peer = cur[u].peer /\ pc'[u] = pc[u]
  PROVE  \A p \in Peers : Settled(p)
<1>1. CASE AllowOvertake
  <2>1. \A p \in Peers : frags_cant_match'[p] = << >>
    BY Zenon, <1>1 DEF ListOK
  <2>2. \A x : ~On(<< >>, x)
    BY DEF On
  <2>3. \A p \in Peers : ~NextIsHere(p)'
    BY Zenon, <2>1, <2>2 DEF NextIsHere
  <2> QED BY Zenon, <2>3 DEF Settled
<1>2. CASE Looks(t, y)'
  <2>1. \A p \in Peers, u \in Threads \ {t} : Looks(u, p) => Looks(u, p)'
    BY Zenon DEF Looks
  <2>2. Settled(y)
    BY Zenon, <1>2 DEF Settled
  <2>3. ASSUME NEW p \in Peers \ {y} PROVE Settled(p)
    BY Zenon, <2>1, <2>3 DEF Settled
  <2> QED BY Zenon, <2>2, <2>3
<1> QED BY <1>1, <1>2

\* What match_one leaves t to do.
LEMMA MatchLooks ==
  ASSUME IInv, NEW t \in Threads, NEW f, match_one(t, f)
  PROVE  /\ Looks(t, f.src)'
         /\ \A u \in Threads \ {t} : cur'[u].peer = cur[u].peer /\ pc'[u] = pc[u]
<1>1. /\ pc' = [pc EXCEPT ![t] = "progress"]
      /\ \E x : cur' = [cur EXCEPT ![t] = [peer |-> f.src, req |-> x]]
  BY Zenon DEF match_one
<1>2. pc \in [Threads -> {"idle", "start", "progress", "check", "relock", "add_comm"}]
      /\ cur \in [Threads -> [peer : Peers \cup {None}, req : Reqs \cup {None}]]
  BY Zenon DEF IInv, TypeOK
<1> QED BY <1>1, <1>2 DEF Looks

\* A fragment that arrives in sequence.
LEMMA InSequenceSettled ==
  ASSUME IInv, ListOK, NEW t \in Threads, NEW p \in Peers,
         NEW f \in net[p], RecvFragInSequence(t, p, f)
  PROVE  ListOK' /\ \A y \in Peers : Settled(y)
<1>1. f.src = p /\ pc[t] = "idle"
  BY Zenon DEF IInv, PlaceOK, RecvFragInSequence
<1>2. /\ UNCHANGED <<send_sequence, frags_cant_match>>
      /\ expected_sequence' = expected_sequence \/ advance(p)
      /\ match_one(t, f)
  BY Zenon DEF RecvFragInSequence
<1>3. ListOK'
  BY Zenon, <1>2 DEF ListOK
<1>4. /\ Looks(t, p)'
      /\ \A u \in Threads \ {t} : cur'[u].peer = cur[u].peer /\ pc'[u] = pc[u]
  BY Zenon, <1>1, <1>2, MatchLooks
<1>5. \A y \in Peers \ {p} : expected_sequence'[y] = expected_sequence[y]
  BY <1>2, TypeParts DEF IInv, CommTypeOK, advance
<1>6. \A y \in Peers \ {p} : NextIsHere(y)' => NextIsHere(y)
  BY Zenon, <1>2, <1>5 DEF NextIsHere, hdr_seq
<1>7. \A y \in Peers : ~Looks(t, y)
  BY <1>1 DEF Looks
<1> QED BY Zenon, <1>3, <1>4, <1>6, <1>7, ConsumerSettled

\* The head of a list is consumed: by the thread that took the lock again, or
\* by add_comm.
LEMMA HeadSettled ==
  ASSUME MaxSend < SeqMod, IInv, ListOK, NEW t \in Threads,
         RelockMatch(t) \/ AddCommDrain(t)
  PROVE  ListOK' /\ \A y \in Peers : Settled(y)
<1>1. PICK y \in Peers : y = cur[t].peer
  BY Zenon DEF RelockMatch, AddCommDrain, IInv, ThreadOK
<1>2. /\ head_is_expected(frags_cant_match[y], expected_sequence[y])
      /\ frags_cant_match' = [frags_cant_match EXCEPT ![y] =
           remove_head_from_ordered_list(frags_cant_match[y])]
      /\ advance(y) /\ UNCHANGED send_sequence
      /\ \/ match_one(t, frags_cant_match[y][1][1])
         \/ pc[t] = "add_comm" /\ UNCHANGED <<pc, cur>>
  BY Zenon, <1>1 DEF RelockMatch, AddCommDrain, netVars
<1>3. PICK h \in Frags : h = frags_cant_match[y][1][1] /\ h.src = y
  BY Zenon, <1>2, HeadOfList DEF IInv
<1>4. /\ Looks(t, y)'
      /\ \A u \in Threads \ {t} : cur'[u].peer = cur[u].peer /\ pc'[u] = pc[u]
  <2>1. CASE match_one(t, h)
    BY Zenon, <1>3, <2>1, MatchLooks
  <2>2. CASE pc[t] = "add_comm" /\ UNCHANGED <<pc, cur>>
    BY <1>1, <2>2 DEF Looks
  <2> QED BY Zenon, <1>2, <1>3, <2>1, <2>2
<1>5. \A p \in Peers \ {y} : ~Looks(t, p)
  BY Zenon, <1>1 DEF Looks
<1>6. ListOK' /\ \A p \in Peers \ {y} : NextIsHere(p)' => NextIsHere(p)
  BY Zenon, <1>2, ListRemoves
<1> QED BY Zenon, <1>4, <1>5, <1>6, ConsumerSettled

\* mca_pml_ob1_add_comm goes to the next pending fragment when the list of the
\* peer it served before does not have its next message.
LEMMA AddCommFragSettled ==
  ASSUME MaxSend < SeqMod, IInv, ListOK, NEW t \in Threads, AddCommFrag(t)
  PROVE  ListOK' /\ \A y \in Peers : Settled(y)
<1>1. PICK f : f = Head(non_existing_communicator_pending)
  OBVIOUS
<1>2. f \in Frags /\ Pending(f)
  <2>1. non_existing_communicator_pending # << >>
        /\ non_existing_communicator_pending' = Tail(non_existing_communicator_pending)
    BY Zenon DEF AddCommFrag
  <2> QED BY Zenon, <1>1, <2>1, PendingLoses DEF IInv
<1>3. f.src \in Peers /\ Moving(f) /\ ~On(frags_cant_match[f.src], f)
  BY Zenon, <1>2 DEF Frags, Moving, IInv, PlaceOK
<1>4. /\ pc[t] = "add_comm" /\ AddCommDrained(t) /\ UNCHANGED <<send_sequence, pc>>
      /\ InSequence(f) =>
           /\ UNCHANGED frags_cant_match
           /\ expected_sequence' = expected_sequence \/ advance(f.src)
           /\ ~AllowOvertake => cur' = [cur EXCEPT ![t].peer = f.src]
      /\ ~InSequence(f) =>
           /\ frags_cant_match' = [frags_cant_match EXCEPT ![f.src] =
                append_frag_to_ordered_list(@, f, expected_sequence[f.src])]
           /\ UNCHANGED expected_sequence
      /\ \E x : cur' = [cur EXCEPT ![t].peer = x]
  BY Zenon, <1>1 DEF AddCommFrag, netVars
<1>5. pc \in [Threads -> {"idle", "start", "progress", "check", "relock", "add_comm"}]
      /\ cur \in [Threads -> [peer : Peers \cup {None}, req : Reqs \cup {None}]]
  BY Zenon DEF IInv, TypeOK
<1>6. \A u \in Threads \ {t} : cur'[u].peer = cur[u].peer /\ pc'[u] = pc[u]
  BY <1>4, <1>5
<1>7. ASSUME NEW y \in Peers, Looks(t, y) PROVE ~NextIsHere(y)
  <2>1. y # None /\ cur[t].peer = y
    BY Zenon, <1>7, PeersAssumption DEF Looks
  <2> QED BY Zenon, <1>4, <2>1, HeadIsNext DEF AddCommDrained
<1>8. CASE InSequence(f)
  <2>1. ListOK'
    BY Zenon, <1>4, <1>8 DEF ListOK
  <2>2. AllowOvertake \/ Looks(t, f.src)'
    BY <1>4, <1>5, <1>8 DEF Looks
  <2>3. \A y \in Peers \ {f.src} : expected_sequence'[y] = expected_sequence[y]
    BY <1>3, <1>4, <1>8, TypeParts DEF IInv, CommTypeOK, advance
  <2>4. \A y \in Peers \ {f.src} : NextIsHere(y)' => NextIsHere(y)
    BY Zenon, <1>4, <1>8, <2>3 DEF NextIsHere, hdr_seq
  <2> QED BY Zenon, <1>3, <1>6, <1>7, <2>1, <2>2, <2>4, ConsumerSettled
<1>9. CASE ~InSequence(f)
  <2>1. ListOK' /\ \A y \in Peers : NextIsHere(y)' => NextIsHere(y)
    BY Zenon, <1>2, <1>3, <1>4, <1>9, LeastOK, ListAppends
  <2>2. \A y \in Peers, u \in Threads \ {t} : Looks(u, y) => Looks(u, y)'
    BY Zenon, <1>6 DEF Looks
  <2> QED BY Zenon, <1>7, <2>1, <2>2 DEF Settled
<1> QED BY <1>8, <1>9

\* Every step settles every list.
LEMMA StepSettled ==
  ASSUME MaxSend < SeqMod, IInv, ListOK, [Next]_vars
  PROVE  ListOK' /\ \A y \in Peers : Settled(y)
<1>1. ASSUME NEW p \in Peers, NEW e \in Envelopes, Send(p, e)
      PROVE  ListOK' /\ \A y \in Peers : Settled(y)
  <2>1. /\ UNCHANGED <<seqVars, pc, cur>>
        /\ send_sequence[p] < MaxSend
        /\ send_sequence' = [send_sequence EXCEPT ![p] = @ + 1]
    BY Zenon, <1>1 DEF Send
  <2>2. send_sequence \in [Peers -> Nat] /\ MaxSend \in Nat
    BY Zenon, BoundsAssumption DEF IInv, TypeOK
  <2>3. \A y \in Peers : send_sequence'[y] <= MaxSend
    BY <2>1, <2>2 DEF ListOK
  <2>4. ListOK'
    BY Zenon, <2>1, <2>3 DEF ListOK, seqVars
  <2>5. \A y \in Peers : NextIsHere(y)' => NextIsHere(y)
    BY Zenon, <2>1 DEF NextIsHere, hdr_seq, seqVars
  <2>6. \A y \in Peers, u \in Threads : Looks(u, y) => Looks(u, y)'
    BY Zenon, <2>1 DEF Looks
  <2> QED BY Zenon, <2>4, <2>5, <2>6 DEF Settled
<1>2. ASSUME \/ UNCHANGED vars
             \/ \E t \in Threads, p \in Peers : \E f \in net[p] : RecvFragNoComm(t, p, f)
      PROVE  ListOK' /\ \A y \in Peers : Settled(y)
  <2>1. UNCHANGED <<send_sequence, seqVars, pc, cur>>
    BY Zenon, <1>2 DEF vars, netVars, RecvFragNoComm
  <2>2. ListOK'
    BY Zenon, <2>1 DEF ListOK, seqVars
  <2>3. \A y \in Peers : NextIsHere(y)' => NextIsHere(y)
    BY Zenon, <2>1 DEF NextIsHere, hdr_seq, seqVars
  <2>4. \A y \in Peers, u \in Threads : Looks(u, y) => Looks(u, y)'
    BY Zenon, <2>1 DEF Looks
  <2> QED BY Zenon, <2>2, <2>3, <2>4 DEF Settled
<1>3. ASSUME NEW t \in Threads, Arrive(t) PROVE ListOK' /\ \A y \in Peers : Settled(y)
  BY Zenon, <1>2, <1>3, OutOfSequenceSettled, InSequenceSettled DEF Arrive
<1>4. ASSUME NEW t \in Threads, Continue(t) \/ AddComm(t)
      PROVE  ListOK' /\ \A y \in Peers : Settled(y)
  BY Zenon, <1>4, ThreadSettled, HeadSettled, AddCommFragSettled DEF Continue, AddComm
<1> QED BY Zenon, <1>1, <1>2, <1>3, <1>4, PostSettled DEF Next

\* Init, and every step, leaves a list with the next message looked at.
LEMMA AlwaysLooks ==
  ASSUME MaxSend < SeqMod PROVE Spec => [](IInv /\ ListOK /\ LooksOK)
<1>1. Init => ListOK /\ LooksOK
  <2> SUFFICES ASSUME Init PROVE ListOK /\ LooksOK
    OBVIOUS
  <2>1. \A p \in Peers : send_sequence[p] = 0 /\ frags_cant_match[p] = << >>
    BY DEF Init
  <2>2. Sorted(<< >>) /\ \A x : ~On(<< >>, x)
    BY DEF Sorted, On
  <2>3. 0 <= MaxSend
    BY BoundsAssumption
  <2> QED BY Zenon, <2>1, <2>2, <2>3 DEF ListOK, LooksOK, NextIsHere
<1>2. IInv /\ ListOK /\ LooksOK /\ [Next]_vars => (ListOK /\ LooksOK)'
  <2> SUFFICES ASSUME IInv, ListOK, LooksOK, [Next]_vars PROVE ListOK' /\ LooksOK'
    OBVIOUS
  <2>1. ListOK' /\ \A p \in Peers : Settled(p)
    BY Zenon, StepSettled
  <2> QED BY Zenon, <2>1 DEF LooksOK, Settled
<1> QED BY <1>1, <1>2, InitIInv, StepIInv, PTL DEF Spec

------------------------------------------------------------------------------
(* The places of a message.                                                *)

\* Every step keeps every message in its one place.
LEMMA StepOne == IInv /\ RInv /\ OneInv /\ [Next]_vars => OneInv'
<1> SUFFICES ASSUME IInv, RInv, OneInv, [Next]_vars PROVE OneInv'
  OBVIOUS
<1>1. Change
  BY Zenon, StepChange
<1>2. ASSUME Moved, Quiet PROVE OneInv'
  BY Zenon, <1>2, KeptFrags, OneMoved DEF Quiet
<1>3. ASSUME Moved, NEW r \in Reqs, NEW w \in Wanted, Looked(r, w) PROVE OneInv'
  <2>1. ~Started(r)
    BY <1>3 DEF Looked, Opens, Started
  <2>2. req[r].frag = None
    BY Zenon, <2>1 DEF RInv, ReqOK
  <2>3. UNCHANGED unexpected_frags /\ \A x \in Reqs : req'[x].frag = req[x].frag
    BY Zenon, <1>3, <2>2 DEF Looked, Opens, Keeps
  <2> QED BY Zenon, <1>3, <2>3, OneMoved
<1> QED BY Zenon, <1>1, <1>2, <1>3, OneSent, OneStored, OneGave, OneTook DEF Change

\* The three places of a message are counted.
LEMMA OneCounts == IInv /\ RInv /\ OneInv => ExactlyOnePlace
<1> SUFFICES ASSUME IInv, RInv, OneInv, NEW p \in Peers, NEW n \in 1 .. send_sequence[p]
             PROVE  LET here(f) == f.src = p /\ f.n = n
                        moving == { f \in InTransit(p) : here(f) }
                        waiting == { i \in 1 .. Len(unexpected_frags[p]) :
                                        here(unexpected_frags[p][i]) }
                        owners == { r \in Reqs : req[r].frag # None /\ here(req[r].frag) }
                    IN  Cardinality(moving) + Cardinality(waiting) + Cardinality(owners) = 1
  BY Zenon DEF ExactlyOnePlace
<1> DEFINE here(f) == f.src = p /\ f.n = n
           moving == { f \in InTransit(p) : here(f) }
           waiting == { i \in 1 .. Len(unexpected_frags[p]) : here(unexpected_frags[p][i]) }
           owners == { r \in Reqs : req[r].frag # None /\ here(req[r].frag) }
<1>0. KnownOK /\ ApartOK /\ OnceOK /\ None \notin Frags
  BY Zenon, NoneAssumption DEF OneInv
<1>1. PICK f \in Frags : here(f) /\ Known(f)
  BY Zenon, <1>0 DEF KnownOK
<1>2. ASSUME NEW g \in Frags, here(g), Known(g) PROVE g = f
  BY Zenon, <1>0, <1>1, <1>2 DEF KnownOK
<1>3. \A g \in moving : g = f /\ Moving(f)
  BY Zenon, <1>2, TransitMoves DEF Known
<1>4. \A i \in waiting : unexpected_frags[p][i] = f /\ Waiting(f)
  <2> SUFFICES ASSUME NEW i \in waiting PROVE unexpected_frags[p][i] = f /\ Waiting(f)
    OBVIOUS
  <2>1. PICK g \in Frags : g = unexpected_frags[p][i] /\ here(g) /\ i \in 1 .. Len(unexpected_frags[p])
    BY Zenon, NumberTypes
  <2>2. Waiting(g)
    BY Zenon, <2>1 DEF Waiting, Has
  <2> QED BY Zenon, <1>2, <2>1, <2>2 DEF Known
<1>5. \A r \in owners : req[r].frag = f
  <2> SUFFICES ASSUME NEW r \in owners PROVE req[r].frag = f
    OBVIOUS
  <2>1. r \in Reqs /\ req[r].frag \in Frags /\ here(req[r].frag)
    BY Zenon, NumberTypes
  <2> QED BY Zenon, <1>2, <2>1 DEF Known
<1>6. Cardinality({}) = 0 /\ \A x : Cardinality({x}) = 1
  BY FS_EmptySet, FS_Singleton
<1>10. 1 + 0 + 0 = 1 /\ 0 + 1 + 0 = 1 /\ 0 + 0 + 1 = 1
  OBVIOUS
<1>7. CASE Moving(f)
  <2>1. f \in moving
    BY Zenon, <1>1, <1>7, TransitMoves
  <2>2. moving = {f} /\ waiting = {} /\ owners = {}
    BY Zenon, <1>0, <1>3, <1>4, <1>5, <1>7, <2>1 DEF ApartOK
  <2> QED BY Zenon, <1>6, <1>10, <2>2
<1>8. CASE Waiting(f)
  <2>1. PICK i \in 1 .. Len(unexpected_frags[p]) : unexpected_frags[p][i] = f
    BY Zenon, <1>1, <1>8 DEF Waiting, Has
  <2>4. \A k, l \in 1 .. Len(unexpected_frags[p]) :
          unexpected_frags[p][k] = unexpected_frags[p][l] => k = l
    BY Zenon, <1>0 DEF OnceOK, Once
  <2>5. i \in waiting
    BY Zenon, <1>1, <2>1
  <2>6. ASSUME NEW j \in waiting PROVE j = i
    <3>1. j \in 1 .. Len(unexpected_frags[p]) /\ unexpected_frags[p][j] = f
      BY Zenon, <1>4, <2>6
    <3> QED BY Zenon, <2>1, <2>4, <3>1
  <2>2. i \in waiting /\ \A j \in waiting : j = i
    BY Zenon, <2>5, <2>6
  <2>3. waiting = {i} /\ moving = {} /\ owners = {}
    BY Zenon, <1>0, <1>3, <1>5, <1>8, <2>2 DEF ApartOK
  <2> QED BY Zenon, <1>6, <1>10, <2>3
<1>9. ASSUME NEW r \in Reqs, req[r].frag = f
      PROVE  Cardinality(moving) + Cardinality(waiting) + Cardinality(owners) = 1
  <2>1. r \in owners /\ \A s \in owners : s = r
    BY Zenon, <1>0, <1>1, <1>5, <1>9 DEF ApartOK
  <2>2. owners = {r} /\ moving = {} /\ waiting = {}
    BY Zenon, <1>0, <1>3, <1>4, <1>9, <2>1 DEF ApartOK
  <2> QED BY Zenon, <1>6, <1>10, <2>2
<1> QED BY Zenon, <1>1, <1>7, <1>8, <1>9 DEF Known

------------------------------------------------------------------------------
(* The theorems.                                                           *)

\* append_frag_to_ordered_list adds f to the list, once, and loses nothing:
\* whichever of its paths (own range, end of a range, merge, new head) it
\* takes.
THEOREM AppendAdds ==
  ASSUME NEW S, Numbered(S), NEW q, WellFormed(q, S),
         NEW f \in S, ~On(q, f), NEW seq
  PROVE  LET r == append_frag_to_ordered_list(q, f, seq)
         IN  /\ WellFormed(r, S)
             /\ \A x : On(r, x) <=> On(q, x) \/ x = f
BY LeastOK, AppendTo

\* The variables of the matching engine keep their types, the lists of ranges
\* that are spliced, rotated and merged by hand included.
THEOREM TypeCorrect == Spec => []TypeOK
<1>1. IInv => TypeOK
  BY Zenon DEF IInv
<1> QED BY <1>1, AlwaysIInv, PTL

\* Matching consumes the messages of every sender in the order they were sent,
\* for any number of peers, threads, requests and messages, as long as no
\* more messages of a peer are in transit than hdr_seq can tell apart.
THEOREM InOrderAlways == Spec => []InOrder
<1>1. IInv => InOrder
  BY DEF IInv
<1> QED BY <1>1, AlwaysIInv, PTL

\* No posted receive ever fits a message on the unexpected list: the search of
\* recv_req_start and the one of match_one never pass each other, whatever the
\* threads do between their critical sections.
THEOREM NoMissedMatchAlways == Spec => []NoMissedMatch
<1>1. RInv => NoMissedMatch
  BY Zenon DEF RInv
<1> QED BY <1>1, AlwaysRInv, PTL

\* Both of MPI's rules on the order of matching hold: messages of a sender do
\* not overtake each other and receives match in the order they were posted.
THEOREM MatchingOrderAlways == Spec => []MatchingOrder
<1>1. RInv => MatchingOrder
  BY DEF RInv
<1> QED BY <1>1, AlwaysRInv, PTL

\* No wake-up is lost, for any number of peers, threads and messages, as long
\* as sequence numbers do not wrap: when the next message of a peer is on the
\* list of out-of-sequence fragments, a thread has not looked there for the last
\* time.  (With wrap-around the list is not in order and this fails.)
THEOREM NoStrandedFragmentAlways ==
  ASSUME MaxSend < SeqMod PROVE Spec => []NoStrandedFragment
<1>1. IInv /\ LooksOK => NoStrandedFragment
  <2> SUFFICES ASSUME IInv, LooksOK, NEW p \in Peers,
                      NEW f \in list_frags(frags_cant_match[p]),
                      hdr_seq(f) = expected_sequence[p]
               PROVE  \E t \in Threads : Looks(t, p)
    BY Zenon DEF NoStrandedFragment, Looks
  <2>1. On(frags_cant_match[p], f)
    BY Zenon DEF list_frags, On
  <2> QED BY Zenon, <2>1, OnList DEF LooksOK, NextIsHere
<1> QED BY <1>1, AlwaysLooks, PTL

\* A message that was sent is in exactly one place: in the network, with the
\* fragments of an unknown communicator, out of sequence, unexpected, or with
\* one request.  None is lost and none is handed out twice, whichever of the
\* threads moves it and whether or not sequence numbers wrap.
THEOREM ExactlyOnePlaceAlways == Spec => []ExactlyOnePlace
<1>1. Spec => [](IInv /\ RInv /\ OneInv)
  BY InitIInv, InitRInv, InitOne, StepIInv, StepRInv, StepOne, PTL DEF Spec
<1> QED BY <1>1, OneCounts, PTL
==============================================================================
