---------------------------- MODULE Ob1MatchPlaces ---------------------------
(***************************************************************************)
(* The steps of Ob1Match keep the types of its variables, and what they do *)
(* to the places a message in transit can be in.                           *)
(***************************************************************************)
EXTENDS Ob1MatchInvariant, Ob1OrderedListProofs

(* The types of the variables.                                             *)

\* Message numbers are naturals.
LEMMA FragsNumbered == Numbered(Frags)
BY DEF Numbered, Frags

\* The head of a list is one of its fragments.
LEMMA HeadOfList ==
  ASSUME PlaceOK, NEW p \in Peers, NEW e, head_is_expected(frags_cant_match[p], e)
  PROVE  LET h == frags_cant_match[p][1][1]
         IN  /\ h \in Frags
             /\ h.src = p
             /\ On(frags_cant_match[p], h)
             /\ hdr_seq(h) = e
             /\ frags_cant_match[p] # << >>
<1> DEFINE q == frags_cant_match[p]
<1>1. q # << >> /\ hdr_seq(q[1][1]) = e
  BY DEF head_is_expected, chain_seq
<1>2. WellFormed(q, Frags)
  BY DEF PlaceOK
<1>3. On(q, q[1][1])
  BY <1>1, <1>2, FragsNumbered, RemoveHeadRemoves
<1>4. 1 \in 1 .. Len(q)
  BY <1>1, <1>2, EmptySequence DEF WellFormed, Lists
<1>5. q[1][1] \in Frags
  BY <1>2, <1>4, RangeType DEF WellFormed
<1> QED BY <1>1, <1>3, <1>5 DEF PlaceOK

\* What a thread carries keeps its type when one field is set.
LEMMA SetCur ==
  ASSUME NEW c \in [Threads -> [peer : Peers \cup {None}, req : Reqs \cup {None}]],
         NEW t \in Threads
  PROVE  /\ \A x \in Peers \cup {None} : [c EXCEPT ![t].peer = x] \in
              [Threads -> [peer : Peers \cup {None}, req : Reqs \cup {None}]]
         /\ \A r \in Reqs \cup {None} : [c EXCEPT ![t].req = r] \in
              [Threads -> [peer : Peers \cup {None}, req : Reqs \cup {None}]]
<1> DEFINE R == [peer : Peers \cup {None}, req : Reqs \cup {None}]
<1>1. c[t] \in R
  OBVIOUS
<1>2. \A x \in Peers \cup {None} : [c[t] EXCEPT !.peer = x] \in R
  BY <1>1
<1>3. \A r \in Reqs \cup {None} : [c[t] EXCEPT !.req = r] \in R
  BY <1>1
<1> HIDE DEF R
<1>4. \A v \in R : [c EXCEPT ![t] = v] \in [Threads -> R]
  BY DEF R
<1> QED BY <1>2, <1>3, <1>4 DEF R

\* A change of state of one request.
LEMMA SetState ==
  ASSUME NEW R \in [Reqs -> ReqRecords], NEW r,
         NEW s \in {"unused", "posted", "taken", "matched", "probed", "nothing",
                    "cancelled"}
  PROVE  [R EXCEPT ![r].state = s] \in [Reqs -> ReqRecords]
<1>1. ASSUME NEW x \in Reqs PROVE [R EXCEPT ![r].state = s][x] \in ReqRecords
  <2>1. R[x] \in ReqRecords /\ [R[x] EXCEPT !.state = s] \in ReqRecords
    BY DEF ReqRecords
  <2>2. [R EXCEPT ![r].state = s][x] \in {R[x], [R[x] EXCEPT !.state = s]}
    OBVIOUS
  <2> QED BY <2>1, <2>2
<1> QED BY ZenonT(60), <1>1

\* Every action keeps the types of the variables other than the lists.
LEMMA StepType ==
  ASSUME Least, TypeOK, ThreadOK, PlaceOK, [Next]_vars
  PROVE  CommTypeOK' /\ RecvTypeOK' /\ ThreadOK'
<1>0. CommTypeOK /\ RecvTypeOK
  BY TypeParts
<1>n. \A x \in Int : x % SeqMod \in 0 .. SeqMod - 1
  BY SeqModAssumption
<1>a. ASSUME NEW p \in Peers, advance(p)
      PROVE  expected_sequence' \in [Peers -> 0 .. SeqMod - 1]
  <2>1. (expected_sequence[p] + 1) % SeqMod \in 0 .. SeqMod - 1
    <3>1. expected_sequence[p] \in 0 .. SeqMod - 1
      BY <1>0 DEF CommTypeOK
    <3>2. expected_sequence[p] + 1 \in Int
      BY <3>1, SeqModAssumption
    <3> QED BY <1>n, <3>2
  <2> QED BY <1>0, <1>a, <2>1 DEF advance, CommTypeOK
<1>u. ASSUME NEW f \in Frags, to_unexpected(f)
      PROVE  /\ unexpected_frags' \in [Peers -> Seq(Frags)]
             /\ log' \in [Peers -> Seq(Nat)]
  <2>1. f.src \in Peers /\ f.n \in Nat
    BY DEF Frags
  <2>2. [unexpected_frags EXCEPT ![f.src] = Append(@, f)] \in [Peers -> Seq(Frags)]
    BY <1>0, <2>1, AppendAt DEF RecvTypeOK
  <2>3. [log EXCEPT ![f.src] = Append(@, f.n)] \in [Peers -> Seq(Nat)]
    BY <1>0, <2>1, AppendAt DEF RecvTypeOK
  <2> QED BY <1>u, <2>2, <2>3 DEF to_unexpected
<1>i. IdleThread \in [peer : Peers \cup {None}, req : Reqs \cup {None}]
  BY DEF IdleThread
<1>1. ASSUME NEW p \in Peers, NEW e \in Envelopes, Send(p, e)
      PROVE  CommTypeOK' /\ RecvTypeOK' /\ ThreadOK'
  <2>1. [src |-> p, n |-> send_sequence[p] + 1, env |-> e] \in Frags
    BY <1>0 DEF Frags, CommTypeOK
  <2>2. CommTypeOK'
    BY <1>0, <1>1, <2>1 DEF Send, CommTypeOK, commVars, seqVars, countVars
  <2>3. RecvTypeOK' /\ ThreadOK'
    BY <1>0, <1>1 DEF Send, RecvTypeOK, ThreadOK, seqVars, recvVars
  <2> QED BY <2>2, <2>3
<1>2. ASSUME NEW t \in Threads, NEW p \in Peers, NEW f \in net[p],
             RecvFragNoComm(t, p, f)
      PROVE  CommTypeOK' /\ RecvTypeOK' /\ ThreadOK'
  <2>1. f \in Frags /\ f.src = p
    BY <1>0 DEF CommTypeOK, PlaceOK
  <2>2. CommTypeOK'
    BY <1>0, <1>2, <2>1 DEF RecvFragNoComm, take_from_net, CommTypeOK, seqVars, countVars
  <2>3. RecvTypeOK' /\ ThreadOK'
    BY <1>0, <1>2 DEF RecvFragNoComm, RecvTypeOK, ThreadOK, seqVars, recvVars
  <2> QED BY <2>2, <2>3
<1>3. ASSUME NEW t \in Threads, NEW p \in Peers, NEW f \in net[p],
             RecvFragOutOfSequence(t, p, f)
      PROVE  CommTypeOK' /\ RecvTypeOK' /\ ThreadOK'
  <2>2. CommTypeOK'
    BY ZenonT(60), <1>0, <1>3 DEF RecvFragOutOfSequence, take_from_net, CommTypeOK, commVars, countVars
  <2>3. RecvTypeOK' /\ ThreadOK'
    BY <1>0, <1>3 DEF RecvFragOutOfSequence, RecvTypeOK, ThreadOK, recvVars
  <2> QED BY <2>2, <2>3
<1>4. ASSUME NEW t \in Threads, NEW p \in Peers, NEW f \in net[p],
             RecvFragInSequence(t, p, f)
      PROVE  CommTypeOK' /\ RecvTypeOK' /\ ThreadOK'
  <2>1. f \in Frags /\ match_one(t, f)
    BY <1>0, <1>4 DEF CommTypeOK, RecvFragInSequence
  <2>2. expected_sequence' \in [Peers -> 0 .. SeqMod - 1]
    BY <1>0, <1>a, <1>4 DEF RecvFragInSequence, CommTypeOK
  <2>3. CommTypeOK'
    BY Zenon, <1>0, <1>4, <2>2 DEF RecvFragInSequence, take_from_net, CommTypeOK, commVars, countVars
  <2> QED BY <2>1, <2>3, MatchOneType
<1>5. ASSUME NEW t \in Threads, Progress(t)
      PROVE  CommTypeOK' /\ RecvTypeOK' /\ ThreadOK'
  <2>1. CommTypeOK'
    BY <1>0, <1>5 DEF Progress, CommTypeOK, netVars, commVars, seqVars, countVars
  <2>2. cur[t] \in [peer : Peers \cup {None}, req : Reqs \cup {None}]
    BY <1>0 DEF RecvTypeOK
  <2>3. req' \in [Reqs -> ReqRecords]
    <3>1. req' = req \/ req' = [req EXCEPT ![cur[t].req].state = "matched"]
      BY <1>5 DEF Progress
    <3>2. req \in [Reqs -> ReqRecords]
      BY <1>0 DEF RecvTypeOK
    <3>3. [req EXCEPT ![cur[t].req].state = "matched"] \in [Reqs -> ReqRecords]
      BY Zenon, <3>2, SetState
    <3> QED BY <3>1, <3>2, <3>3
  <2>4. RecvTypeOK'
    BY ZenonT(60), <1>0, <1>5, <2>2, <2>3, PeersAssumption DEF Progress, RecvTypeOK, seqVars, recvVars
  <2>5. ThreadOK'
    BY Zenon, <1>0, <1>5, <2>2 DEF Progress, RecvTypeOK, ThreadOK
  <2> QED BY <2>1, <2>4, <2>5
<1>6. ASSUME NEW t \in Threads, CheckCantMatch(t)
      PROVE  CommTypeOK' /\ RecvTypeOK' /\ ThreadOK'
  <2>1. CommTypeOK'
    BY <1>0, <1>6 DEF CheckCantMatch, CommTypeOK, netVars, commVars, seqVars, countVars
  <2>2. RecvTypeOK'
    <3>1. /\ \/ pc' = [pc EXCEPT ![t] = "idle"] /\ cur' = [cur EXCEPT ![t] = IdleThread]
             \/ pc' = [pc EXCEPT ![t] = "relock"] /\ cur' = cur
          /\ UNCHANGED <<seqVars, unexpected_frags, recvVars, req>>
      BY <1>6 DEF CheckCantMatch
    <3>2. /\ pc' \in [Threads ->
                {"idle", "start", "progress", "check", "relock", "add_comm"}]
          /\ cur' \in [Threads -> [peer : Peers \cup {None}, req : Reqs \cup {None}]]
      <4>1. /\ pc \in [Threads ->
                  {"idle", "start", "progress", "check", "relock", "add_comm"}]
            /\ cur \in [Threads -> [peer : Peers \cup {None}, req : Reqs \cup {None}]]
        BY <1>0 DEF RecvTypeOK
      <4>2. [cur EXCEPT ![t] = IdleThread]
              \in [Threads -> [peer : Peers \cup {None}, req : Reqs \cup {None}]]
        BY <4>1, <1>i
      <4> QED BY <3>1, <4>1, <4>2
    <3>3. UNCHANGED <<seqVars, unexpected_frags, recvVars, req>>
      BY <3>1
    <3> QED BY <1>0, <3>2, <3>3 DEF RecvTypeOK, seqVars, recvVars
  <2>3. ThreadOK'
    BY Zenon, <1>0, <1>6 DEF CheckCantMatch, RecvTypeOK, ThreadOK
  <2> QED BY <2>1, <2>2, <2>3
<1>7. ASSUME NEW t \in Threads, RelockMatch(t)
      PROVE  CommTypeOK' /\ RecvTypeOK' /\ ThreadOK'
  <2> DEFINE p == cur[t].peer
  <2>1. p \in Peers
    BY <1>7 DEF RelockMatch, ThreadOK
  <2>2. frags_cant_match[p][1][1] \in Frags /\ match_one(t, frags_cant_match[p][1][1])
    BY ZenonT(60), <1>7, <2>1, HeadOfList DEF RelockMatch
  <2>3. expected_sequence' \in [Peers -> 0 .. SeqMod - 1]
    BY Zenon, <1>a, <1>7, <2>1 DEF RelockMatch
  <2>4. CommTypeOK'
    BY ZenonT(60), <1>0, <1>7, <2>3 DEF RelockMatch, CommTypeOK, netVars, commVars, countVars
  <2> QED BY <2>2, <2>4, MatchOneType
<1>8. ASSUME NEW t \in Threads, RelockNothing(t)
      PROVE  CommTypeOK' /\ RecvTypeOK' /\ ThreadOK'
  <2>1. CommTypeOK'
    BY <1>0, <1>8 DEF RelockNothing, CommTypeOK, netVars, commVars, seqVars, countVars
  <2>2. RecvTypeOK'
    BY <1>0, <1>8 DEF RelockNothing, RecvTypeOK, IdleThread, seqVars, recvVars
  <2>3. ThreadOK'
    BY Zenon, <1>0, <1>8 DEF RelockNothing, RecvTypeOK, ThreadOK
  <2> QED BY <2>1, <2>2, <2>3
<1>9. ASSUME NEW t \in Threads, StartProgress(t)
      PROVE  CommTypeOK' /\ RecvTypeOK' /\ ThreadOK'
  <2>1. CommTypeOK'
    BY <1>0, <1>9 DEF StartProgress, CommTypeOK, netVars, commVars, seqVars, countVars
  <2>2. req' \in [Reqs -> ReqRecords]
    BY ZenonT(60), <1>0, <1>9, SetState DEF StartProgress, RecvTypeOK
  <2>3. RecvTypeOK'
    BY <1>0, <1>9, <2>2 DEF StartProgress, RecvTypeOK, IdleThread, seqVars, recvVars
  <2>4. ThreadOK'
    BY Zenon, <1>0, <1>9 DEF StartProgress, RecvTypeOK, ThreadOK
  <2> QED BY <2>1, <2>3, <2>4
<1>10. ASSUME NEW t \in Threads, AddCommBegin(t) \/ AddCommEnd(t)
       PROVE  CommTypeOK' /\ RecvTypeOK' /\ ThreadOK'
  <2>1. CommTypeOK'
    BY <1>0, <1>10 DEF AddCommBegin, AddCommEnd, CommTypeOK, netVars, seqVars, countVars
  <2>2. RecvTypeOK'
    <3>1. /\ \/ pc' = [pc EXCEPT ![t] = "idle"] /\ cur' = [cur EXCEPT ![t] = IdleThread]
             \/ pc' = [pc EXCEPT ![t] = "add_comm"] /\ cur' = cur
          /\ UNCHANGED <<seqVars, unexpected_frags, recvVars, req>>
      BY <1>10 DEF AddCommBegin, AddCommEnd
    <3>2. /\ pc' \in [Threads ->
                {"idle", "start", "progress", "check", "relock", "add_comm"}]
          /\ cur' \in [Threads -> [peer : Peers \cup {None}, req : Reqs \cup {None}]]
      <4>1. /\ pc \in [Threads ->
                  {"idle", "start", "progress", "check", "relock", "add_comm"}]
            /\ cur \in [Threads -> [peer : Peers \cup {None}, req : Reqs \cup {None}]]
        BY <1>0 DEF RecvTypeOK
      <4>2. [cur EXCEPT ![t] = IdleThread]
              \in [Threads -> [peer : Peers \cup {None}, req : Reqs \cup {None}]]
        BY <4>1, <1>i
      <4> QED BY <3>1, <4>1, <4>2
    <3>3. UNCHANGED <<seqVars, unexpected_frags, recvVars, req>>
      BY <3>1
    <3> QED BY <1>0, <3>2, <3>3 DEF RecvTypeOK, seqVars, recvVars
  <2>3. ThreadOK'
    BY <1>0, <1>10 DEF AddCommBegin, AddCommEnd, RecvTypeOK, ThreadOK
  <2> QED BY <2>1, <2>2, <2>3
<1>11. ASSUME NEW t \in Threads, AddCommDrain(t)
       PROVE  CommTypeOK' /\ RecvTypeOK' /\ ThreadOK'
  <2>1. PICK p \in Peers :
          /\ head_is_expected(frags_cant_match[p], expected_sequence[p])
          /\ advance(p)
          /\ to_unexpected(frags_cant_match[p][1][1])
    BY <1>11 DEF AddCommDrain
  <2>2. UNCHANGED <<netVars, commVars, recvVars, countVars, req, pc, cur>>
    BY <1>11 DEF AddCommDrain
  <2>3. expected_sequence' \in [Peers -> 0 .. SeqMod - 1]
    BY <1>a, <2>1
  <2>4. frags_cant_match[p][1][1] \in Frags
    BY ZenonT(60), <2>1, HeadOfList
  <2>5. unexpected_frags' \in [Peers -> Seq(Frags)] /\ log' \in [Peers -> Seq(Nat)]
    BY <1>u, <2>1, <2>4
  <2>6. CommTypeOK'
    BY <1>0, <2>2, <2>3 DEF CommTypeOK, netVars, commVars, countVars
  <2>7. RecvTypeOK' /\ ThreadOK'
    BY Zenon, <1>0, <2>2, <2>5 DEF RecvTypeOK, ThreadOK, recvVars
  <2> QED BY <2>6, <2>7
<1>12. ASSUME NEW t \in Threads, AddCommFrag(t)
       PROVE  CommTypeOK' /\ RecvTypeOK' /\ ThreadOK'
  <2> DEFINE pend == non_existing_communicator_pending
             f == Head(pend)
  <2>1. f \in Frags /\ Tail(pend) \in Seq(Frags) /\ pend' = Tail(pend)
    BY <1>0, <1>12 DEF AddCommFrag, CommTypeOK
  <2>2. f.src \in Peers
    BY <2>1 DEF Frags
  <2>3. UNCHANGED <<netVars, comm_state, recvVars, countVars, req, pc>>
    BY <1>12 DEF AddCommFrag
  <2>4. /\ expected_sequence' \in [Peers -> 0 .. SeqMod - 1]
        /\ unexpected_frags' \in [Peers -> Seq(Frags)]
        /\ log' \in [Peers -> Seq(Nat)]
        /\ cur' \in [Threads -> [peer : Peers \cup {None}, req : Reqs \cup {None}]]
        /\ \A u \in Threads : u # t => cur'[u] = cur[u]
        /\ cur'[t].req = cur[t].req
    <3>1. CASE InSequence(f)
      <4>1. /\ to_unexpected(f)
            /\ advance(f.src) \/ UNCHANGED expected_sequence
            /\ \E x \in Peers \cup {None} : cur' = [cur EXCEPT ![t].peer = x]
        BY <1>12, <2>2, <3>1 DEF AddCommFrag
      <4> HIDE DEF f
      <4>2. cur' \in [Threads -> [peer : Peers \cup {None}, req : Reqs \cup {None}]]
        <5>1. cur \in [Threads -> [peer : Peers \cup {None}, req : Reqs \cup {None}]]
          BY <1>0 DEF RecvTypeOK
        <5> QED BY <4>1, <5>1, SetCur
      <4>3. (\A u \in Threads : u # t => cur'[u] = cur[u]) /\ cur'[t].req = cur[t].req
        BY <1>0, <4>1 DEF RecvTypeOK
      <4>4. expected_sequence' \in [Peers -> 0 .. SeqMod - 1]
        BY <1>0, <1>a, <2>2, <4>1 DEF CommTypeOK
      <4> QED BY Zenon, <1>u, <2>1, <4>1, <4>2, <4>3, <4>4
    <3>2. CASE ~InSequence(f)
      <4>1. /\ UNCHANGED <<expected_sequence, log, unexpected_frags>>
            /\ cur' = [cur EXCEPT ![t].peer = None]
        BY <1>12, <3>2 DEF AddCommFrag
      <4> QED BY ZenonT(60), <1>0, <4>1 DEF RecvTypeOK, CommTypeOK
    <3> QED BY <3>1, <3>2
  <2>5. CommTypeOK'
    BY Zenon, <1>0, <2>1, <2>3, <2>4 DEF CommTypeOK, netVars, countVars
  <2>6. RecvTypeOK'
    BY <1>0, <2>3, <2>4 DEF RecvTypeOK, recvVars
  <2>7. pc[t] = "add_comm"
    BY <1>12 DEF AddCommFrag
  <2>8. ThreadOK'
    BY ZenonT(60), <2>3, <2>4, <2>7 DEF ThreadOK
  <2> QED BY <2>5, <2>6, <2>8
<1>13. ASSUME NEW t \in Threads, NEW r \in Reqs, NEW want \in Wanted,
              StartNoMatch(t, r, want)
       PROVE  CommTypeOK' /\ RecvTypeOK' /\ ThreadOK'
  <2>1. CommTypeOK'
    BY <1>0, <1>13 DEF StartNoMatch, start_common, CommTypeOK, netVars, commVars, seqVars
  <2>2. \E s \in {"posted", "nothing"} :
          req' = [req EXCEPT ![r] = [state |-> s, want |-> want,
                                     seq |-> recv_sequence, frag |-> None]]
    BY ZenonT(60), <1>13 DEF StartNoMatch
  <2>3. req' \in [Reqs -> ReqRecords]
    BY <1>0, <2>2 DEF RecvTypeOK, CommTypeOK, ReqRecords
  <2>4. specific_receives' \in [Peers -> SUBSET Reqs] /\ wild_receives' \in SUBSET Reqs
    BY ZenonT(60), <1>0, <1>13 DEF StartNoMatch, RecvTypeOK
  <2>5. UNCHANGED <<seqVars, unexpected_frags, pc, cur>>
    BY <1>13 DEF StartNoMatch
  <2>6. RecvTypeOK' /\ ThreadOK'
    BY <1>0, <2>3, <2>4, <2>5 DEF RecvTypeOK, ThreadOK, seqVars
  <2> QED BY <2>1, <2>6
<1>14. ASSUME NEW t \in Threads, NEW r \in Reqs, NEW want \in Wanted,
              StartMatch(t, r, want)
       PROVE  CommTypeOK' /\ RecvTypeOK' /\ ThreadOK'
  <2> DEFINE p == matching_peer(want)
             i == recv_req_match_specific_proc(want, p)
             f == unexpected_frags[p][i]
  <2>1. p # None
    BY <1>14 DEF StartMatch
  <2>2. p \in Peers /\ i \in 1 .. Len(unexpected_frags[p])
    BY <2>1, MatchingPeer, SpecificProc
  <2>3. f \in Frags
    BY <1>0, <2>2 DEF RecvTypeOK
  <2>4. CommTypeOK'
    BY <1>0, <1>14, <2>2 DEF StartMatch, start_common, CommTypeOK, netVars, commVars, seqVars
  <2>5. \E s \in {"taken", "probed"}, g \in {f, None} :
          req' = [req EXCEPT ![r] = [state |-> s, want |-> want,
                                     seq |-> recv_sequence, frag |-> g]]
    BY ZenonT(60), <1>14 DEF StartMatch
  <2>6. req' \in [Reqs -> ReqRecords]
    <3> HIDE DEF f
    <3> QED BY <1>0, <2>3, <2>5 DEF RecvTypeOK, CommTypeOK, ReqRecords
  <2>7. \/ UNCHANGED unexpected_frags
        \/ remove_unexpected(p, i)
    BY <1>14 DEF StartMatch
  <2>8. unexpected_frags' \in [Peers -> Seq(Frags)]
    <3> HIDE DEF p, i
    <3>1. \A x \in Peers : unexpected_frags[x] \in Seq(Frags)
      BY <1>0 DEF RecvTypeOK
    <3>2. SubSeq(unexpected_frags[p], 1, i - 1)
            \o SubSeq(unexpected_frags[p], i + 1, Len(unexpected_frags[p])) \in Seq(Frags)
      BY <2>2, <3>1
    <3> QED BY ZenonT(60), <1>0, <2>2, <2>7, <3>2 DEF RecvTypeOK, remove_unexpected
  <2>9. \/ UNCHANGED <<pc, cur>>
        \/ /\ pc' = [pc EXCEPT ![t] = "start"]
           /\ cur' = [cur EXCEPT ![t].req = r]
    BY <1>14 DEF StartMatch
  <2>10. UNCHANGED <<seqVars, recvVars>>
    BY <1>14 DEF StartMatch
  <2>11. RecvTypeOK'
    <3> HIDE DEF p, i, f
    <3>1. pc' \in [Threads ->
                {"idle", "start", "progress", "check", "relock", "add_comm"}]
      <4>1. pc' = pc \/ pc' = [pc EXCEPT ![t] = "start"]
        BY <2>9
      <4> QED BY Zenon, <1>0, <4>1 DEF RecvTypeOK
    <3>2. cur' \in [Threads -> [peer : Peers \cup {None}, req : Reqs \cup {None}]]
      <4>1. cur' = cur \/ cur' = [cur EXCEPT ![t].req = r]
        BY <2>9
      <4>2. cur \in [Threads -> [peer : Peers \cup {None}, req : Reqs \cup {None}]]
        BY <1>0 DEF RecvTypeOK
      <4> QED BY <4>1, <4>2, SetCur
    <3>3. /\ log' = log
          /\ specific_receives' = specific_receives
          /\ wild_receives' = wild_receives
      BY <2>10 DEF seqVars, recvVars
    <3> QED BY Zenon, <1>0, <2>6, <2>8, <3>1, <3>2, <3>3 DEF RecvTypeOK
  <2>12. ThreadOK'
    BY <1>0, <2>9 DEF RecvTypeOK, ThreadOK
  <2> QED BY <2>4, <2>11, <2>12
<1>15. ASSUME NEW t \in Threads, NEW r \in Reqs, Mrecv(t, r) \/ Cancel(t, r)
       PROVE  CommTypeOK' /\ RecvTypeOK' /\ ThreadOK'
  <2>1. UNCHANGED <<netVars, commVars, seqVars, unexpected_frags, countVars, pc, cur>>
    BY <1>15 DEF Mrecv, Cancel
  <2>2. \E s \in {"matched", "cancelled"} : req' = [req EXCEPT ![r].state = s]
    BY <1>15 DEF Mrecv, Cancel
  <2>3. req' \in [Reqs -> ReqRecords]
    <3>1. req \in [Reqs -> ReqRecords]
      BY <1>0 DEF RecvTypeOK
    <3>2. /\ [req EXCEPT ![r].state = "matched"] \in [Reqs -> ReqRecords]
          /\ [req EXCEPT ![r].state = "cancelled"] \in [Reqs -> ReqRecords]
      BY ZenonT(60), <3>1, SetState
    <3> QED BY <2>2, <3>2
  <2>4. specific_receives' \in [Peers -> SUBSET Reqs] /\ wild_receives' \in SUBSET Reqs
    <3>1. \/ UNCHANGED <<specific_receives, wild_receives>>
          \/ UNCHANGED specific_receives /\ wild_receives' = wild_receives \ {r}
          \/ /\ specific_receives' =
                   [specific_receives EXCEPT ![req[r].want.peer] = @ \ {r}]
             /\ UNCHANGED wild_receives
      BY <1>15 DEF Mrecv, Cancel, recvVars
    <3> QED BY <1>0, <3>1 DEF RecvTypeOK
  <2>5. CommTypeOK'
    BY <1>0, <2>1 DEF CommTypeOK, netVars, commVars, seqVars, countVars
  <2>6. RecvTypeOK' /\ ThreadOK'
    BY ZenonT(60), <1>0, <2>1, <2>3, <2>4 DEF RecvTypeOK, ThreadOK, seqVars
  <2> QED BY <2>5, <2>6
<1>16. ASSUME UNCHANGED vars
       PROVE  CommTypeOK' /\ RecvTypeOK' /\ ThreadOK'
  BY <1>0, <1>16 DEF vars, netVars, commVars, seqVars, recvVars, countVars,
                     CommTypeOK, RecvTypeOK, ThreadOK
<1>17. FreeReq \subseteq Reqs
  BY DEF FreeReq
<1> QED
  BY Zenon, <1>1, <1>2, <1>3, <1>4, <1>5, <1>6, <1>7, <1>8, <1>9, <1>10, <1>11,
     <1>12, <1>13, <1>14, <1>15, <1>16, <1>17
  DEF Next, Arrive, Continue, AddComm, Post

------------------------------------------------------------------------------
(* What the steps do to the three places a fragment in transit can be in.  *)

\* The list of one peer gains f.
LEMMA ListGains ==
  ASSUME Least, TypeOK, PlaceOK, NEW f \in Frags, ~On(frags_cant_match[f.src], f),
         NEW e,
         frags_cant_match' = [frags_cant_match EXCEPT ![f.src] =
            append_frag_to_ordered_list(@, f, e)]
  PROVE  /\ \A p \in Peers : WellFormed(frags_cant_match'[p], Frags)
         /\ \A p \in Peers, x \in Frags : On(frags_cant_match'[p], x) <=>
              On(frags_cant_match[p], x) \/ (p = f.src /\ x = f)
<1> DEFINE r == append_frag_to_ordered_list(frags_cant_match[f.src], f, e)
<1>1. f.src \in Peers
  BY DEF Frags
<1>2. WellFormed(frags_cant_match[f.src], Frags)
  BY <1>1 DEF PlaceOK
<1>3. /\ WellFormed(r, Frags)
      /\ \A x : On(r, x) <=> On(frags_cant_match[f.src], x) \/ x = f
  BY <1>2, FragsNumbered, AppendTo
<1>4. \A p \in Peers : frags_cant_match'[p] =
        IF p = f.src THEN r ELSE frags_cant_match[p]
  BY <1>1 DEF TypeOK
<1> HIDE DEF r
<1>5. ASSUME NEW p \in Peers
      PROVE  /\ WellFormed(frags_cant_match'[p], Frags)
             /\ \A x : On(frags_cant_match'[p], x) <=>
                  On(frags_cant_match[p], x) \/ (p = f.src /\ x = f)
  <2>1. CASE p = f.src
    BY Zenon, <1>3, <1>4, <2>1
  <2>2. CASE p # f.src
    <3>1. frags_cant_match'[p] = frags_cant_match[p]
      BY <1>4, <2>2
    <3> QED BY <2>2, <3>1 DEF PlaceOK
  <2> QED BY <2>1, <2>2
<1> QED BY <1>5

\* The list of one peer loses its head.
LEMMA ListLoses ==
  ASSUME TypeOK, PlaceOK, NEW y \in Peers, frags_cant_match[y] # << >>,
         frags_cant_match' = [frags_cant_match EXCEPT ![y] =
            remove_head_from_ordered_list(frags_cant_match[y])]
  PROVE  /\ \A p \in Peers : WellFormed(frags_cant_match'[p], Frags)
         /\ \A p \in Peers, x \in Frags : On(frags_cant_match'[p], x) <=>
              On(frags_cant_match[p], x)
              /\ (p # y \/ x # frags_cant_match[y][1][1])
<1> DEFINE q == frags_cant_match[y]
           r == remove_head_from_ordered_list(q)
<1>2. WellFormed(q, Frags)
  BY DEF PlaceOK
<1>3. WellFormed(r, Frags) /\ \A x : On(r, x) <=> On(q, x) /\ x # q[1][1]
  BY <1>2, FragsNumbered, RemoveHeadRemoves
<1>4. \A p \in Peers : frags_cant_match'[p] =
        IF p = y THEN r ELSE frags_cant_match[p]
  BY DEF TypeOK
<1> HIDE DEF r
<1>5. ASSUME NEW p \in Peers
      PROVE  /\ WellFormed(frags_cant_match'[p], Frags)
             /\ \A x : On(frags_cant_match'[p], x) <=>
                  On(frags_cant_match[p], x) /\ (p # y \/ x # q[1][1])
  <2>1. CASE p = y
    BY <1>3, <1>4, <2>1
  <2>2. CASE p # y
    <3>1. frags_cant_match'[p] = frags_cant_match[p]
      BY <1>4, <2>2
    <3> QED BY <2>2, <3>1 DEF PlaceOK
  <2> QED BY <2>1, <2>2
<1> QED BY <1>5

\* The fragments of the unknown communicator gain one at the end.
LEMMA PendingGains ==
  ASSUME TypeOK, PlaceOK, NEW f \in Frags, ~Pending(f),
         non_existing_communicator_pending' =
           Append(non_existing_communicator_pending, f)
  PROVE  /\ \A x \in Frags : Pending(x)' <=> Pending(x) \/ x = f
         /\ \A i, j \in 1 .. Len(non_existing_communicator_pending') :
              non_existing_communicator_pending'[i] =
                non_existing_communicator_pending'[j] => i = j
<1> DEFINE s == non_existing_communicator_pending
           s2 == non_existing_communicator_pending'
<1>0. s \in Seq(Frags) /\ Len(s) \in Nat
  BY DEF TypeOK
<1>1. /\ Len(s2) = Len(s) + 1 /\ s2[Len(s) + 1] = f
      /\ \A i \in 1 .. Len(s) : s2[i] = s[i]
  BY <1>0
<1>2. \A i \in 1 .. Len(s2) : i \in 1 .. Len(s) \/ i = Len(s) + 1
  BY <1>0, <1>1
<1>3. \A i \in 1 .. Len(s) : i \in 1 .. Len(s2) /\ s[i] # f
  BY <1>0, <1>1 DEF Pending
<1>4. Len(s) + 1 \in 1 .. Len(s2)
  BY <1>0, <1>1
<1>5. \A i, j \in 1 .. Len(s) : s[i] = s[j] => i = j
  BY DEF PlaceOK
<1>6. \A x \in Frags : (\E i \in 1 .. Len(s2) : x = s2[i])
                      <=> (\E i \in 1 .. Len(s) : x = s[i]) \/ x = f
  <2> HIDE DEF s, s2
  <2> QED BY <1>1, <1>2, <1>3, <1>4
<1>7. \A i, j \in 1 .. Len(s2) : s2[i] = s2[j] => i = j
  <2> HIDE DEF s, s2
  <2> QED BY <1>1, <1>2, <1>3, <1>5
<1> QED BY <1>6, <1>7 DEF Pending

\* They lose the first one.
LEMMA PendingLoses ==
  ASSUME TypeOK, PlaceOK, non_existing_communicator_pending # << >>,
         non_existing_communicator_pending' =
           Tail(non_existing_communicator_pending)
  PROVE  /\ Head(non_existing_communicator_pending) \in Frags
         /\ Pending(Head(non_existing_communicator_pending))
         /\ \A x \in Frags : Pending(x)' <=>
              Pending(x) /\ x # Head(non_existing_communicator_pending)
         /\ \A i, j \in 1 .. Len(non_existing_communicator_pending') :
              non_existing_communicator_pending'[i] =
                non_existing_communicator_pending'[j] => i = j
<1> DEFINE s == non_existing_communicator_pending
           s2 == non_existing_communicator_pending'
           f == Head(s)
<1>0. s \in Seq(Frags) /\ Len(s) \in Nat /\ Len(s) >= 1
  BY EmptySequence DEF TypeOK
<1>1. /\ Len(s2) = Len(s) - 1 /\ s[1] = f /\ f \in Frags
      /\ \A i \in 1 .. Len(s2) : s2[i] = s[i + 1]
  BY <1>0
<1>2. \A i \in 1 .. Len(s2) : i \in Int /\ i + 1 \in 1 .. Len(s) /\ i + 1 # 1
  BY <1>0, <1>1
<1>3. \A i \in 1 .. Len(s) : i = 1 \/ (i - 1 \in 1 .. Len(s2) /\ s2[i - 1] = s[i])
  BY <1>0, <1>1
<1>4. 1 \in 1 .. Len(s)
  BY <1>0
<1>5. \A i, j \in 1 .. Len(s) : s[i] = s[j] => i = j
  BY DEF PlaceOK
<1>6. \A x \in Frags : (\E i \in 1 .. Len(s2) : x = s2[i])
                      <=> (\E i \in 1 .. Len(s) : x = s[i]) /\ x # f
  <2> HIDE DEF s, s2, f
  <2>1. ASSUME NEW i \in 1 .. Len(s2)
        PROVE  (\E j \in 1 .. Len(s) : s2[i] = s[j]) /\ s2[i] # f
    BY <1>1, <1>2, <1>4, <1>5
  <2>2. ASSUME NEW i \in 1 .. Len(s), s[i] # f
        PROVE  \E j \in 1 .. Len(s2) : s[i] = s2[j]
    <3>1. i # 1
      BY <1>1, <1>3, <2>2
    <3>2. i - 1 \in 1 .. Len(s2) /\ s2[i - 1] = s[i]
      BY <1>1, <1>3, <3>1
    <3> QED BY <3>2
  <2>3. ASSUME NEW x, NEW i \in 1 .. Len(s2), x = s2[i]
        PROVE  (\E j \in 1 .. Len(s) : x = s[j]) /\ x # f
    BY Zenon, <2>1, <2>3
  <2>4. ASSUME NEW x, x # f, NEW i \in 1 .. Len(s), x = s[i]
        PROVE  \E j \in 1 .. Len(s2) : x = s2[j]
    BY Zenon, <2>2, <2>4
  <2> QED BY ZenonT(60), <2>3, <2>4
<1>7. \A i, j \in 1 .. Len(s2) : s2[i] = s2[j] => i = j
  <2> HIDE DEF s, s2, f
  <2>1. ASSUME NEW i \in 1 .. Len(s2), NEW j \in 1 .. Len(s2), s2[i] = s2[j]
        PROVE  i = j
    <3>1. i + 1 = j + 1
      BY <1>1, <1>2, <1>5, <2>1
    <3> QED BY <1>2, <3>1
  <2> QED BY <2>1
<1>8. \E i \in 1 .. Len(s) : f = s[i]
  BY <1>1, <1>4
<1> QED BY <1>1, <1>6, <1>7, <1>8 DEF Pending

\* Every action keeps fragments in one place, and sends, moves or consumes.
Effect ==
  Moved \/ (\E f \in Frags : Consumed(f)) \/ (\E p \in Peers : \E e \in Envelopes : Sent(p, e))

\* Steps that touch none of the places.
LEMMA SamePlace ==
  ASSUME IInv, UNCHANGED <<netVars, non_existing_communicator_pending, seqVars>>
  PROVE  PlaceOK' /\ Moved
<1>1. \A g \in Frags : Moving(g)' <=> Moving(g)
  BY DEF Moving, Pending, netVars, seqVars
<1>2. PlaceOK'
  BY DEF IInv, PlaceOK, Pending, netVars, seqVars
<1>3. Moved
  BY <1>1 DEF Moved, netVars, seqVars
<1> QED BY <1>2, <1>3

\* A step that takes f off the network.
LEMMA NetLoses ==
  ASSUME TypeOK, PlaceOK, NEW p \in Peers, NEW f \in net[p], take_from_net(f)
  PROVE  /\ f \in Frags /\ f.src = p
         /\ \A y \in Peers, x \in Frags : x \in net'[y] <=> x \in net[y] /\ x # f
         /\ \A y \in Peers : \A x \in net'[y] : x \in Frags /\ x.src = y
<1>1. f \in Frags /\ f.src = p
  BY DEF TypeOK, PlaceOK
<1>2. \A y \in Peers : net'[y] = IF y = p THEN net[y] \ {f} ELSE net[y]
  BY Zenon, <1>1 DEF take_from_net, TypeOK
<1>3. \A y \in Peers : net[y] \subseteq Frags /\ \A x \in net[y] : x.src = y
  <2>1. net \in [Peers -> SUBSET Frags]
    BY DEF TypeOK
  <2>2. \A y \in Peers : \A x \in net[y] : x.src = y
    BY DEF PlaceOK
  <2> QED BY <2>1, <2>2
<1>4. ASSUME NEW y \in Peers, NEW x \in Frags
      PROVE  x \in net'[y] <=> x \in net[y] /\ x # f
  <2>1. CASE y = p
    BY Zenon, <1>2, <2>1
  <2>2. CASE y # p
    BY <1>1, <1>2, <1>3, <2>2
  <2> QED BY <2>1, <2>2
<1>5. ASSUME NEW y \in Peers, NEW x \in net'[y]
      PROVE  x \in Frags /\ x.src = y
  BY Zenon, <1>2, <1>3
<1> QED BY <1>1, <1>4, <1>5

\* A new fragment is on the network only.
LEMMA SendPlace ==
  ASSUME IInv, NEW p \in Peers, NEW e \in Envelopes, Send(p, e)
  PROVE  PlaceOK' /\ Sent(p, e) /\ NewFrag(p, e) \in Frags
<1> DEFINE f == [src |-> p, n |-> send_sequence[p] + 1, env |-> e]
<1>0. send_sequence[p] \in Nat
  BY DEF IInv, TypeOK
<1>1. f \in Frags /\ f.src = p /\ f.n = send_sequence[p] + 1
  BY <1>0 DEF Frags
<1>2. ~Moving(f)
  <2>1. Moving(f) => send_sequence[p] + 1 <= send_sequence[p]
    BY <1>1 DEF IInv, NumberOK
  <2> QED BY <1>0, <2>1
<1>3. /\ \A y \in Peers : net'[y] = IF y = p THEN net[y] \cup {f} ELSE net[y]
      /\ UNCHANGED <<non_existing_communicator_pending, frags_cant_match>>
      /\ UNCHANGED <<expected_sequence, log>>
      /\ send_sequence' = [send_sequence EXCEPT ![p] = @ + 1]
      /\ send_sequence[p] - Len(log[p]) < Window
  BY Zenon DEF IInv, TypeOK, Send, commVars, seqVars
<1>4. \A g \in Frags : Moving(g)' <=> Moving(g) \/ g = f
  <2> HIDE DEF f
  <2> QED BY ZenonT(60), <1>1, <1>3 DEF Moving, Pending, Frags
<1>5. Sent(p, e)
  BY <1>3, <1>4 DEF Sent, NewFrag
<1>6. PlaceOK'
  <2> HIDE DEF f
  <2>1. ASSUME NEW y \in Peers, NEW x \in net'[y] PROVE x.src = y
    <3>1. x \in net[y] \/ (y = p /\ x = f)
      BY ZenonT(60), <1>3
    <3>2. x \in net[y] => x.src = y
      BY Zenon DEF IInv, PlaceOK
    <3> QED BY <1>1, <3>1, <3>2
  <2>2. \A x \in Frags : x \in net'[x.src] => x \in net[x.src] \/ x = f
    BY ZenonT(60), <1>3 DEF Frags
  <2>3. /\ \A x \in Frags : ~(x \in net'[x.src] /\ On(frags_cant_match[x.src], x))
        /\ \A x \in Frags : ~(x \in net'[x.src] /\ Pending(x))
    BY Zenon, <1>2, <2>2 DEF IInv, PlaceOK, Moving
  <2> QED BY ZenonT(60), <1>3, <2>1, <2>3 DEF IInv, PlaceOK, Pending
<1> QED BY <1>1, <1>5, <1>6 DEF NewFrag

\* A fragment of an unknown communicator leaves the network for the list of
\* pending fragments.
LEMMA NoCommPlace ==
  ASSUME IInv, NEW t \in Threads, NEW p \in Peers, NEW f \in net[p],
         RecvFragNoComm(t, p, f)
  PROVE  PlaceOK' /\ Moved
<1>0. TypeOK /\ PlaceOK
  BY ZenonT(60) DEF IInv
<1>1. /\ f \in Frags /\ f.src = p
      /\ \A y \in Peers, x \in Frags : x \in net'[y] <=> x \in net[y] /\ x # f
      /\ \A y \in Peers : \A x \in net'[y] : x \in Frags /\ x.src = y
  BY <1>0, NetLoses DEF RecvFragNoComm
<1>2. ~Pending(f) /\ ~On(frags_cant_match[f.src], f)
  BY ZenonT(60), <1>0, <1>1 DEF PlaceOK
<1>3. /\ \A x \in Frags : Pending(x)' <=> Pending(x) \/ x = f
      /\ \A i, j \in 1 .. Len(non_existing_communicator_pending') :
           non_existing_communicator_pending'[i] =
             non_existing_communicator_pending'[j] => i = j
  BY ZenonT(60), <1>0, <1>1, <1>2, PendingGains DEF RecvFragNoComm
<1>4. UNCHANGED <<send_sequence, expected_sequence, frags_cant_match, log>>
  BY DEF RecvFragNoComm, seqVars
<1>5. \A x \in Frags : x.src \in Peers
  BY DEF Frags
<1>6. Moved
  BY ZenonT(60), <1>1, <1>3, <1>4, <1>5 DEF Moved, Moving
<1>7. PlaceOK'
  BY ZenonT(60), <1>0, <1>1, <1>2, <1>3, <1>4, <1>5 DEF PlaceOK
<1> QED BY <1>6, <1>7

\* A fragment out of sequence leaves the network for the list of its peer.
LEMMA OutOfSequencePlace ==
  ASSUME Least, IInv, NEW t \in Threads, NEW p \in Peers, NEW f \in net[p],
         RecvFragOutOfSequence(t, p, f)
  PROVE  PlaceOK' /\ Moved
<1>0. TypeOK /\ PlaceOK
  BY DEF IInv
<1>1. /\ f \in Frags /\ f.src = p
      /\ \A y \in Peers, x \in Frags : x \in net'[y] <=> x \in net[y] /\ x # f
      /\ \A y \in Peers : \A x \in net'[y] : x \in Frags /\ x.src = y
  BY Zenon, <1>0, NetLoses DEF RecvFragOutOfSequence
<1>2. ~Pending(f) /\ ~On(frags_cant_match[f.src], f)
  BY <1>0, <1>1 DEF PlaceOK
<1>3. frags_cant_match' = [frags_cant_match EXCEPT ![f.src] =
        append_frag_to_ordered_list(@, f, expected_sequence[p])]
  BY ZenonT(60), <1>1 DEF RecvFragOutOfSequence
<1>4. /\ \A y \in Peers : WellFormed(frags_cant_match'[y], Frags)
      /\ \A y \in Peers, x \in Frags : On(frags_cant_match'[y], x) <=>
           On(frags_cant_match[y], x) \/ (y = f.src /\ x = f)
  BY Zenon, <1>0, <1>1, <1>2, <1>3, ListGains
<1>5. UNCHANGED <<send_sequence, expected_sequence, log,
                  non_existing_communicator_pending>>
  BY Zenon DEF RecvFragOutOfSequence, commVars
<1>6. \A x \in Frags : x.src \in Peers /\ (Pending(x)' <=> Pending(x))
  BY <1>5 DEF Frags, Pending
<1>7. Moved
  BY ZenonT(60), <1>1, <1>4, <1>5, <1>6 DEF Moved, Moving
<1>8. PlaceOK'
  <2>1. /\ \A y \in Peers : WellFormed(frags_cant_match'[y], Frags)
        /\ \A y \in Peers : \A x \in net'[y] : x.src = y
    BY Zenon, <1>1, <1>4
  <2>2. \A y \in Peers : \A x \in Frags : On(frags_cant_match'[y], x) => x.src = y
    BY ZenonT(60), <1>0, <1>4 DEF PlaceOK
  <2>3. \A x \in Frags : ~(x \in net'[x.src] /\ On(frags_cant_match'[x.src], x))
    BY ZenonT(60), <1>0, <1>1, <1>4, <1>6 DEF PlaceOK
  <2>4. \A x \in Frags : ~(x \in net'[x.src] /\ Pending(x)')
    BY ZenonT(60), <1>0, <1>1, <1>6 DEF PlaceOK
  <2>5. \A x \in Frags : ~(On(frags_cant_match'[x.src], x) /\ Pending(x)')
    BY ZenonT(60), <1>0, <1>2, <1>4, <1>6 DEF PlaceOK
  <2>6. \A i, j \in 1 .. Len(non_existing_communicator_pending') :
          non_existing_communicator_pending'[i] =
            non_existing_communicator_pending'[j] => i = j
    BY ZenonT(60), <1>0, <1>5 DEF PlaceOK
  <2> QED BY ZenonT(60), <2>1, <2>2, <2>3, <2>4, <2>5, <2>6 DEF PlaceOK
<1> QED BY <1>7, <1>8

\* A fragment in sequence leaves the network and is consumed.
LEMMA InSequencePlace ==
  ASSUME IInv, NEW t \in Threads, NEW p \in Peers, NEW f \in net[p],
         RecvFragInSequence(t, p, f)
  PROVE  PlaceOK' /\ Consumed(f)
<1>0. TypeOK /\ PlaceOK
  BY DEF IInv
<1>1. /\ f \in Frags /\ f.src = p
      /\ \A y \in Peers, x \in Frags : x \in net'[y] <=> x \in net[y] /\ x # f
      /\ \A y \in Peers : \A x \in net'[y] : x \in Frags /\ x.src = y
  BY <1>0, NetLoses DEF RecvFragInSequence
<1>2. ~Pending(f) /\ ~On(frags_cant_match[f.src], f) /\ Moving(f)
  BY ZenonT(60), <1>0, <1>1 DEF PlaceOK, Moving
<1>3. UNCHANGED <<send_sequence, frags_cant_match,
                  non_existing_communicator_pending>>
  BY DEF RecvFragInSequence, commVars
<1>4. log' = [log EXCEPT ![f.src] = Append(@, f.n)]
  BY ZenonT(60) DEF RecvFragInSequence, match_one
<1>5. ~AllowOvertake =>
        /\ hdr_seq(f) = expected_sequence[f.src]
        /\ expected_sequence' =
              [expected_sequence EXCEPT ![f.src] = (@ + 1) % SeqMod]
  BY <1>1 DEF RecvFragInSequence, InSequence, advance
<1>6. \A x \in Frags : x.src \in Peers /\ (Pending(x)' <=> Pending(x))
  BY <1>3 DEF Frags, Pending
<1>7. \A g \in Frags : Moving(g)' <=> Moving(g) /\ g # f
  BY ZenonT(60), <1>1, <1>2, <1>3, <1>6 DEF Moving
<1>8. Consumed(f)
  BY ZenonT(60), <1>2, <1>3, <1>4, <1>5, <1>7 DEF Consumed
<1>9. PlaceOK'
  BY ZenonT(60), <1>0, <1>1, <1>3, <1>6 DEF PlaceOK
<1> QED BY <1>8, <1>9

\* A fragment that arrives leaves the network for one other place, or is
\* consumed.
LEMMA ArrivePlace ==
  ASSUME Least, IInv, NEW t \in Threads, Arrive(t)
  PROVE  PlaceOK' /\ Effect
<1>1. ASSUME NEW p \in Peers, NEW f \in net[p], RecvFragInSequence(t, p, f)
      PROVE  PlaceOK' /\ Effect
  <2>1. f \in Frags
    BY Zenon, NetLoses, <1>1 DEF IInv, RecvFragInSequence
  <2> QED BY <1>1, <2>1, InSequencePlace DEF Effect
<1> QED BY ZenonT(60), <1>1, NoCommPlace, OutOfSequencePlace DEF Arrive, Effect

\* A step that consumes the head of the list of y.
LEMMA HeadPlace ==
  ASSUME IInv, NEW y \in Peers,
         head_is_expected(frags_cant_match[y], expected_sequence[y]),
         frags_cant_match' = [frags_cant_match EXCEPT ![y] =
            remove_head_from_ordered_list(frags_cant_match[y])],
         advance(y),
         UNCHANGED <<netVars, commVars>>,
         log' = [log EXCEPT ![frags_cant_match[y][1][1].src] =
                   Append(@, frags_cant_match[y][1][1].n)]
  PROVE  PlaceOK' /\ Consumed(frags_cant_match[y][1][1])
<1> DEFINE h == frags_cant_match[y][1][1]
<1>0. TypeOK /\ PlaceOK
  BY DEF IInv
<1>1. /\ h \in Frags /\ h.src = y /\ On(frags_cant_match[y], h)
      /\ hdr_seq(h) = expected_sequence[y]
      /\ frags_cant_match[y] # << >>
  BY ZenonT(60), <1>0, HeadOfList
<1>2. /\ \A p \in Peers : WellFormed(frags_cant_match'[p], Frags)
      /\ \A p \in Peers, x \in Frags : On(frags_cant_match'[p], x) <=>
           On(frags_cant_match[p], x) /\ (p # y \/ x # h)
  BY ZenonT(60), <1>0, <1>1, ListLoses
<1>3. UNCHANGED <<net, send_sequence, non_existing_communicator_pending>>
  BY ZenonT(60) DEF netVars, commVars
<1> HIDE DEF h
<1>4. \A x \in Frags : x.src \in Peers /\ (Pending(x)' <=> Pending(x))
  BY ZenonT(60), <1>3 DEF Frags, Pending
<1>5. Moving(h) /\ h \notin net[y] /\ ~Pending(h)
  BY ZenonT(60), <1>0, <1>1 DEF PlaceOK, Moving
<1>6. \A g \in Frags : Moving(g)' <=> Moving(g) /\ g # h
  BY ZenonT(60), <1>1, <1>2, <1>3, <1>4, <1>5 DEF Moving
<1>7. Consumed(h)
  <2>1. log' = [log EXCEPT ![h.src] = Append(@, h.n)]
    BY ZenonT(60) DEF h
  <2>2. /\ hdr_seq(h) = expected_sequence[h.src]
        /\ expected_sequence' =
             [expected_sequence EXCEPT ![h.src] = (@ + 1) % SeqMod]
    BY Zenon, <1>1 DEF advance
  <2> QED BY ZenonT(60), <1>3, <1>5, <1>6, <2>1, <2>2 DEF Consumed
<1>8. PlaceOK'
  BY ZenonT(60), <1>0, <1>2, <1>3, <1>4 DEF PlaceOK
<1> QED BY ZenonT(60), <1>7, <1>8 DEF h

\* mca_pml_ob1_add_comm consumes a stored fragment or moves it to the list.
LEMMA AddCommFragPlace ==
  ASSUME Least, IInv, NEW t \in Threads, AddCommFrag(t)
  PROVE  LET f == Head(non_existing_communicator_pending)
         IN  /\ f \in Frags
             /\ PlaceOK'
             /\ InSequence(f) => Consumed(f)
             /\ ~InSequence(f) => Moved
<1> DEFINE f == Head(non_existing_communicator_pending)
<1>0. TypeOK /\ PlaceOK
  BY DEF IInv
<1>1. /\ non_existing_communicator_pending # << >>
      /\ non_existing_communicator_pending' =
           Tail(non_existing_communicator_pending)
      /\ UNCHANGED <<net, send_sequence>>
  BY DEF AddCommFrag, netVars
<1>2. /\ f \in Frags /\ Pending(f)
      /\ \A x \in Frags : Pending(x)' <=> Pending(x) /\ x # f
      /\ \A i, j \in 1 .. Len(non_existing_communicator_pending') :
           non_existing_communicator_pending'[i] =
             non_existing_communicator_pending'[j] => i = j
  BY <1>0, <1>1, PendingLoses
<1>3. /\ f \notin net[f.src] /\ ~On(frags_cant_match[f.src], f) /\ Moving(f)
      /\ \A x \in Frags : x.src \in Peers
  BY Zenon, <1>0, <1>2 DEF PlaceOK, Moving, Frags
<1>4. CASE InSequence(f)
  <2>1. /\ log' = [log EXCEPT ![f.src] = Append(@, f.n)]
        /\ UNCHANGED frags_cant_match
        /\ ~AllowOvertake => /\ hdr_seq(f) = expected_sequence[f.src]
                             /\ advance(f.src)
    BY <1>4 DEF AddCommFrag, to_unexpected, InSequence
  <2> HIDE DEF f
  <2>2. \A g \in Frags : Moving(g)' <=> Moving(g) /\ g # f
    BY ZenonT(60), <1>1, <1>2, <1>3, <2>1 DEF Moving
  <2>3. Consumed(f)
    BY <1>1, <1>3, <2>1, <2>2 DEF Consumed, advance
  <2>4. PlaceOK'
    BY ZenonT(60), <1>0, <1>1, <1>2, <2>1 DEF PlaceOK
  <2> QED BY ZenonT(60), <1>2, <1>4, <2>3, <2>4 DEF f
<1>5. CASE ~InSequence(f)
  <2>1. /\ frags_cant_match' = [frags_cant_match EXCEPT ![f.src] =
             append_frag_to_ordered_list(@, f, expected_sequence[f.src])]
        /\ UNCHANGED <<expected_sequence, log>>
    BY <1>5 DEF AddCommFrag
  <2> HIDE DEF f
  <2>2. /\ \A y \in Peers : WellFormed(frags_cant_match'[y], Frags)
        /\ \A y \in Peers, x \in Frags : On(frags_cant_match'[y], x) <=>
             On(frags_cant_match[y], x) \/ (y = f.src /\ x = f)
    BY ZenonT(60), <1>0, <1>2, <1>3, <2>1, ListGains
  <2>3. Moved
    BY <1>1, <1>2, <1>3, <2>1, <2>2 DEF Moved, Moving
  <2>4. PlaceOK'
    BY Zenon, <1>0, <1>1, <1>2, <1>3, <2>2 DEF PlaceOK
  <2> QED BY <1>2, <1>5, <2>3, <2>4 DEF f
<1> QED BY <1>4, <1>5

\* check_cantmatch_for_match consumes the head of the list.
LEMMA RelockPlace ==
  ASSUME IInv, NEW t \in Threads, RelockMatch(t)
  PROVE  LET h == frags_cant_match[cur[t].peer][1][1]
         IN  h \in Frags /\ PlaceOK' /\ Consumed(h)
<1> DEFINE y == cur[t].peer
<1>1. y \in Peers
  BY ZenonT(60) DEF RelockMatch, IInv, ThreadOK
<1>2. /\ head_is_expected(frags_cant_match[y], expected_sequence[y])
      /\ frags_cant_match' = [frags_cant_match EXCEPT ![y] =
           remove_head_from_ordered_list(frags_cant_match[y])]
      /\ advance(y)
      /\ UNCHANGED <<netVars, commVars>>
      /\ match_one(t, frags_cant_match[y][1][1])
  BY DEF RelockMatch
<1>3. log' = [log EXCEPT ![frags_cant_match[y][1][1].src] =
                Append(@, frags_cant_match[y][1][1].n)]
  BY Zenon, <1>2 DEF match_one
<1> HIDE DEF y
<1>4. PlaceOK' /\ Consumed(frags_cant_match[y][1][1])
  BY ZenonT(60), <1>1, <1>2, <1>3, HeadPlace
<1>5. frags_cant_match[y][1][1] \in Frags
  BY ZenonT(60), <1>1, <1>2, HeadOfList DEF IInv
<1> QED BY Zenon, <1>4, <1>5 DEF y

\* mca_pml_ob1_add_comm drains a list through its head.
LEMMA DrainPlace ==
  ASSUME IInv, NEW t \in Threads, AddCommDrain(t)
  PROVE  \E h \in Frags :
           PlaceOK' /\ Consumed(h) /\ to_unexpected(h)
<1>1. PICK y \in Peers :
        /\ head_is_expected(frags_cant_match[y], expected_sequence[y])
        /\ frags_cant_match' = [frags_cant_match EXCEPT ![y] =
             remove_head_from_ordered_list(frags_cant_match[y])]
        /\ advance(y)
        /\ to_unexpected(frags_cant_match[y][1][1])
        /\ UNCHANGED <<netVars, commVars>>
  BY Zenon DEF AddCommDrain
<1>2. log' = [log EXCEPT ![frags_cant_match[y][1][1].src] =
                Append(@, frags_cant_match[y][1][1].n)]
  BY Zenon, <1>1 DEF to_unexpected
<1>3. PlaceOK' /\ Consumed(frags_cant_match[y][1][1])
  BY ZenonT(60), <1>1, <1>2, HeadPlace
<1>4. frags_cant_match[y][1][1] \in Frags
  BY ZenonT(60), <1>1, HeadOfList DEF IInv
<1> QED BY Zenon, <1>1, <1>3, <1>4

\* The steps of a thread outside the lock, and those that post, touch none
\* of the places.
LEMMA QuietPlace ==
  ASSUME IInv, NEW t \in Threads,
         \/ Progress(t) \/ CheckCantMatch(t) \/ RelockNothing(t)
         \/ StartProgress(t) \/ AddCommBegin(t) \/ AddCommEnd(t) \/ Post(t)
  PROVE  PlaceOK' /\ Moved
<1>1. CASE Progress(t) \/ CheckCantMatch(t) \/ RelockNothing(t) \/ StartProgress(t)
  BY <1>1, SamePlace DEF Progress, CheckCantMatch, RelockNothing, StartProgress,
                         commVars
<1>2. CASE AddCommBegin(t) \/ AddCommEnd(t)
  BY <1>2, SamePlace DEF AddCommBegin, AddCommEnd
<1>3. CASE Post(t)
  <2>1. UNCHANGED <<netVars, commVars, seqVars>>
    BY Zenon, <1>3 DEF Post, StartNoMatch, StartMatch, Mrecv, Cancel
  <2> QED BY <2>1, SamePlace DEF commVars
<1> QED BY ZenonT(60), <1>1, <1>2, <1>3

\* Every step keeps the places and sends, moves or consumes.
LEMMA StepPlace ==
  ASSUME Least, IInv, [Next]_vars
  PROVE  PlaceOK' /\ Effect
<1>1. ASSUME NEW t \in Threads, Continue(t)
      PROVE  PlaceOK' /\ Effect
  BY <1>1, RelockPlace, QuietPlace DEF Continue, Effect
<1>2. ASSUME NEW t \in Threads, AddComm(t)
      PROVE  PlaceOK' /\ Effect
  BY <1>2, DrainPlace, QuietPlace, AddCommFragPlace DEF AddComm, Effect
<1>3. ASSUME NEW t \in Threads, Post(t)
      PROVE  PlaceOK' /\ Effect
  BY <1>3, QuietPlace DEF Effect
<1>4. ASSUME UNCHANGED vars PROVE PlaceOK' /\ Effect
  BY <1>4, SamePlace DEF vars, commVars, Effect
<1>5. ASSUME NEW p \in Peers, NEW e \in Envelopes, Send(p, e) PROVE PlaceOK' /\ Effect
  BY <1>5, SendPlace DEF Effect
<1> QED BY ZenonT(60), <1>1, <1>2, <1>3, <1>4, <1>5, ArrivePlace DEF Next

\* A step changes at most one entry of the array of lists.
LEMMA ListStep ==
  ASSUME [Next]_vars
  PROVE  \/ UNCHANGED frags_cant_match
         \/ \E y, r : frags_cant_match' = [frags_cant_match EXCEPT ![y] = r]
<1>1. ASSUME NEW t \in Threads, NEW p \in Peers, NEW f \in net[p],
             RecvFragOutOfSequence(t, p, f)
      PROVE  \E y, r : frags_cant_match' = [frags_cant_match EXCEPT ![y] = r]
  BY ZenonT(60), <1>1 DEF RecvFragOutOfSequence
<1>2. ASSUME NEW t \in Threads, RelockMatch(t)
      PROVE  \E y, r : frags_cant_match' = [frags_cant_match EXCEPT ![y] = r]
  BY Zenon, <1>2 DEF RelockMatch
<1>3. ASSUME NEW t \in Threads, AddCommDrain(t)
      PROVE  \E y, r : frags_cant_match' = [frags_cant_match EXCEPT ![y] = r]
  BY Zenon, <1>3 DEF AddCommDrain
<1>4. ASSUME NEW t \in Threads, AddCommFrag(t)
      PROVE  \/ UNCHANGED frags_cant_match
             \/ \E y, r : frags_cant_match' = [frags_cant_match EXCEPT ![y] = r]
  BY ZenonT(60), <1>4 DEF AddCommFrag
<1>5. ASSUME NEW t \in Threads,
             Progress(t) \/ CheckCantMatch(t) \/ RelockNothing(t)
             \/ StartProgress(t) \/ AddCommBegin(t) \/ AddCommEnd(t) \/ Post(t)
      PROVE  UNCHANGED frags_cant_match
  BY ZenonT(60), <1>5 DEF Progress, CheckCantMatch, RelockNothing, StartProgress, Post,
              AddCommBegin, AddCommEnd, StartNoMatch, StartMatch, Mrecv,
              Cancel, seqVars
<1>6. ASSUME NEW t \in Threads, NEW p \in Peers, NEW f \in net[p],
             RecvFragNoComm(t, p, f) \/ RecvFragInSequence(t, p, f)
      PROVE  UNCHANGED frags_cant_match
  BY <1>6 DEF RecvFragNoComm, RecvFragInSequence, seqVars
<1> QED
  BY ZenonT(60), <1>1, <1>2, <1>3, <1>4, <1>5, <1>6
  DEF Next, Arrive, Continue, AddComm, Send, vars, seqVars
------------------------------------------------------------------------------
(* Arithmetic of truncated sequence numbers.                               *)

\* Division with remainder.
LEMMA DivMod ==
  ASSUME NEW M \in Nat \ {0}, NEW a \in Nat
  PROVE  /\ a % M \in 0 .. (M - 1)
         /\ a \div M \in Int
         /\ a = (M * (a \div M)) + (a % M)
BY SMT

\* Two numbers less than M apart with the same truncation are equal.
LEMMA ModUnique ==
  ASSUME NEW M \in Nat \ {0}, NEW a \in Nat, NEW b \in Nat,
         a % M = b % M, b <= a, a < b + M
  PROVE  a = b
<1>1. PICK x \in Int, y \in Int :
        a = (M * x) + (a % M) /\ b = (M * y) + (a % M)
  BY Zenon, DivMod
<1>2. a - b = M * (x - y)
  BY <1>1, DivMod
<1>3. x - y < 1
  BY <1>2
<1>4. x - y > -1
  BY <1>2
<1> QED BY <1>2, <1>3, <1>4

\* Truncation after every increment is truncation at the end.
LEMMA ModIncrement ==
  ASSUME NEW M \in Nat \ {0}, NEW a \in Nat
  PROVE  ((a % M) + 1) % M = (a + 1) % M
<1> DEFINE q == a \div M
           r == a % M
           q2 == (a + 1) \div M
           r2 == (a + 1) % M
           q3 == (r + 1) \div M
           r3 == (r + 1) % M
<1>1. q \in Int /\ r \in 0 .. (M - 1) /\ a = (M * q) + r
  BY DivMod
<1>2. q2 \in Int /\ r2 \in 0 .. (M - 1) /\ a + 1 = (M * q2) + r2
  BY DivMod
<1>3. q3 \in Int /\ r3 \in 0 .. (M - 1) /\ r + 1 = (M * q3) + r3
  BY <1>1, DivMod
<1> HIDE DEF q, r, q2, r2, q3, r3
<1>4. r2 - r3 = M * ((q + q3) - q2)
  BY <1>1, <1>2, <1>3
<1>5. (q + q3) - q2 < 1 /\ (q + q3) - q2 > -1
  BY <1>1, <1>2, <1>3, <1>4
<1>6. (q + q3) - q2 = 0
  BY <1>1, <1>2, <1>3, <1>5
<1>7. r2 = r3
  BY <1>1, <1>2, <1>3, <1>4, <1>6
<1> QED BY <1>7 DEF r2, r3, r

------------------------------------------------------------------------------
(* The numbering of the messages.                                          *)

\* Sending keeps the numbering.
LEMMA SentOK ==
  ASSUME IInv, NEW p \in Peers, NEW e, Sent(p, e)
  PROVE  NumberOK' /\ SequenceOK' /\ LogBound' /\ InOrder'
<1>0. /\ send_sequence \in [Peers -> Nat]
      /\ \A x \in Peers : Len(log[x]) \in Nat
      /\ \A f \in Frags : f.src \in Peers /\ f.n \in Nat
      /\ Window \in Nat
  <2>1. TypeOK
    BY DEF IInv
  <2>2. send_sequence \in [Peers -> Nat] /\ log \in [Peers -> Seq(Nat)]
    BY <2>1 DEF TypeOK
  <2>3. \A x \in Peers : Len(log[x]) \in Nat
    BY <2>2
  <2>4. \A f \in Frags : f.src \in Peers /\ f.n \in Nat
    BY DEF Frags
  <2>5. Window \in Nat
    BY SeqModAssumption, BoundsAssumption
  <2> QED BY <2>2, <2>3, <2>4, <2>5
<1>1. \A g \in Frags : Moving(g)' => Moving(g) \/ g = NewFrag(p, e)
  BY DEF Sent
<1>2. \A x \in Peers : /\ send_sequence'[x] >= send_sequence[x]
                       /\ x # p => send_sequence'[x] = send_sequence[x]
                       /\ x = p => send_sequence'[x] = send_sequence[x] + 1
  BY <1>0 DEF Sent
<1>3. ASSUME NEW g \in Frags, Moving(g)'
      PROVE  \/ Moving(g) /\ g.n <= send_sequence[g.src]
             \/ /\ g = NewFrag(p, e)
                /\ g.src = p /\ g.n = send_sequence[p] + 1
  BY <1>1, <1>3 DEF IInv, NumberOK, NewFrag
<1>4. ASSUME NEW f \in Frags, NEW g \in Frags, Moving(f)', Moving(g)',
             f.src = g.src, f.n = g.n
      PROVE  f = g
  <2>1. CASE Moving(f) /\ Moving(g)
    BY Zenon, <1>4, <2>1 DEF IInv, NumberOK
  <2>2. CASE ~Moving(f) /\ ~Moving(g)
    BY <1>3, <1>4, <2>2
  <2>3. CASE Moving(f) /\ ~Moving(g)
    <3>1. f.n <= send_sequence[p] /\ f.n = send_sequence[p] + 1
      BY <1>3, <1>4, <2>3 DEF IInv, NumberOK
    <3> QED BY <1>0, <3>1
  <2>4. CASE ~Moving(f) /\ Moving(g)
    <3>1. g.n <= send_sequence[p] /\ g.n = send_sequence[p] + 1
      BY ZenonT(60), <1>3, <1>4, <2>4 DEF IInv, NumberOK
    <3> QED BY <1>0, <3>1
  <2> QED BY Zenon, <2>1, <2>2, <2>3, <2>4
<1>5. ASSUME NEW g \in Frags, Moving(g)' PROVE g.n <= send_sequence'[g.src]
  <2>1. PICK a \in Nat, b \in Nat : a = g.n /\ b = send_sequence[g.src]
    BY Zenon, <1>0
  <2>2. CASE Moving(g) /\ g.n <= send_sequence[g.src]
    <3>1. a <= b /\ (send_sequence'[g.src] = b \/ send_sequence'[g.src] = b + 1)
      BY Zenon, <1>0, <1>2, <2>1, <2>2
    <3> QED BY <2>1, <3>1
  <2>3. CASE g.src = p /\ g.n = send_sequence[p] + 1
    <3>1. a = send_sequence'[g.src]
      BY Zenon, <1>0, <1>2, <2>1, <2>3
    <3> QED BY <2>1, <3>1
  <2> QED BY Zenon, <1>3, <1>5, <2>2, <2>3
<1>6. NumberOK'
  BY <1>4, <1>5 DEF NumberOK
<1>7. SequenceOK'
  <2> SUFFICES ASSUME ~AllowOvertake PROVE SequenceOK'
    BY DEF SequenceOK
  <2>1. \A x \in Peers : expected_sequence'[x] = (Len(log'[x]) + 1) % SeqMod
    BY DEF Sent, IInv, SequenceOK
  <2>2. \A x \in Peers : send_sequence[x] <= Len(log[x]) + Window
    BY DEF IInv, SequenceOK
  <2>3. ASSUME NEW x \in Peers PROVE send_sequence'[x] <= Len(log'[x]) + Window
    BY <1>0, <1>2, <2>2 DEF Sent
  <2>4. ASSUME NEW g \in Frags, Moving(g)' PROVE Len(log'[g.src]) < g.n
    <3>1. CASE Moving(g)
      BY <3>1 DEF Sent, IInv, SequenceOK
    <3>2. CASE ~Moving(g)
      <4>1. g.src = p /\ g.n = send_sequence[p] + 1
        BY <1>3, <2>4, <3>2
      <4>2. Len(log[p]) <= send_sequence[p]
        BY DEF IInv, LogBound
      <4> QED BY <1>0, <4>1, <4>2 DEF Sent
    <3> QED BY <3>1, <3>2
  <2> QED BY <2>1, <2>3, <2>4 DEF SequenceOK
<1>8. InOrder'
  BY DEF Sent, IInv, InOrder
<1>9. LogBound'
  BY <1>0, <1>2 DEF Sent, IInv, LogBound
<1> QED BY <1>6, <1>7, <1>8, <1>9

\* A fragment that only changes place keeps the numbering.
LEMMA MovedOK ==
  ASSUME IInv, Moved
  PROVE  NumberOK' /\ SequenceOK' /\ LogBound' /\ InOrder'
<1>1. NumberOK'
  BY DEF Moved, IInv, NumberOK
<1>2. SequenceOK'
  BY DEF Moved, IInv, SequenceOK
<1>3. LogBound' /\ InOrder'
  BY DEF Moved, IInv, LogBound, InOrder
<1> QED BY Zenon, <1>1, <1>2, <1>3

\* The fragment whose header has the expected number is the next message:
\* fewer than SeqMod messages are in transit.
LEMMA ConsumedOK ==
  ASSUME IInv, NEW f \in Frags, Consumed(f)
  PROVE  NumberOK' /\ SequenceOK' /\ LogBound' /\ InOrder'
<1>0. /\ f.src \in Peers /\ f.n \in Nat
      /\ log \in [Peers -> Seq(Nat)]
      /\ send_sequence \in [Peers -> Nat]
      /\ expected_sequence \in [Peers -> 0 .. SeqMod - 1]
      /\ \A g \in Frags : g.src \in Peers /\ g.n \in Nat
      /\ \A x \in Peers : Len(log[x]) \in Nat /\ send_sequence[x] \in Nat
      /\ Window \in Nat /\ Window <= SeqMod
      /\ SeqMod \in Nat \ {0}
  <2>1. SeqMod \in Nat \ {0} /\ Window \in Nat /\ Window <= SeqMod
    BY SeqModAssumption, BoundsAssumption
  <2>2. /\ log \in [Peers -> Seq(Nat)]
        /\ send_sequence \in [Peers -> Nat]
        /\ expected_sequence \in [Peers -> 0 .. SeqMod - 1]
    BY DEF IInv, TypeOK
  <2>3. \A g \in Frags : g.src \in Peers /\ g.n \in Nat
    BY DEF Frags
  <2> QED BY <2>1, <2>2, <2>3
<1>1. NumberOK'
  BY DEF Consumed, IInv, NumberOK
<1>2. CASE AllowOvertake
  BY <1>1, <1>2 DEF SequenceOK, LogBound, InOrder
<1>3. CASE ~AllowOvertake
  <2> DEFINE p == f.src
             len == Len(log[p])
  <2>1. /\ Moving(f) /\ len < f.n /\ f.n <= send_sequence[p]
        /\ send_sequence[p] <= len + Window
        /\ expected_sequence[p] = (len + 1) % SeqMod
        /\ hdr_seq(f) = expected_sequence[p]
    BY Zenon, <1>0, <1>3 DEF Consumed, IInv, SequenceOK, NumberOK
  <2>2. f.n = len + 1
    <3>1. f.n % SeqMod = (len + 1) % SeqMod
      BY <2>1 DEF hdr_seq
    <3>2. len + 1 \in Nat /\ len + 1 <= f.n /\ f.n < (len + 1) + SeqMod
      BY <1>0, <2>1
    <3> QED BY Zenon, <1>0, <3>1, <3>2, ModUnique
  <2>3. /\ \A x \in Peers : x # p => log'[x] = log[x]
        /\ log'[p] = Append(log[p], f.n)
        /\ Len(log'[p]) = len + 1
    BY <1>0 DEF Consumed
  <2> HIDE DEF p
  <2>4. ASSUME NEW x \in Peers
        PROVE  expected_sequence'[x] = (Len(log'[x]) + 1) % SeqMod
    <3>1. CASE x # p
      BY Zenon, <1>0, <1>3, <2>3, <3>1 DEF Consumed, IInv, SequenceOK, p
    <3>2. CASE x = p
      <4>1. expected_sequence'[p] = (expected_sequence[p] + 1) % SeqMod
        BY <1>0, <1>3 DEF Consumed, p
      <4>2. (((len + 1) % SeqMod) + 1) % SeqMod = ((len + 1) + 1) % SeqMod
        <5>1. len + 1 \in Nat
          BY <1>0 DEF p
        <5> HIDE DEF len
        <5> QED BY <1>0, <5>1, ModIncrement
      <4> QED BY ZenonT(60), <2>1, <2>3, <3>2, <4>1, <4>2
    <3> QED BY <3>1, <3>2
  <2>5. ASSUME NEW x \in Peers
        PROVE  /\ send_sequence'[x] <= Len(log'[x]) + Window
               /\ Len(log'[x]) <= send_sequence'[x]
    <3>1. /\ send_sequence[x] <= Len(log[x]) + Window
          /\ Len(log[x]) <= send_sequence[x]
          /\ send_sequence' = send_sequence
      BY <1>3 DEF IInv, SequenceOK, LogBound, Consumed
    <3>2. CASE x # p
      BY ZenonT(60), <2>3, <3>1, <3>2
    <3>3. CASE x = p
      BY <1>0, <2>1, <2>2, <2>3, <3>1, <3>3
    <3> QED BY ZenonT(60), <3>2, <3>3
  <2>6. ASSUME NEW g \in Frags, Moving(g)' PROVE Len(log'[g.src]) < g.n
    <3>1. Moving(g) /\ g # f
      BY Zenon, <2>6 DEF Consumed
    <3>2. Len(log[g.src]) < g.n
      BY Zenon, <1>3, <3>1 DEF IInv, SequenceOK
    <3>3. CASE g.src # p
      BY ZenonT(60), <1>0, <2>3, <3>2, <3>3
    <3>4. CASE g.src = p
      <4>1. g.n # f.n
        BY Zenon, <2>1, <3>1, <3>4 DEF IInv, NumberOK, p
      <4> QED BY <1>0, <2>2, <2>3, <3>2, <3>4, <4>1
    <3> QED BY <3>3, <3>4
  <2>7. ASSUME NEW x \in Peers, NEW i \in 1 .. Len(log'[x]) PROVE log'[x][i] = i
    <3>1. CASE x # p
      BY <1>3, <2>3, <3>1 DEF IInv, InOrder
    <3>2. CASE x = p
      <4>1. \A j \in 1 .. len : log[p][j] = j
        BY Zenon, <1>0, <1>3 DEF IInv, InOrder, p
      <4>2. log[p] \in Seq(Nat) /\ len \in Nat /\ i \in 1 .. (len + 1)
        BY Zenon, <1>0, <2>3, <2>7, <3>2 DEF p
      <4>3. CASE i = len + 1
        BY <2>2, <2>3, <3>2, <4>2, <4>3
      <4>4. CASE i \in 1 .. len
        <5>1. log[p][i] = i
          BY Zenon, <4>1, <4>4
        <5>2. Append(log[p], f.n)[i] = log[p][i]
          <6>1. i \in 1 .. Len(log[p])
            BY <4>4
          <6> QED BY <1>0, <4>2, <6>1
        <5> QED BY Zenon, <2>3, <3>2, <5>1, <5>2
      <4> QED BY <4>2, <4>3, <4>4
    <3> QED BY <3>1, <3>2
  <2>8. SequenceOK'
    BY <2>4, <2>5, <2>6 DEF SequenceOK
  <2>9. LogBound'
    BY <2>5 DEF LogBound
  <2>10. InOrder'
    BY <2>7 DEF InOrder
  <2> QED BY <1>1, <2>8, <2>9, <2>10
<1> QED BY <1>2, <1>3
==============================================================================
