-------------------------- MODULE Ob1MatchInvariant --------------------------
(***************************************************************************)
(* The inductive invariants of Ob1Match, and what its steps on the receive *)
(* side do to the requests and the messages.                               *)
(***************************************************************************)
EXTENDS Ob1Match, LeastElement, TLAPS

(* The inductive invariant.                                                *)

\* f waits in the list of fragments of a communicator that is not known yet.
Pending(f) ==
  \E i \in 1 .. Len(non_existing_communicator_pending) :
     f = non_existing_communicator_pending[i]

\* f has been sent and matching has not consumed it.
Moving(f) ==
  f \in net[f.src] \/ On(frags_cant_match[f.src], f) \/ Pending(f)

\* A thread that is about to use cur[t] has set it.
ThreadOK ==
  \A t \in Threads :
    /\ pc[t] \in {"progress", "check", "relock"} => cur[t].peer \in Peers
    /\ pc[t] = "start" => cur[t].req \in Reqs

\* The out-of-sequence lists are well formed and every fragment in transit is
\* in one place.
PlaceOK ==
  /\ \A p \in Peers : WellFormed(frags_cant_match[p], Frags)
  /\ \A p \in Peers : \A f \in net[p] : f.src = p
  /\ \A p \in Peers : \A f \in Frags : On(frags_cant_match[p], f) => f.src = p
  /\ \A f \in Frags : ~(f \in net[f.src] /\ On(frags_cant_match[f.src], f))
  /\ \A f \in Frags : ~(f \in net[f.src] /\ Pending(f))
  /\ \A f \in Frags : ~(On(frags_cant_match[f.src], f) /\ Pending(f))
  /\ \A i, j \in 1 .. Len(non_existing_communicator_pending) :
        non_existing_communicator_pending[i] =
          non_existing_communicator_pending[j] => i = j

\* The number of a fragment in transit is its own.
NumberOK ==
  /\ \A f, g \in Frags :
        Moving(f) /\ Moving(g) /\ f.src = g.src /\ f.n = g.n => f = g
  /\ \A f \in Frags : Moving(f) => f.n <= send_sequence[f.src]

\* What is in transit was not consumed yet, and expected_sequence is the
\* number of the next message, cut to the width of hdr_seq.
SequenceOK ==
  ~AllowOvertake =>
    /\ \A p \in Peers : expected_sequence[p] = (Len(log[p]) + 1) % SeqMod
    /\ \A p \in Peers : send_sequence[p] <= Len(log[p]) + Window
    /\ \A f \in Frags : Moving(f) => Len(log[f.src]) < f.n

\* Nothing is consumed that was not sent.
LogBound ==
  ~AllowOvertake => \A p \in Peers : Len(log[p]) <= send_sequence[p]

\* The inductive invariant.
IInv ==
  /\ TypeOK /\ ThreadOK
  /\ PlaceOK /\ NumberOK /\ SequenceOK /\ LogBound /\ InOrder

------------------------------------------------------------------------------
(* The types of the variables.                                             *)

ReqRecords ==
  [state : {"unused", "posted", "taken", "matched", "probed", "nothing",
            "cancelled"},
   want : Wanted \cup {None}, seq : Nat, frag : Frags \cup {None}]

RecvTypeOK ==
  /\ unexpected_frags \in [Peers -> Seq(Frags)]
  /\ specific_receives \in [Peers -> SUBSET Reqs]
  /\ wild_receives \in SUBSET Reqs
  /\ req \in [Reqs -> ReqRecords]
  /\ pc \in [Threads ->
       {"idle", "start", "progress", "check", "relock", "add_comm"}]
  /\ cur \in [Threads -> [peer : Peers \cup {None}, req : Reqs \cup {None}]]
  /\ log \in [Peers -> Seq(Nat)]

CommTypeOK ==
  /\ send_sequence \in [Peers -> Nat]
  /\ net \in [Peers -> SUBSET Frags]
  /\ comm_state \in {"none", "adding", "ready"}
  /\ non_existing_communicator_pending \in Seq(Frags)
  /\ expected_sequence \in [Peers -> 0 .. SeqMod - 1]
  /\ recv_sequence \in Nat
  /\ last_probed \in Peers

\* TypeOK in three parts; the type of the lists follows from PlaceOK.
LEMMA TypeParts ==
  TypeOK <=> CommTypeOK /\ RecvTypeOK
             /\ frags_cant_match \in [Peers -> Lists(Frags)]
BY Zenon DEF TypeOK, CommTypeOK, RecvTypeOK, ReqRecords, Lists

\* The types used below.
LEMMA NumberTypes ==
  ASSUME IInv
  PROVE  /\ log \in [Peers -> Seq(Nat)]
         /\ \A p \in Peers : Len(log[p]) \in Nat
         /\ \A f \in Frags : f.src \in Peers /\ f.n \in Nat
         /\ \A p \in Peers : \A i \in 1 .. Len(unexpected_frags[p]) :
              unexpected_frags[p][i] \in Frags
         /\ \A r \in Reqs : req[r].frag # None => req[r].frag \in Frags
<1>1. log \in [Peers -> Seq(Nat)] /\ unexpected_frags \in [Peers -> Seq(Frags)]
  BY DEF IInv, TypeOK
<1>2. \A r \in Reqs : req[r] \in ReqRecords
  BY TypeParts DEF IInv, RecvTypeOK
<1>3. \A r \in Reqs : req[r].frag # None => req[r].frag \in Frags
  BY <1>2 DEF ReqRecords
<1>4. \A p \in Peers : Len(log[p]) \in Nat
  BY <1>1
<1>5. \A f \in Frags : f.src \in Peers /\ f.n \in Nat
  BY DEF Frags
<1>6. \A p \in Peers : \A i \in 1 .. Len(unexpected_frags[p]) : unexpected_frags[p][i] \in Frags
  BY <1>1
<1> QED BY <1>1, <1>3, <1>4, <1>5, <1>6

------------------------------------------------------------------------------
(* The receive side.                                                       *)

Posted(r) == req[r].state = "posted"

Started(r) == req[r].state \notin {"posted", "unused"}

\* The same of r in the next state.
PostedNext(r) == req'[r].state = "posted"

StartedNext(r) == req'[r].state \notin {"posted", "unused"}

\* The two kinds of queues hold the posted requests and nothing else.
QueueOK ==
  \A r \in Reqs :
    /\ r \in wild_receives <=> Posted(r) /\ req[r].want.peer = AnySource
    /\ \A p \in Peers : r \in specific_receives[p] <=> Posted(r) /\ req[r].want.peer = p

\* A posted request has no fragment yet; requests carry numbers already drawn.
ReqOK ==
  \A r \in Reqs :
    /\ Posted(r) => req[r].want \in Wanted
    /\ ~Started(r) => req[r].frag = None
    /\ req[r].state # "unused" => req[r].seq < recv_sequence

\* Requests are posted on a communicator that is ready, and only one thread
\* is adding it.
PhaseOK ==
  /\ \A r \in Reqs : Posted(r) => comm_state = "ready"
  /\ \A t \in Threads : pc[t] = "add_comm" => comm_state = "adding"
  /\ \A t, u \in Threads : pc[t] = "add_comm" /\ pc[u] = "add_comm" => t = u

\* A thread about to mark a request has taken it off the queues.
StartOK ==
  \A t \in Threads : pc[t] = "start" => Started(cur[t].req)

\* The unexpected list of a peer holds its messages in the order of sending.
UnexpectedOK ==
  /\ \A p \in Peers : \A i \in 1 .. Len(unexpected_frags[p]) :
        unexpected_frags[p][i].src = p
  /\ ~AllowOvertake => \A p \in Peers :
       /\ \A i \in 1 .. Len(unexpected_frags[p]) : unexpected_frags[p][i].n <= Len(log[p])
       /\ \A i, j \in 1 .. Len(unexpected_frags[p]) :
             i < j => unexpected_frags[p][i].n < unexpected_frags[p][j].n

\* What a request owns has been consumed.
OwnedOK ==
  ~AllowOvertake => \A r \in Reqs :
     req[r].frag # None => req[r].frag.n <= Len(log[req[r].frag.src])

\* The inductive invariant of the receive side.
RInv ==
  /\ QueueOK /\ ReqOK /\ PhaseOK /\ StartOK /\ UnexpectedOK /\ OwnedOK
  /\ NoMissedMatch /\ MatchingOrder

------------------------------------------------------------------------------
(* What an action does to the messages in transit: one of these.           *)

NewFrag(p, e) == [src |-> p, n |-> send_sequence[p] + 1, env |-> e]

Sent(p, e) ==
  /\ send_sequence[p] - Len(log[p]) < Window
  /\ send_sequence' = [send_sequence EXCEPT ![p] = @ + 1]
  /\ UNCHANGED <<expected_sequence, log>>
  /\ \A g \in Frags : Moving(g)' <=> Moving(g) \/ g = NewFrag(p, e)

Moved ==
  /\ UNCHANGED <<send_sequence, expected_sequence, log>>
  /\ \A g \in Frags : Moving(g)' <=> Moving(g)

Consumed(f) ==
  /\ UNCHANGED send_sequence
  /\ Moving(f)
  /\ \A g \in Frags : Moving(g)' <=> Moving(g) /\ g # f
  /\ log' = [log EXCEPT ![f.src] = Append(@, f.n)]
  /\ ~AllowOvertake =>
        /\ hdr_seq(f) = expected_sequence[f.src]
        /\ expected_sequence' =
              [expected_sequence EXCEPT ![f.src] = (@ + 1) % SeqMod]

(* And to the requests and the unexpected lists.                           *)

Keeps(r) == req'[r] = req[r]

\* r goes on, with what it has.
Marks(r) ==
  /\ req[r].state # "unused" /\ StartedNext(r)
  /\ req'[r].want = req[r].want
  /\ req'[r].seq = req[r].seq
  /\ req'[r].frag = req[r].frag

Quiet ==
  /\ UNCHANGED <<unexpected_frags, recv_sequence>>
  /\ \A r \in Reqs : Keeps(r) \/ Marks(r)

\* f goes to the unexpected list.
Stored(f) ==
  /\ unexpected_frags' = [unexpected_frags EXCEPT ![f.src] = Append(@, f)]
  /\ UNCHANGED recv_sequence
  /\ \A r \in Reqs : Keeps(r) \/ Marks(r)
  /\ \A r \in Reqs : PostedNext(r) => ~Fits(req[r].want, f)

\* m, which was posted, gets f.
Gave(f, m) ==
  /\ UNCHANGED <<unexpected_frags, recv_sequence>>
  /\ Posted(m) /\ StartedNext(m)
  /\ req'[m].want = req[m].want
  /\ req'[m].seq = req[m].seq
  /\ req'[m].frag = f
  /\ Fits(req[m].want, f)
  /\ \A r \in Reqs \ {m} : Keeps(r) \/ Marks(r)
  /\ \A r \in Reqs : PostedNext(r) /\ req[r].seq < req[m].seq => ~Fits(req[r].want, f)

\* r is started with w.
Opens(r, w) ==
  /\ req[r].state = "unused" /\ req'[r].state # "unused"
  /\ req'[r].want = w
  /\ req'[r].seq = recv_sequence
  /\ recv_sequence' = recv_sequence + 1
  /\ \A x \in Reqs \ {r} : Keeps(x)

\* It finds nothing, or only looks.
Looked(r, w) ==
  /\ Opens(r, w)
  /\ req'[r].frag = None
  /\ UNCHANGED unexpected_frags
  /\ PostedNext(r) => \A p \in Peers : \A i \in 1 .. Len(unexpected_frags[p]) :
                      ~Fits(w, unexpected_frags[p][i])

\* It takes the first message of p that fits.
Took(r, w, p, i) ==
  /\ Opens(r, w) /\ StartedNext(r)
  /\ req'[r].frag = unexpected_frags[p][i]
  /\ unexpected_frags' = [unexpected_frags EXCEPT ![p] =
       SubSeq(@, 1, i - 1) \o SubSeq(@, i + 1, Len(@))]
  /\ \A j \in 1 .. Len(unexpected_frags[p]) :
       TagMatches(w, unexpected_frags[p][j]) => i <= j

Change ==
  \/ (\E p \in Peers : \E e \in Envelopes : Sent(p, e) /\ NewFrag(p, e) \in Frags) /\ Quiet
  \/ Moved /\ Quiet
  \/ \E f \in Frags : Consumed(f) /\ (Stored(f) \/ \E m \in Reqs : Gave(f, m))
  \/ Moved /\ \E r \in Reqs, w \in Wanted :
       Looked(r, w) \/ \E p \in Peers : \E i \in 1 .. Len(unexpected_frags[p]) : Took(r, w, p, i)

\* What becomes of the state of a request that is kept or goes on.
LEMMA KeepsFacts ==
  ASSUME NEW r
  PROVE  /\ Keeps(r) => /\ PostedNext(r) <=> Posted(r)
                        /\ StartedNext(r) <=> Started(r)
                        /\ req'[r].want = req[r].want
         /\ Marks(r) => ~PostedNext(r) /\ StartedNext(r)
BY DEF Keeps, Marks, Posted, PostedNext, Started, StartedNext

\* The queues stay in order when nothing moves on them and no request that is
\* or becomes posted changes.
LEMMA QueueKept ==
  ASSUME QueueOK, UNCHANGED recvVars,
         \A r \in Reqs : Keeps(r) \/ (~Posted(r) /\ ~PostedNext(r))
  PROVE  QueueOK'
<1>1. wild_receives' = wild_receives /\ specific_receives' = specific_receives
  BY DEF recvVars
<1>2. ASSUME NEW r \in Reqs
      PROVE  /\ r \in wild_receives' <=> PostedNext(r) /\ req'[r].want.peer = AnySource
             /\ \A p \in Peers : r \in specific_receives'[p] <=>
                                  PostedNext(r) /\ req'[r].want.peer = p
  BY Zenon, <1>1, KeepsFacts DEF QueueOK
<1> QED BY Zenon, <1>2 DEF QueueOK, Posted, PostedNext

------------------------------------------------------------------------------
(* What the searches return.                                               *)

\* The least of a set of numbers.
LEMMA LeastExists ==
  ASSUME Least, NEW T, T \subseteq Nat, T # {}
  PROVE  \E x \in T : \A y \in T : x <= y
BY Zenon DEF Least

\* The search of one unexpected list returns a fitting position or 0.
LEMMA SpecificProc ==
  ASSUME Least, TypeOK, NEW want, NEW p \in Peers
  PROVE  LET i == recv_req_match_specific_proc(want, p)
         IN  /\ i # 0 => /\ i \in 1 .. Len(unexpected_frags[p])
                         /\ TagMatches(want, unexpected_frags[p][i])
                         /\ \A j \in 1 .. Len(unexpected_frags[p]) :
                              TagMatches(want, unexpected_frags[p][j]) => i <= j
             /\ i = 0 => \A j \in 1 .. Len(unexpected_frags[p]) :
                           ~TagMatches(want, unexpected_frags[p][j])
<1> DEFINE hits == { i \in 1 .. Len(unexpected_frags[p]) :
                        TagMatches(want, unexpected_frags[p][i]) }
           i == recv_req_match_specific_proc(want, p)
<1>1. CASE hits = {}
  BY <1>1 DEF recv_req_match_specific_proc
<1>2. CASE hits # {}
  <2>1. hits \subseteq Nat
    BY DEF TypeOK
  <2>2. \E x \in hits : \A y \in hits : x <= y
    <3> HIDE DEF hits
    <3> QED BY Zenon, <1>2, <2>1, LeastExists
  <2>3. i = CHOOSE x \in hits : \A y \in hits : x <= y
    BY Zenon, <1>2 DEF recv_req_match_specific_proc
  <2>4. i \in hits /\ \A y \in hits : i <= y
    BY Zenon, <2>2, <2>3
  <2> QED BY <2>4
<1> QED BY <1>1, <1>2

\* The round-robin search finds a peer when there is one.
LEMMA MatchWild ==
  ASSUME Least, TypeOK, NEW want,
         \E p \in Peers : recv_req_match_specific_proc(want, p) # 0
  PROVE  /\ recv_req_match_wild(want) \in Peers
         /\ recv_req_match_specific_proc(want, recv_req_match_wild(want)) # 0
<1> DEFINE hits == { p \in Peers : recv_req_match_specific_proc(want, p) # 0 }
           turn(p) == (p - last_probed - 1) % num_procs
           T == { turn(p) : p \in hits }
<1>1. hits # {}
  OBVIOUS
<1>2. \A p \in hits : turn(p) \in Nat
  <2>1. num_procs \in Nat \ {0} /\ last_probed \in Int
    BY PeersAssumption DEF TypeOK, Peers
  <2>2. \A x \in Int : x % num_procs \in Nat
    BY <2>1
  <2>3. \A p \in hits : p - last_probed - 1 \in Int
    BY <2>1 DEF Peers
  <2> HIDE DEF hits
  <2> QED BY <2>2, <2>3
<1> HIDE DEF hits, turn
<1>3. T \subseteq Nat /\ T # {}
  BY <1>1, <1>2
<1>4. PICK m \in T : \A y \in T : m <= y
  BY Zenon, <1>3, LeastExists
<1>5. PICK p \in hits : m = turn(p)
  BY <1>4
<1>6. \A x \in hits : turn(p) <= turn(x)
  BY <1>4, <1>5
<1>7. (CHOOSE x \in hits : \A y \in hits : turn(x) <= turn(y)) \in hits
  BY <1>5, <1>6
<1>8. recv_req_match_wild(want) \in hits
  BY <1>1, <1>7 DEF recv_req_match_wild, hits, turn
<1> QED BY <1>8 DEF hits

\* The search returns a peer that has a fragment, or None.
LEMMA MatchingPeer ==
  ASSUME Least, TypeOK, NEW want \in Wanted, matching_peer(want) # None
  PROVE  /\ matching_peer(want) \in Peers
         /\ want.peer # AnySource => matching_peer(want) = want.peer
         /\ recv_req_match_specific_proc(want, matching_peer(want)) # 0
<1>1. CASE want.peer # AnySource
  BY <1>1, WantedAssumption DEF matching_peer
<1>2. CASE want.peer = AnySource
  <2>1. matching_peer(want) = recv_req_match_wild(want)
    BY <1>2 DEF matching_peer
  <2>2. \E p \in Peers : recv_req_match_specific_proc(want, p) # 0
    BY <2>1 DEF recv_req_match_wild
  <2> QED BY Zenon, <1>2, <2>1, <2>2, MatchWild
<1> QED BY <1>1, <1>2

\* The earliest request of a non-empty set of requests.
LEMMA OldestInSet ==
  ASSUME Least, TypeOK, NEW S \in SUBSET Reqs, S # {}
  PROVE  oldest(S) \in S /\ \A x \in S : req[oldest(S)].seq <= req[x].seq
<1> DEFINE T == { req[r].seq : r \in S }
<1>1. T \subseteq Nat /\ T # {}
  BY DEF TypeOK
<1>2. PICK m \in T : \A y \in T : m <= y
  BY Zenon, <1>1, LeastExists
<1>3. PICK r \in S : m = req[r].seq
  BY <1>2
<1>4. \A x \in S : req[r].seq <= req[x].seq
  BY <1>2, <1>3
<1> QED BY <1>3, <1>4 DEF oldest

\* match_incomming returns a posted request that takes the fragment, or None.
LEMMA MatchIncomming ==
  ASSUME Least, TypeOK, NEW f \in Frags
  PROVE  LET m == match_incomming(f)
         IN  /\ m # None => /\ m \in Reqs
                            /\ m \in posted_for(f.src)
                            /\ TagMatches(req[m].want, f)
                            /\ req[m].want.type # "PROBE"
             /\ \A r \in posted_for(f.src) :
                  TagMatches(req[r].want, f) /\ req[r].want.type # "PROBE"
                  => m # None /\ req[m].seq <= req[r].seq
<1> DEFINE takers == { r \in posted_for(f.src) : /\ TagMatches(req[r].want, f)
                                                /\ req[r].want.type # "PROBE" }
<1>1. f.src \in Peers
  BY DEF Frags
<1>2. takers \in SUBSET Reqs
  BY ZenonT(60), <1>1 DEF TypeOK, posted_for
<1>3. CASE takers = {}
  BY <1>3 DEF match_incomming
<1>4. CASE takers # {}
  <2>1. match_incomming(f) = oldest(takers)
    BY <1>4 DEF match_incomming
  <2>2. oldest(takers) \in takers /\ \A x \in takers : req[oldest(takers)].seq <= req[x].seq
    <3> HIDE DEF takers
    <3> QED BY <1>2, <1>4, OldestInSet
  <2>3. None \notin Reqs
    BY PeersAssumption
  <2> QED BY Zenon, <1>2, <2>1, <2>2, <2>3
<1> QED BY <1>3, <1>4

------------------------------------------------------------------------------
\* Appending to the sequence of one peer.
LEMMA AppendAt ==
  ASSUME NEW S, NEW F \in [Peers -> Seq(S)], NEW p \in Peers, NEW x \in S
  PROVE  [F EXCEPT ![p] = Append(@, x)] \in [Peers -> Seq(S)]
OBVIOUS

\* match_one keeps the types, and leaves the thread with a peer.
LEMMA MatchOneType ==
  ASSUME Least, TypeOK, ThreadOK, NEW t \in Threads, NEW f \in Frags, match_one(t, f)
  PROVE  RecvTypeOK' /\ ThreadOK'
<1> DEFINE m == match_incomming(f)
           probes == matched_probes(f)
<1>0. f.src \in Peers /\ f.n \in Nat
  BY DEF Frags
<1>1. m # None => m \in Reqs
  BY MatchIncomming
<1>t. RecvTypeOK
  BY TypeParts
<1> HIDE DEF m, probes
<1>2. unexpected_frags' \in [Peers -> Seq(Frags)]
  <2>1. \/ unexpected_frags' = unexpected_frags
        \/ unexpected_frags' = [unexpected_frags EXCEPT ![f.src] = Append(@, f)]
    BY Zenon DEF match_one
  <2>2. [unexpected_frags EXCEPT ![f.src] = Append(@, f)] \in [Peers -> Seq(Frags)]
    BY <1>0, <1>t, AppendAt DEF RecvTypeOK
  <2> QED BY Zenon, <2>1, <2>2, <1>t DEF RecvTypeOK
<1>3. specific_receives' \in [Peers -> SUBSET Reqs] /\ wild_receives' \in SUBSET Reqs
  BY ZenonT(60), <1>0, <1>t DEF match_one, RecvTypeOK
<1>4. req' \in [Reqs -> ReqRecords]
  <2>1. req' = [r \in Reqs |->
            IF r \in probes THEN [req[r] EXCEPT !.state = "probed"]
            ELSE IF r = m
                 THEN [req[r] EXCEPT
                         !.state = IF req[m].want.type = "MPROBE"
                                   THEN "probed" ELSE "taken",
                         !.frag = f]
                 ELSE req[r]]
    BY Zenon DEF match_one, m, probes
  <2>2. ASSUME NEW r \in Reqs PROVE req'[r] \in ReqRecords
    <3>1. req[r] \in ReqRecords
      BY <1>t DEF RecvTypeOK
    <3>2. CASE r \in probes
      <4>1. req'[r] = [req[r] EXCEPT !.state = "probed"]
        BY Zenon, <2>1, <3>2
      <4> QED BY <3>1, <4>1 DEF ReqRecords
    <3>3. CASE r \notin probes /\ r = m
      <4>1. \E s \in {"probed", "taken"} :
               req'[r] = [req[r] EXCEPT !.state = s, !.frag = f]
        BY Zenon, <2>1, <3>3
      <4> QED BY ZenonT(60), <3>1, <4>1 DEF ReqRecords
    <3>4. CASE r \notin probes /\ r # m
      BY ZenonT(60), <2>1, <3>1, <3>4
    <3> QED BY <3>2, <3>3, <3>4
  <2> QED BY ZenonT(60), <2>1, <2>2
<1>5. /\ pc' = [pc EXCEPT ![t] = "progress"]
      /\ cur' = [cur EXCEPT ![t] =
                   [peer |-> f.src,
                    req |-> IF m # None /\ req[m].want.type # "MPROBE"
                            THEN m ELSE None]]
  BY Zenon DEF match_one, m
<1>6. /\ pc' \in [Threads ->
            {"idle", "start", "progress", "check", "relock", "add_comm"}]
      /\ cur' \in [Threads -> [peer : Peers \cup {None}, req : Reqs \cup {None}]]
  <2>1. pc' \in [Threads ->
            {"idle", "start", "progress", "check", "relock", "add_comm"}]
    BY <1>5 DEF TypeOK
  <2>2. cur' \in [Threads -> [peer : Peers \cup {None}, req : Reqs \cup {None}]]
    BY <1>0, <1>1, <1>5 DEF TypeOK
  <2> QED BY <2>1, <2>2
<1>7. log' \in [Peers -> Seq(Nat)]
  <2>1. log' = [log EXCEPT ![f.src] = Append(@, f.n)]
    BY Zenon DEF match_one
  <2> QED BY <1>0, <2>1, <1>t, AppendAt DEF RecvTypeOK
<1>8. ThreadOK'
  BY <1>0, <1>5 DEF TypeOK, ThreadOK
<1> QED BY <1>2, <1>3, <1>4, <1>6, <1>7, <1>8 DEF RecvTypeOK

------------------------------------------------------------------------------
(* The initial state.                                                      *)

\* The initial state satisfies the inductive invariant.
LEMMA InitIInv == Init => IInv
<1> SUFFICES ASSUME Init PROVE IInv
  OBVIOUS
<1>1. TypeOK
  <2>1. 1 % SeqMod \in 0 .. SeqMod - 1
    BY SeqModAssumption
  <2>2. 0 \in Peers
    BY PeersAssumption DEF Peers
  <2>3. CommTypeOK
    BY <2>1, <2>2 DEF Init, CommTypeOK
  <2>4. RecvTypeOK
    BY DEF Init, RecvTypeOK, ReqRecords, UnusedReq, IdleThread
  <2>5. frags_cant_match \in [Peers -> Lists(Frags)]
    BY DEF Init, Lists
  <2> QED BY <2>3, <2>4, <2>5, TypeParts
<1>2. ThreadOK
  BY DEF Init, ThreadOK
<1>3. /\ \A p \in Peers : net[p] = {} /\ frags_cant_match[p] = << >>
      /\ non_existing_communicator_pending = << >>
      /\ \A p \in Peers : log[p] = << >> /\ send_sequence[p] = 0
      /\ \A f \in Frags : f.src \in Peers
      /\ Len(<< >>) = 0
      /\ \A i \in 1 .. 0 : FALSE
  BY DEF Init, Frags
<1>4. \A f \in Frags : ~Moving(f)
  BY <1>3 DEF Moving, Pending, On
<1>5. PlaceOK
  <2>1. << >> \in Lists(Frags)
    BY DEF Lists
  <2>2. WellFormed(<< >>, Frags)
    BY <1>3, <2>1 DEF WellFormed, Distinct, Contiguous
  <2> QED BY <1>3, <2>2 DEF PlaceOK, On
<1>6. NumberOK
  BY <1>4 DEF NumberOK
<1>7. SequenceOK
  <2>1. \A p \in Peers : expected_sequence[p] = 1 % SeqMod
    BY DEF Init
  <2> QED BY <1>3, <1>4, <2>1, BoundsAssumption DEF SequenceOK
<1>8. LogBound /\ InOrder
  BY <1>3 DEF LogBound, InOrder
<1> QED BY <1>1, <1>2, <1>5, <1>6, <1>7, <1>8 DEF IInv

\* The initial state satisfies the invariant of the receive side.
LEMMA InitRInv == Init => RInv
<1> SUFFICES ASSUME Init PROVE RInv
  OBVIOUS
<1>1. \A r \in Reqs : ~Posted(r) /\ ~Started(r) /\ req[r].frag = None /\ req[r].state = "unused"
  BY DEF Init, Posted, Started, UnusedReq
<1>2. QueueOK /\ ReqOK
  BY <1>1 DEF Init, QueueOK, ReqOK
<1>3. PhaseOK /\ StartOK
  BY <1>1 DEF Init, PhaseOK, StartOK
<1>4. UnexpectedOK
  <2>1. \A p \in Peers : Len(unexpected_frags[p]) = 0
    BY DEF Init
  <2> QED BY <2>1 DEF UnexpectedOK
<1>5. OwnedOK /\ NoMissedMatch /\ MatchingOrder
  BY Zenon, <1>1 DEF OwnedOK, NoMissedMatch, MatchingOrder, NonOvertaking, PostOrder, Posted
<1> QED BY <1>2, <1>3, <1>4, <1>5 DEF RInv

------------------------------------------------------------------------------
(* The effect of every action on the receive side.                         *)

\* A search of both queues sees every posted request that may fit.
LEMMA PostedFor ==
  ASSUME IInv, QueueOK, ReqOK, NEW p \in Peers
  PROVE  /\ posted_for(p) \subseteq Reqs
         /\ \A r \in Reqs : r \in posted_for(p) <=>
              Posted(r) /\ req[r].want.peer \in {AnySource, p}
<1>1. wild_receives \subseteq Reqs /\ specific_receives[p] \subseteq Reqs
  BY DEF IInv, TypeOK
<1>2. ASSUME NEW r \in Reqs
      PROVE  r \in posted_for(p) <=> Posted(r) /\ req[r].want.peer \in {AnySource, p}
  <2>1. /\ r \in wild_receives <=> Posted(r) /\ req[r].want.peer = AnySource
        /\ r \in specific_receives[p] <=> Posted(r) /\ req[r].want.peer = p
    BY DEF QueueOK
  <2>2. NoAnySource /\ Posted(r) => req[r].want.peer # AnySource
    BY FlagsAssumption DEF ReqOK
  <2> QED BY <2>1, <2>2 DEF posted_for
<1> QED BY <1>1, <1>2 DEF posted_for

\* match_one gives the fragment to a request or stores it.
LEMMA MatchOneEffect ==
  ASSUME Least, IInv, QueueOK, ReqOK, NEW t \in Threads, NEW f \in Frags, match_one(t, f),
         UNCHANGED recv_sequence
  PROVE  QueueOK' /\ (Stored(f) \/ \E m \in Reqs : Gave(f, m))
<1> DEFINE m == match_incomming(f)
           probes == matched_probes(f)
           gone == IF m = None THEN probes ELSE probes \cup {m}
<1>0. f.src \in Peers /\ TypeOK /\ None \notin Reqs
  BY PeersAssumption DEF Frags, IInv
<1>1. /\ posted_for(f.src) \subseteq Reqs
      /\ \A r \in Reqs : r \in posted_for(f.src) <=>
           Posted(r) /\ req[r].want.peer \in {AnySource, f.src}
  BY <1>0, PostedFor
<1>2. /\ m # None => /\ m \in Reqs
                     /\ m \in posted_for(f.src)
                     /\ TagMatches(req[m].want, f)
                     /\ req[m].want.type # "PROBE"
      /\ \A r \in posted_for(f.src) :
           TagMatches(req[r].want, f) /\ req[r].want.type # "PROBE"
           => m # None /\ req[m].seq <= req[r].seq
  BY <1>0, MatchIncomming
<1>3. probes = { r \in posted_for(f.src) :
                   /\ TagMatches(req[r].want, f)
                   /\ req[r].want.type = "PROBE"
                   /\ m # None => req[r].seq < req[m].seq }
  BY Zenon DEF matched_probes
<1>4. /\ specific_receives' = [specific_receives EXCEPT ![f.src] = @ \ gone]
      /\ wild_receives' = wild_receives \ gone
      /\ unexpected_frags' =
            IF m = None THEN [unexpected_frags EXCEPT ![f.src] = Append(@, f)]
                        ELSE unexpected_frags
      /\ req' = [r \in Reqs |->
            IF r \in probes THEN [req[r] EXCEPT !.state = "probed"]
            ELSE IF r = m
                 THEN [req[r] EXCEPT
                         !.state = IF req[m].want.type = "MPROBE"
                                   THEN "probed" ELSE "taken",
                         !.frag = f]
                 ELSE req[r]]
  BY Zenon DEF match_one
<1>5. \A r \in Reqs : req[r] \in ReqRecords
  BY <1>0, TypeParts DEF RecvTypeOK
<1> HIDE DEF m, probes
<1>6. \A r \in probes : r \in Reqs /\ Posted(r) /\ r # m /\ Marks(r)
  <2> SUFFICES ASSUME NEW r \in probes PROVE r \in Reqs /\ Posted(r) /\ r # m /\ Marks(r)
    OBVIOUS
  <2>0. r \in posted_for(f.src) /\ req[r].want.type = "PROBE"
    BY Zenon, <1>3
  <2>1. r \in Reqs /\ Posted(r) /\ r # m
    BY <1>0, <1>1, <1>2, <2>0
  <2>2. req'[r] = [req[r] EXCEPT !.state = "probed"]
    BY Zenon, <1>4, <2>1
  <2>3. req[r] \in ReqRecords
    BY <1>5, <2>1
  <2> QED BY <2>1, <2>2, <2>3 DEF Marks, Posted, PostedNext, Started, StartedNext, ReqRecords
<1>7. \A r \in Reqs : r \notin probes /\ r # m => Keeps(r)
  BY Zenon, <1>4 DEF Keeps
<1>8. m \in Reqs /\ m # None =>
        /\ m \notin probes
        /\ StartedNext(m)
        /\ req'[m].want = req[m].want /\ req'[m].seq = req[m].seq /\ req'[m].frag = f
  <2> SUFFICES ASSUME m \in Reqs, m # None
               PROVE  /\ m \notin probes
                      /\ StartedNext(m)
                      /\ req'[m].want = req[m].want /\ req'[m].seq = req[m].seq
                      /\ req'[m].frag = f
    OBVIOUS
  <2>1. m \notin probes
    BY <1>6
  <2>2. \E s \in {"probed", "taken"} : req'[m] = [req[m] EXCEPT !.state = s, !.frag = f]
    BY Zenon, <1>4, <2>1
  <2>3. req[m] \in ReqRecords
    BY <1>5
  <2> QED BY <2>1, <2>2, <2>3 DEF Started, StartedNext, ReqRecords
<1>9. ASSUME NEW r \in Reqs, PostedNext(r), Fits(req[r].want, f)
      PROVE  m # None /\ ~(req[r].seq < req[m].seq)
  <2>1. r \notin probes /\ r # m
    BY <1>0, <1>6, <1>8, <1>9 DEF Marks, Posted, PostedNext, Started, StartedNext
  <2>2. r \in posted_for(f.src)
    <3>1. Posted(r)
      BY <1>7, <1>9, <2>1 DEF Keeps, Posted, PostedNext
    <3> QED BY <1>1, <1>9, <3>1 DEF Fits
  <2>3. TagMatches(req[r].want, f)
    BY <1>9 DEF Fits
  <2>4. CASE req[r].want.type = "PROBE"
    BY <1>3, <2>1, <2>2, <2>3, <2>4
  <2>5. CASE req[r].want.type # "PROBE"
    <3>1. m # None /\ req[m].seq <= req[r].seq
      BY <1>2, <2>2, <2>3, <2>5
    <3>2. req[m].seq \in Nat /\ req[r].seq \in Nat
      BY <1>2, <1>5, <3>1 DEF ReqRecords
    <3> QED BY <3>1, <3>2
  <2> QED BY <2>4, <2>5
<1>10. QueueOK'
  <2> SUFFICES ASSUME NEW r \in Reqs
               PROVE  /\ r \in wild_receives' <=> PostedNext(r) /\ req'[r].want.peer = AnySource
                      /\ \A p \in Peers : r \in specific_receives'[p] <=>
                           PostedNext(r) /\ req'[r].want.peer = p
    BY DEF QueueOK, Posted, PostedNext
  <2>1. \A p \in Peers :
          specific_receives'[p] = IF p = f.src THEN specific_receives[p] \ gone
                                  ELSE specific_receives[p]
    BY Zenon, <1>0, <1>4 DEF TypeOK
  <2>2. /\ r \in wild_receives <=> Posted(r) /\ req[r].want.peer = AnySource
        /\ \A p \in Peers : r \in specific_receives[p] <=> Posted(r) /\ req[r].want.peer = p
    BY DEF QueueOK
  <2>3. r \in gone <=> r \in probes \/ (m # None /\ r = m)
    OBVIOUS
  <2>4. CASE r \in gone
    <3>1. ~PostedNext(r) /\ r \in posted_for(f.src)
      BY <1>2, <1>3, <1>6, <1>8, <2>3, <2>4 DEF Marks, Started, StartedNext, Posted, PostedNext
    <3>2. req[r].want.peer \in {AnySource, f.src}
      BY <1>1, <3>1
    <3>3. \A p \in Peers : p # AnySource
      BY PeersAssumption
    <3>4. r \notin wild_receives' /\ \A p \in Peers : r \notin specific_receives'[p]
      <4>1. r \notin wild_receives'
        BY Zenon, <1>4, <2>4
      <4>2. ASSUME NEW p \in Peers PROVE r \notin specific_receives'[p]
        BY Zenon, <2>1, <2>2, <2>4, <3>2, <3>3
      <4> QED BY <4>1, <4>2
    <3> QED BY Zenon, <3>1, <3>4
  <2>5. CASE r \notin gone
    <3>1. Keeps(r)
      BY <1>0, <1>7, <2>3, <2>5
    <3>2. /\ r \in wild_receives' <=> r \in wild_receives
          /\ \A p \in Peers : r \in specific_receives'[p] <=> r \in specific_receives[p]
      <4>1. wild_receives' = wild_receives \ gone
        BY Zenon, <1>4
      <4> HIDE DEF gone
      <4>2. \A p \in Peers : r \in specific_receives'[p] <=> r \in specific_receives[p]
        BY Zenon, <2>1, <2>5
      <4> QED BY <2>5, <4>1, <4>2
    <3> QED BY <2>2, <3>1, <3>2 DEF Keeps, Posted, PostedNext
  <2> QED BY <2>4, <2>5
<1>11. CASE m = None
  <2>1. \A r \in Reqs : Keeps(r) \/ Marks(r)
    BY <1>0, <1>6, <1>7, <1>11
  <2>2. \A r \in Reqs : PostedNext(r) => ~Fits(req[r].want, f)
    BY <1>9, <1>11
  <2> QED BY Zenon, <1>4, <1>10, <1>11, <2>1, <2>2 DEF Stored
<1>12. CASE m # None
  <2>1. m \in Reqs /\ Posted(m) /\ Fits(req[m].want, f)
    BY <1>1, <1>2, <1>12 DEF Fits
  <2>2. \A r \in Reqs \ {m} : Keeps(r) \/ Marks(r)
    BY <1>6, <1>7
  <2>3. \A r \in Reqs : PostedNext(r) /\ req[r].seq < req[m].seq => ~Fits(req[r].want, f)
    BY <1>9
  <2>4. Gave(f, m)
    BY Zenon, <1>4, <1>8, <1>12, <2>1, <2>2, <2>3 DEF Gave
  <2> QED BY <1>10, <2>1, <2>4
<1> QED BY <1>11, <1>12

\* Steps that leave the requests alone.
LEMMA SameReqs ==
  ASSUME QueueOK, UNCHANGED <<recvVars, req>>
  PROVE  QueueOK' /\ \A r \in Reqs : Keeps(r)
<1>1. \A r \in Reqs : Keeps(r)
  BY DEF Keeps
<1> QED BY Zenon, <1>1, QueueKept

\* A request that was started stays so, and threads keep what they carry.
LEMMA StartKept ==
  ASSUME StartOK, ThreadOK,
         \A r \in Reqs : Started(r) => StartedNext(r),
         \A u \in Threads : pc'[u] = "start" => pc[u] = "start" /\ cur'[u].req = cur[u].req
  PROVE  StartOK'
<1> SUFFICES ASSUME NEW u \in Threads, pc'[u] = "start"
             PROVE  req'[cur'[u].req].state \notin {"posted", "unused"}
  BY DEF StartOK, Started, StartedNext
<1>1. pc[u] = "start" /\ cur'[u].req = cur[u].req
  OBVIOUS
<1>2. cur[u].req \in Reqs /\ req[cur[u].req].state \notin {"posted", "unused"}
  BY <1>1 DEF StartOK, ThreadOK, Started, StartedNext
<1> QED BY <1>1, <1>2 DEF Started, StartedNext

\* The phases of the communicator, in steps that do not change it.
LEMMA PhaseKept ==
  ASSUME PhaseOK, UNCHANGED comm_state,
         \A r \in Reqs : PostedNext(r) => Posted(r) \/ comm_state = "ready",
         \A u \in Threads : pc'[u] = "add_comm" => pc[u] = "add_comm"
  PROVE  PhaseOK'
BY DEF PhaseOK, Posted, PostedNext

\* What every step keeps of the receive side, whatever its effect.
RestOK == QueueOK /\ PhaseOK /\ StartOK

\* Send, and arrivals that are not matched.
LEMMA OutsideStep ==
  ASSUME IInv, RInv, UNCHANGED <<unexpected_frags, recvVars, recv_sequence, req, pc, cur, comm_state>>
  PROVE  Quiet /\ RestOK'
<1>1. QueueOK' /\ \A r \in Reqs : Keeps(r)
  BY SameReqs DEF RInv
<1>2. PhaseOK'
  BY PhaseKept DEF RInv, Posted, PostedNext
<1>3. StartOK'
  BY DEF RInv, StartOK, Started, StartedNext
<1> QED BY <1>1, <1>2, <1>3 DEF Quiet, RestOK

\* The steps of a thread outside the lock.
LEMMA ThreadStep ==
  ASSUME IInv, RInv, NEW t \in Threads,
         CheckCantMatch(t) \/ RelockNothing(t) \/ AddCommBegin(t) \/ AddCommEnd(t)
  PROVE  Quiet /\ RestOK'
<1>0. TypeOK /\ ThreadOK /\ StartOK /\ PhaseOK /\ QueueOK
  BY DEF IInv, RInv
<1>1. UNCHANGED <<unexpected_frags, recvVars, recv_sequence, req>>
  BY DEF CheckCantMatch, RelockNothing, AddCommBegin, AddCommEnd, countVars
<1>2. QueueOK' /\ Quiet
  BY <1>0, <1>1, SameReqs DEF Quiet
<1>3. \A u \in Threads : pc'[u] = "start" => pc[u] = "start" /\ cur'[u].req = cur[u].req
  BY Zenon, <1>0 DEF TypeOK, CheckCantMatch, RelockNothing, AddCommBegin, AddCommEnd
<1>4. StartOK'
  BY <1>0, <1>1, <1>3, StartKept DEF Started, StartedNext
<1>5. PhaseOK'
  <2>1. CASE CheckCantMatch(t) \/ RelockNothing(t)
    <3>1. UNCHANGED comm_state /\ \A u \in Threads : pc'[u] = "add_comm" => pc[u] = "add_comm"
      BY <1>0, <2>1 DEF TypeOK, CheckCantMatch, RelockNothing, commVars
    <3> QED BY <1>0, <1>1, <3>1, PhaseKept DEF Posted, PostedNext
  <2>2. CASE AddCommBegin(t)
    BY <1>0, <1>1, <2>2 DEF TypeOK, AddCommBegin, PhaseOK, Posted, PostedNext
  <2>3. CASE AddCommEnd(t)
    BY <1>0, <1>1, <2>3 DEF TypeOK, AddCommEnd, PhaseOK, Posted, PostedNext
  <2> QED BY <2>1, <2>2, <2>3
<1> QED BY <1>2, <1>4, <1>5 DEF RestOK

\* A step that only changes the state of one request, which is off the queues
\* before or is taken off, to one that is not posted.
LEMMA MarkOne ==
  ASSUME IInv, RInv, NEW r \in Reqs, req[r].state # "unused",
         NEW s \in {"matched", "cancelled"},
         req' = [req EXCEPT ![r].state = s]
  PROVE  /\ Marks(r) /\ ~PostedNext(r)
         /\ \A x \in Reqs \ {r} : Keeps(x)
<1>1. req \in [Reqs -> ReqRecords]
  BY TypeParts DEF IInv, RecvTypeOK
<1>2. req'[r] = [req[r] EXCEPT !.state = s] /\ req[r] \in ReqRecords
  BY <1>1
<1>3. \A x \in Reqs \ {r} : Keeps(x)
  BY <1>1 DEF Keeps
<1>4. Marks(r) /\ ~PostedNext(r)
  BY <1>2 DEF Marks, Started, StartedNext, Posted, PostedNext, ReqRecords
<1> QED BY <1>3, <1>4

\* The steps that mark a request with the lock not held, and MPI_Cancel.
LEMMA MarkStep ==
  ASSUME IInv, RInv, NEW t \in Threads,
         \/ Progress(t) \/ StartProgress(t)
         \/ \E r \in Reqs : Mrecv(t, r) \/ Cancel(t, r)
  PROVE  Quiet /\ RestOK'
<1>0. TypeOK /\ ThreadOK /\ StartOK /\ PhaseOK /\ QueueOK
  BY DEF IInv, RInv
<1>1. UNCHANGED <<unexpected_frags, recv_sequence, comm_state>>
  BY DEF Progress, StartProgress, Mrecv, Cancel, countVars, commVars
<1>2. /\ \A u \in Threads : pc'[u] = "start" => pc[u] = "start" /\ cur'[u].req = cur[u].req
      /\ \A u \in Threads : pc'[u] = "add_comm" => pc[u] = "add_comm"
  BY ZenonT(60), <1>0 DEF TypeOK, Progress, StartProgress, Mrecv, Cancel
<1>3. ASSUME QueueOK', \A r \in Reqs : Keeps(r) \/ Marks(r)
      PROVE  Quiet /\ RestOK'
  <2>1. StartOK'
    <3>1. \A r \in Reqs : Started(r) => StartedNext(r)
      BY ZenonT(60), <1>3, KeepsFacts
    <3> QED BY <1>0, <1>2, <3>1, StartKept
  <2>2. PhaseOK'
    <3>1. \A r \in Reqs : PostedNext(r) => Posted(r)
      BY Zenon, <1>3, KeepsFacts
    <3> QED BY <1>0, <1>1, <1>2, <3>1, PhaseKept
  <2> QED BY Zenon, <1>1, <1>3, <2>1, <2>2 DEF Quiet, RestOK
<1>4. ASSUME NEW r \in Reqs, Marks(r), ~Posted(r), ~PostedNext(r), UNCHANGED recvVars,
             \A x \in Reqs \ {r} : Keeps(x)
      PROVE  Quiet /\ RestOK'
  <2>1. QueueOK'
    BY Zenon, <1>0, <1>4, QueueKept
  <2> QED BY <1>3, <1>4, <2>1
<1>5. CASE Progress(t)
  <2>1. UNCHANGED recvVars
    BY Zenon, <1>5 DEF Progress
  <2>2. CASE cur[t].req # None /\ req[cur[t].req].state = "taken"
    <3>1. cur[t].req \in Reqs
      BY <1>0, <2>2 DEF TypeOK
    <3>2. req' = [req EXCEPT ![cur[t].req].state = "matched"]
      BY <1>5, <2>2 DEF Progress
    <3>3. PICK r \in Reqs : r = cur[t].req
      BY <3>1
    <3>4. Marks(r) /\ ~PostedNext(r) /\ \A x \in Reqs \ {r} : Keeps(x)
      BY Zenon, <2>2, <3>2, <3>3, MarkOne
    <3> QED BY <1>4, <2>1, <2>2, <3>3, <3>4 DEF Posted
  <2>3. CASE ~(cur[t].req # None /\ req[cur[t].req].state = "taken")
    <3>1. UNCHANGED <<req, recvVars>>
      BY <1>5, <2>1, <2>3 DEF Progress
    <3> QED BY <1>0, <1>3, <3>1, SameReqs
  <2> QED BY <2>2, <2>3
<1>6. CASE StartProgress(t)
  <2>1. PICK r \in Reqs : r = cur[t].req
    BY <1>0, <1>6 DEF StartProgress, ThreadOK
  <2>2. Started(r) /\ req' = [req EXCEPT ![r].state = "matched"] /\ UNCHANGED recvVars
    BY <1>0, <1>6, <2>1 DEF StartProgress, StartOK
  <2>3. req[r].state # "unused" /\ ~Posted(r)
    BY <2>2 DEF Started, Posted
  <2>4. Marks(r) /\ ~PostedNext(r) /\ \A x \in Reqs \ {r} : Keeps(x)
    BY Zenon, <2>2, <2>3, MarkOne
  <2> QED BY <1>4, <2>2, <2>3, <2>4
<1>7. ASSUME NEW r \in Reqs, Mrecv(t, r)
      PROVE  Quiet /\ RestOK'
  <2>1. req[r].state = "probed" /\ req' = [req EXCEPT ![r].state = "matched"] /\ UNCHANGED recvVars
    BY <1>7 DEF Mrecv
  <2>2. req[r].state # "unused" /\ ~Posted(r)
    BY <2>1 DEF Posted
  <2>3. Marks(r) /\ ~PostedNext(r) /\ \A x \in Reqs \ {r} : Keeps(x)
    BY Zenon, <2>1, <2>2, MarkOne
  <2> QED BY <1>4, <2>1, <2>2, <2>3
<1>8. ASSUME NEW r \in Reqs, Cancel(t, r)
      PROVE  Quiet /\ RestOK'
  <2>1. req[r].state # "unused" /\ req' = [req EXCEPT ![r].state = "cancelled"]
    BY <1>8 DEF Cancel
  <2>2. Marks(r) /\ ~PostedNext(r) /\ \A x \in Reqs \ {r} : Keeps(x)
    BY ZenonT(60), <2>1, MarkOne
  <2>3. QueueOK'
    <3> SUFFICES ASSUME NEW x \in Reqs
                 PROVE  /\ x \in wild_receives' <=>
                             PostedNext(x) /\ req'[x].want.peer = AnySource
                        /\ \A p \in Peers : x \in specific_receives'[p] <=>
                             PostedNext(x) /\ req'[x].want.peer = p
      BY DEF QueueOK, Posted, PostedNext
    <3>1. /\ x \in wild_receives <=> Posted(x) /\ req[x].want.peer = AnySource
          /\ \A p \in Peers : x \in specific_receives[p] <=> Posted(x) /\ req[x].want.peer = p
      BY <1>0 DEF QueueOK
    <3>2. CASE req[r].want.peer = AnySource
      <4>1. wild_receives' = wild_receives \ {r} /\ specific_receives' = specific_receives
        BY Zenon, <1>8, <3>2 DEF Cancel
      <4> QED BY <2>2, <3>1, <3>2, <4>1, PeersAssumption DEF Keeps, Posted, PostedNext
    <3>3. CASE req[r].want.peer # AnySource
      <4>1. /\ specific_receives' = [specific_receives EXCEPT ![req[r].want.peer] = @ \ {r}]
            /\ wild_receives' = wild_receives
        BY <1>8, <3>3 DEF Cancel
      <4>2. \A p \in Peers : specific_receives'[p] =
              IF p = req[r].want.peer THEN specific_receives[p] \ {r} ELSE specific_receives[p]
        BY Zenon, <1>0, <4>1 DEF TypeOK
      <4> QED BY <2>2, <3>1, <3>3, <4>1, <4>2 DEF Keeps, Posted, PostedNext
    <3> QED BY <3>2, <3>3
  <2> QED BY <1>3, <2>2, <2>3
<1> QED BY <1>5, <1>6, <1>7, <1>8

\* When the search finds nothing, no message on an unexpected list fits.
LEMMA NoMatchingPeer ==
  ASSUME Least, TypeOK, UnexpectedOK, NEW want \in Wanted, matching_peer(want) = None,
         NEW p \in Peers, NEW i \in 1 .. Len(unexpected_frags[p])
  PROVE  ~Fits(want, unexpected_frags[p][i])
<1> SUFFICES ASSUME Fits(want, unexpected_frags[p][i]) PROVE FALSE
  OBVIOUS
<1>1. want.peer \in {AnySource, p} /\ TagMatches(want, unexpected_frags[p][i])
  BY DEF Fits, UnexpectedOK
<1>2. recv_req_match_specific_proc(want, p) # 0
  BY <1>1, SpecificProc
<1>3. None \notin Peers
  BY PeersAssumption
<1>4. CASE want.peer = AnySource
  <2>1. recv_req_match_wild(want) \in Peers
    BY <1>2, MatchWild
  <2> QED BY <1>3, <1>4, <2>1 DEF matching_peer
<1>5. CASE want.peer # AnySource
  BY <1>1, <1>2, <1>3, <1>5 DEF matching_peer
<1> QED BY <1>4, <1>5

\* A request is put on its queue, or asks in vain.
LEMMA StartNoMatchStep ==
  ASSUME Least, IInv, RInv, NEW t \in Threads, NEW r \in Reqs, NEW want \in Wanted,
         StartNoMatch(t, r, want)
  PROVE  Looked(r, want) /\ RestOK'
<1>0. TypeOK /\ ThreadOK /\ StartOK /\ PhaseOK /\ QueueOK /\ ReqOK /\ UnexpectedOK
  BY DEF IInv, RInv
<1>1. /\ req[r].state = "unused" /\ comm_state = "ready"
      /\ matching_peer(want) = None
      /\ recv_sequence' = recv_sequence + 1
      /\ UNCHANGED <<comm_state, unexpected_frags, pc, cur>>
  BY DEF StartNoMatch, start_common, commVars
<1>2. PICK waits \in BOOLEAN :
        /\ req' = [req EXCEPT ![r] =
              [state |-> IF waits THEN "posted" ELSE "nothing", want |-> want,
               seq |-> recv_sequence, frag |-> None]]
        /\ wild_receives' = IF waits /\ want.peer = AnySource
                            THEN wild_receives \cup {r} ELSE wild_receives
        /\ specific_receives' =
              IF waits /\ want.peer # AnySource
              THEN [specific_receives EXCEPT ![want.peer] = @ \cup {r}]
              ELSE specific_receives
  BY ZenonT(60) DEF StartNoMatch
<1>3. /\ req'[r].state = IF waits THEN "posted" ELSE "nothing"
      /\ req'[r].want = want /\ req'[r].seq = recv_sequence /\ req'[r].frag = None
  BY Zenon, <1>0, <1>2 DEF TypeOK
<1>4. \A x \in Reqs \ {r} : Keeps(x)
  BY Zenon, <1>0, <1>2 DEF TypeOK, Keeps
<1>5. Looked(r, want)
  <2>1. \A p \in Peers : \A i \in 1 .. Len(unexpected_frags[p]) :
          ~Fits(want, unexpected_frags[p][i])
    BY <1>0, <1>1, NoMatchingPeer
  <2>2. req'[r].state # "unused"
    BY <1>3
  <2> QED BY Zenon, <1>1, <1>3, <1>4, <2>1, <2>2 DEF Looked, Opens
<1>6. QueueOK'
  <2> SUFFICES ASSUME NEW x \in Reqs
               PROVE  /\ x \in wild_receives' <=>
                           PostedNext(x) /\ req'[x].want.peer = AnySource
                      /\ \A p \in Peers : x \in specific_receives'[p] <=>
                           PostedNext(x) /\ req'[x].want.peer = p
    BY Zenon DEF QueueOK, Posted, PostedNext
  <2>1. /\ x \in wild_receives <=> Posted(x) /\ req[x].want.peer = AnySource
        /\ \A p \in Peers : x \in specific_receives[p] <=> Posted(x) /\ req[x].want.peer = p
    BY <1>0 DEF QueueOK
  <2>2. \A p \in Peers : specific_receives'[p] =
          IF waits /\ p = want.peer THEN specific_receives[p] \cup {r} ELSE specific_receives[p]
    BY ZenonT(60), <1>0, <1>2, PeersAssumption DEF TypeOK
  <2>3. CASE x = r
    <3>1. ~Posted(x)
      BY <1>1, <2>3 DEF Posted
    <3> QED BY <1>2, <1>3, <2>1, <2>2, <2>3, <3>1 DEF PostedNext
  <2>4. CASE x # r
    <3>1. req'[x] = req[x]
      BY <1>4, <2>4 DEF Keeps
    <3>2. /\ x \in wild_receives' <=> x \in wild_receives
          /\ \A p \in Peers : x \in specific_receives'[p] <=> x \in specific_receives[p]
      BY <1>2, <2>2, <2>4
    <3> QED BY Zenon, <2>1, <3>1, <3>2 DEF Posted, PostedNext
  <2> QED BY ZenonT(60), <2>3, <2>4
<1>7. StartOK'
  <2>1. \A x \in Reqs : Started(x) => StartedNext(x)
    BY Zenon, <1>1, <1>4, KeepsFacts DEF Started
  <2>2. \A u \in Threads : pc'[u] = "start" => pc[u] = "start" /\ cur'[u].req = cur[u].req
    BY ZenonT(60), <1>1
  <2> QED BY ZenonT(60), <1>0, <2>1, <2>2, StartKept
<1>8. PhaseOK'
  BY <1>0, <1>1, PhaseKept
<1> QED BY <1>5, <1>6, <1>7, <1>8 DEF RestOK

\* A request finds a message: it takes the first that fits, or looks at it.
LEMMA StartMatchStep ==
  ASSUME Least, IInv, RInv, NEW t \in Threads, NEW r \in Reqs, NEW want \in Wanted,
         StartMatch(t, r, want)
  PROVE  /\ \/ Looked(r, want)
            \/ \E p \in Peers : \E i \in 1 .. Len(unexpected_frags[p]) : Took(r, want, p, i)
         /\ RestOK'
<1>0. TypeOK /\ ThreadOK /\ StartOK /\ PhaseOK /\ QueueOK /\ ReqOK /\ UnexpectedOK
  BY DEF IInv, RInv
<1>1. /\ req[r].state = "unused" /\ comm_state = "ready"
      /\ matching_peer(want) # None
      /\ recv_sequence' = recv_sequence + 1
      /\ UNCHANGED <<comm_state, wild_receives, specific_receives>>
  BY Zenon DEF StartMatch, start_common, commVars, recvVars
<1>2. PICK p \in Peers : p = matching_peer(want) /\ recv_req_match_specific_proc(want, p) # 0
  BY ZenonT(60), <1>0, <1>1, MatchingPeer
<1>3. PICK i \in 1 .. Len(unexpected_frags[p]) :
        /\ i = recv_req_match_specific_proc(want, p)
        /\ \A j \in 1 .. Len(unexpected_frags[p]) :
             TagMatches(want, unexpected_frags[p][j]) => i <= j
  BY <1>0, <1>2, SpecificProc
<1>4. /\ IF want.type \in {"PROBE", "IPROBE"} THEN UNCHANGED unexpected_frags
         ELSE remove_unexpected(p, i)
      /\ req' = [req EXCEPT ![r] =
           [state |-> IF want.type = "RECV" THEN "taken" ELSE "probed",
            want |-> want, seq |-> recv_sequence,
            frag |-> IF want.type \in {"PROBE", "IPROBE"} THEN None
                     ELSE unexpected_frags[p][i]]]
      /\ \/ pc' = [pc EXCEPT ![t] = "start"] /\ cur' = [cur EXCEPT ![t].req = r]
         \/ UNCHANGED <<pc, cur>>
  BY Zenon, <1>2, <1>3 DEF StartMatch
<1>5. /\ req'[r].state \in {"taken", "probed"}
      /\ req'[r].want = want /\ req'[r].seq = recv_sequence
      /\ req'[r].frag = IF want.type \in {"PROBE", "IPROBE"} THEN None
                        ELSE unexpected_frags[p][i]
  BY <1>0, <1>4 DEF TypeOK
<1>6. \A x \in Reqs \ {r} : Keeps(x)
  BY ZenonT(60), <1>0, <1>4 DEF TypeOK, Keeps
<1>7. Opens(r, want) /\ StartedNext(r) /\ ~PostedNext(r)
  BY <1>1, <1>5, <1>6 DEF Opens, StartedNext, PostedNext
<1>8. want.type \in {"PROBE", "IPROBE"} => Looked(r, want)
  BY Zenon, <1>4, <1>5, <1>7 DEF Looked
<1>9. want.type \notin {"PROBE", "IPROBE"} => Took(r, want, p, i)
  BY ZenonT(60), <1>3, <1>4, <1>5, <1>7 DEF Took, remove_unexpected
<1>10. QueueOK'
  <2>1. ~Posted(r)
    BY Zenon, <1>1 DEF Posted
  <2>2. UNCHANGED recvVars
    BY Zenon, <1>1 DEF recvVars
  <2> QED BY Zenon, <1>0, <1>6, <1>7, <2>1, <2>2, QueueKept
<1>11. PhaseOK'
  <2>1. \A u \in Threads : pc'[u] = "add_comm" => pc[u] = "add_comm"
    BY <1>0, <1>4 DEF TypeOK
  <2> QED BY Zenon, <1>0, <1>1, <2>1, PhaseKept
<1>12. StartOK'
  <2>1. \A x \in Reqs : Started(x) => StartedNext(x)
    BY Zenon, <1>1, <1>6, KeepsFacts DEF Started
  <2>2. CASE UNCHANGED <<pc, cur>>
    <3>1. \A u \in Threads : pc'[u] = "start" => pc[u] = "start" /\ cur'[u].req = cur[u].req
      BY Zenon, <2>2
    <3> QED BY ZenonT(60), <1>0, <2>1, <3>1, StartKept
  <2>3. CASE pc' = [pc EXCEPT ![t] = "start"] /\ cur' = [cur EXCEPT ![t].req = r]
    <3> SUFFICES ASSUME NEW u \in Threads, pc'[u] = "start"
                 PROVE  req'[cur'[u].req].state \notin {"posted", "unused"}
      BY Zenon DEF StartOK, Started
    <3>1. CASE u = t
      <4>1. cur'[u].req = r
        BY <1>0, <2>3, <3>1 DEF TypeOK
      <4> QED BY <1>7, <4>1 DEF StartedNext
    <3>2. CASE u # t
      <4>1. pc[u] = "start" /\ cur'[u] = cur[u]
        BY <1>0, <2>3, <3>2 DEF TypeOK
      <4>2. cur[u].req \in Reqs /\ Started(cur[u].req)
        BY <1>0, <4>1 DEF ThreadOK, StartOK
      <4> QED BY <2>1, <4>1, <4>2 DEF Started, StartedNext
    <3> QED BY ZenonT(60), <3>1, <3>2
  <2> QED BY <1>4, <2>2, <2>3
<1> QED BY ZenonT(60), <1>8, <1>9, <1>10, <1>11, <1>12 DEF RestOK

\* A critical section around match_one.
LEMMA MatchStep ==
  ASSUME Least, IInv, RInv, NEW t \in Threads, pc[t] # "add_comm", NEW f \in Frags, match_one(t, f),
         UNCHANGED <<recv_sequence, comm_state>>
  PROVE  (Stored(f) \/ \E m \in Reqs : Gave(f, m)) /\ RestOK'
<1>0. TypeOK /\ ThreadOK /\ StartOK /\ PhaseOK /\ QueueOK /\ ReqOK
  BY DEF IInv, RInv
<1>1. QueueOK' /\ (Stored(f) \/ \E m \in Reqs : Gave(f, m))
  BY <1>0, MatchOneEffect
<1>2. /\ \A x \in Reqs : Started(x) => StartedNext(x)
      /\ \A x \in Reqs : PostedNext(x) => Posted(x)
  <2>1. CASE Stored(f)
    BY Zenon, <2>1, KeepsFacts DEF Stored
  <2>2. ASSUME NEW m \in Reqs, Gave(f, m)
        PROVE  /\ \A x \in Reqs : Started(x) => StartedNext(x)
               /\ \A x \in Reqs : PostedNext(x) => Posted(x)
    BY Zenon, <2>2, KeepsFacts DEF Gave
  <2> QED BY <1>1, <2>1, <2>2
<1>3. \A u \in Threads : IF u = t THEN pc'[u] = "progress"
                         ELSE pc'[u] = pc[u] /\ cur'[u] = cur[u]
  <2>1. pc' = [pc EXCEPT ![t] = "progress"] /\ \E c : cur' = [cur EXCEPT ![t] = c]
    BY Zenon DEF match_one
  <2> QED BY <1>0, <2>1 DEF TypeOK
<1>4. StartOK'
  <2>1. \A u \in Threads : pc'[u] = "start" => pc[u] = "start" /\ cur'[u].req = cur[u].req
    BY <1>3
  <2> QED BY Zenon, <1>0, <1>2, <2>1, StartKept
<1>5. PhaseOK'
  <2>1. \A u \in Threads : pc'[u] = "add_comm" => pc[u] = "add_comm"
    BY Zenon, <1>3
  <2> QED BY <1>0, <1>2, <2>1, PhaseKept
<1> QED BY <1>1, <1>4, <1>5 DEF RestOK

\* While the communicator is being added nothing is posted: a fragment that
\* is in sequence goes to the unexpected list.
LEMMA AddingStep ==
  ASSUME IInv, RInv, NEW t \in Threads, pc[t] = "add_comm",
         UNCHANGED <<recvVars, recv_sequence, comm_state, req, pc>>,
         \A u \in Threads : cur'[u].req = cur[u].req
  PROVE  /\ RestOK'
         /\ unexpected_frags' = unexpected_frags => Quiet
         /\ \A f \in Frags : to_unexpected(f) => Stored(f)
<1>0. TypeOK /\ ThreadOK /\ StartOK /\ PhaseOK /\ QueueOK
  BY DEF IInv, RInv
<1>1. QueueOK' /\ \A r \in Reqs : Keeps(r)
  BY <1>0, SameReqs
<1>2. StartOK'
  BY <1>0, StartKept DEF Started, StartedNext
<1>3. PhaseOK'
  BY <1>0, PhaseKept DEF Posted, PostedNext
<1>4. \A r \in Reqs : ~PostedNext(r)
  BY <1>0 DEF PhaseOK, Posted, PostedNext
<1> QED BY <1>1, <1>2, <1>3, <1>4 DEF Quiet, Stored, to_unexpected, RestOK

------------------------------------------------------------------------------
(* The unexpected lists after a step.                                      *)

\* z is s without its i-th element.
Without(z, s, i) ==
  /\ Len(s) \in Nat
  /\ Len(z) = Len(s) - 1
  /\ \A j \in 1 .. Len(z) : z[j] = IF j < i THEN s[j] ELSE s[j + 1]

\* Two sequences put together.
LEMMA Joined ==
  ASSUME NEW S, NEW s \in Seq(S), NEW z \in Seq(S)
  PROVE  /\ s \o z \in Seq(S)
         /\ Len(s \o z) = Len(s) + Len(z)
         /\ \A i \in 1 .. Len(s) + Len(z) :
              (s \o z)[i] = IF i <= Len(s) THEN s[i] ELSE z[i - Len(s)]
OBVIOUS

\* A sequence without its i-th element.
LEMMA Removal ==
  ASSUME NEW S, NEW s \in Seq(S), NEW i \in 1 .. Len(s)
  PROVE  LET z == SubSeq(s, 1, i - 1) \o SubSeq(s, i + 1, Len(s))
         IN  z \in Seq(S) /\ Without(z, s, i)
<1> DEFINE a == SubSeq(s, 1, i - 1)
           b == SubSeq(s, i + 1, Len(s))
<1>1. a \in Seq(S) /\ Len(a) = i - 1 /\ \A j \in 1 .. i - 1 : a[j] = s[j]
  OBVIOUS
<1>2. /\ b \in Seq(S) /\ Len(b) = Len(s) - i
      /\ \A j \in 1 .. Len(s) - i : b[j] = s[j + i]
  OBVIOUS
<1> HIDE DEF a, b
<1>3. a \o b \in Seq(S) /\ Len(a \o b) = Len(a) + Len(b)
  BY Zenon, <1>1, <1>2, Joined
<1>4. \A j \in 1 .. Len(a) + Len(b) :
        (a \o b)[j] = IF j <= Len(a) THEN a[j] ELSE b[j - Len(a)]
  BY <1>1, <1>2, Joined
<1>5. i \in Nat /\ 1 <= i /\ i <= Len(s) /\ Len(s) \in Nat
  OBVIOUS
<1>6. Len(a \o b) = Len(s) - 1
  BY <1>1, <1>2, <1>3, <1>5
<1>7. ASSUME NEW j \in 1 .. Len(s) - 1
      PROVE  (a \o b)[j] = IF j < i THEN s[j] ELSE s[j + 1]
  <2>1. CASE j < i
    <3>1. (a \o b)[j] = a[j]
      BY <1>1, <1>2, <1>4, <1>5, <2>1
    <3> QED BY <1>1, <1>5, <2>1, <3>1
  <2>2. CASE ~(j < i)
    <3>1. (a \o b)[j] = b[j - (i - 1)] /\ j - (i - 1) \in 1 .. Len(s) - i
      BY <1>1, <1>2, <1>4, <1>5, <2>2
    <3>2. b[j - (i - 1)] = s[j - (i - 1) + i] /\ j - (i - 1) + i = j + 1
      BY <1>2, <1>5, <3>1
    <3> QED BY Zenon, <2>2, <3>1, <3>2
  <2> QED BY Zenon, <2>1, <2>2
<1>8. Without(a \o b, s, i)
  BY <1>5, <1>6, <1>7 DEF Without
<1> QED BY <1>3, <1>8 DEF a, b

\* A message is appended.
LEMMA StoredList ==
  ASSUME TypeOK, NEW f \in Frags, Stored(f), NEW p \in Peers
  PROVE  /\ Len(unexpected_frags'[p]) =
              IF p = f.src THEN Len(unexpected_frags[p]) + 1 ELSE Len(unexpected_frags[p])
         /\ \A i \in 1 .. Len(unexpected_frags[p]) :
              unexpected_frags'[p][i] = unexpected_frags[p][i]
         /\ p = f.src => unexpected_frags'[p][Len(unexpected_frags[p]) + 1] = f
         /\ Len(unexpected_frags[p]) \in Nat
<1>1. unexpected_frags[p] \in Seq(Frags)
  BY DEF TypeOK
<1>2. unexpected_frags'[p] =
        IF p = f.src THEN Append(unexpected_frags[p], f) ELSE unexpected_frags[p]
  BY Zenon DEF TypeOK, Stored
<1> QED BY <1>1, <1>2

\* A message is taken.
LEMMA TookList ==
  ASSUME TypeOK, NEW r, NEW w, NEW p \in Peers, NEW i \in 1 .. Len(unexpected_frags[p]),
         Took(r, w, p, i)
  PROVE  /\ \A q \in Peers \ {p} : unexpected_frags'[q] = unexpected_frags[q]
         /\ Without(unexpected_frags'[p], unexpected_frags[p], i)
<1>1. unexpected_frags \in [Peers -> Seq(Frags)]
  BY DEF TypeOK
<1>2. unexpected_frags' = [unexpected_frags EXCEPT ![p] =
        SubSeq(@, 1, i - 1) \o SubSeq(@, i + 1, Len(@))]
  BY DEF Took
<1>3. /\ \A q \in Peers \ {p} : unexpected_frags'[q] = unexpected_frags[q]
      /\ unexpected_frags'[p] = SubSeq(unexpected_frags[p], 1, i - 1)
                                \o SubSeq(unexpected_frags[p], i + 1, Len(unexpected_frags[p]))
  BY Zenon, <1>1, <1>2
<1>4. unexpected_frags[p] \in Seq(Frags) /\ Len(unexpected_frags[p]) \in Nat
  BY <1>1
<1>5. PICK s \in Seq(Frags) : s = unexpected_frags[p]
  BY <1>4
<1>6. i \in 1 .. Len(s) /\ unexpected_frags'[p] = SubSeq(s, 1, i - 1) \o SubSeq(s, i + 1, Len(s))
  BY <1>3, <1>5
<1>7. Without(unexpected_frags'[p], s, i)
  BY Zenon, <1>6, Removal
<1> QED BY Zenon, <1>3, <1>4, <1>5, <1>7

\* What was there before is what is there after, but for a stored message.
LEMMA OldMessages ==
  ASSUME TypeOK, NEW p \in Peers, NEW i \in 1 .. Len(unexpected_frags'[p]),
         \/ UNCHANGED unexpected_frags
         \/ \E r, w : \E q \in Peers : \E k \in 1 .. Len(unexpected_frags[q]) : Took(r, w, q, k)
  PROVE  \E j \in 1 .. Len(unexpected_frags[p]) :
            unexpected_frags'[p][i] = unexpected_frags[p][j]
<1>1. CASE UNCHANGED unexpected_frags
  BY <1>1
<1>2. ASSUME NEW r, NEW w, NEW q \in Peers, NEW k \in 1 .. Len(unexpected_frags[q]),
             Took(r, w, q, k)
      PROVE  \E j \in 1 .. Len(unexpected_frags[p]) :
                unexpected_frags'[p][i] = unexpected_frags[p][j]
  <2>1. CASE p # q
    <3>1. unexpected_frags'[p] = unexpected_frags[p]
      BY <1>2, <2>1, TookList
    <3> QED BY <3>1
  <2>2. CASE p = q
    <3>1. /\ Len(unexpected_frags[p]) \in Nat
          /\ Len(unexpected_frags'[p]) = Len(unexpected_frags[p]) - 1
          /\ unexpected_frags'[p][i] =
               IF i < k THEN unexpected_frags[p][i] ELSE unexpected_frags[p][i + 1]
      <4>1. Without(unexpected_frags'[q], unexpected_frags[q], k)
        BY <1>2, TookList
      <4> QED BY <2>2, <4>1 DEF Without
    <3>2. i \in 1 .. Len(unexpected_frags[p]) /\ i + 1 \in 1 .. Len(unexpected_frags[p])
      BY <3>1
    <3> QED BY <3>1, <3>2
  <2> QED BY <2>1, <2>2
<1> QED BY <1>1, <1>2

------------------------------------------------------------------------------
(* Every conjunct of RInv after a step.                                    *)

\* A step keeps ReqOK: a request that is posted has no message yet.
LEMMA ReqStep ==
  ASSUME IInv, RInv, Change
  PROVE  ReqOK'
<1>0. TypeOK /\ ReqOK
  BY DEF IInv, RInv
<1>1. recv_sequence \in Nat /\ \A r \in Reqs : req[r] \in ReqRecords
  BY <1>0, TypeParts DEF RecvTypeOK, CommTypeOK
<1>2. recv_sequence' \in Nat /\ recv_sequence <= recv_sequence'
  <2>1. recv_sequence' \in {recv_sequence, recv_sequence + 1}
    BY ZenonT(60) DEF Change, Quiet, Stored, Gave, Looked, Took, Opens
  <2> QED BY <1>1, <2>1
<1> SUFFICES ASSUME NEW r \in Reqs
             PROVE  /\ PostedNext(r) => req'[r].want \in Wanted
                    /\ ~StartedNext(r) => req'[r].frag = None
                    /\ req'[r].state # "unused" => req'[r].seq < recv_sequence'
  BY DEF ReqOK, Posted, PostedNext, Started, StartedNext
<1>3. /\ req[r].state = "posted" => req[r].want \in Wanted
      /\ req[r].state \in {"posted", "unused"} => req[r].frag = None
      /\ req[r].state # "unused" => req[r].seq < recv_sequence
      /\ req[r].seq \in Nat
  BY <1>0, <1>1 DEF ReqOK, Posted, Started, ReqRecords
<1>4. CASE Keeps(r)
  BY <1>1, <1>2, <1>3, <1>4 DEF Keeps, PostedNext, StartedNext
<1>5. CASE Marks(r)
  BY <1>1, <1>2, <1>3, <1>5 DEF Marks, PostedNext, StartedNext
<1>6. ASSUME NEW f, Gave(f, r)
      PROVE  /\ PostedNext(r) => req'[r].want \in Wanted
             /\ ~StartedNext(r) => req'[r].frag = None
             /\ req'[r].state # "unused" => req'[r].seq < recv_sequence'
  BY ZenonT(60), <1>1, <1>2, <1>3, <1>6 DEF Gave, Posted, PostedNext, StartedNext
<1>7. ASSUME NEW w \in Wanted, Looked(r, w)
      PROVE  /\ PostedNext(r) => req'[r].want \in Wanted
             /\ ~StartedNext(r) => req'[r].frag = None
             /\ req'[r].state # "unused" => req'[r].seq < recv_sequence'
  BY <1>1, <1>7 DEF Looked, Opens
<1>8. ASSUME NEW w \in Wanted, NEW p, NEW i, Took(r, w, p, i)
      PROVE  /\ PostedNext(r) => req'[r].want \in Wanted
             /\ ~StartedNext(r) => req'[r].frag = None
             /\ req'[r].state # "unused" => req'[r].seq < recv_sequence'
  BY <1>1, <1>8 DEF Took, Opens
<1>9. \/ Keeps(r) \/ Marks(r)
      \/ \E f : Gave(f, r)
      \/ \E w \in Wanted : Looked(r, w) \/ \E p, i : Took(r, w, p, i)
  <2>1. CASE Quiet
    BY ZenonT(60), <2>1 DEF Quiet
  <2>2. ASSUME NEW f, Stored(f) \/ \E m \in Reqs : Gave(f, m)
        PROVE  Keeps(r) \/ Marks(r) \/ Gave(f, r)
    BY Zenon, <2>2 DEF Stored, Gave
  <2>3. ASSUME NEW x \in Reqs, NEW w \in Wanted, Looked(x, w)
        PROVE  Keeps(r) \/ Looked(r, w)
    BY Zenon, <2>3 DEF Looked, Opens
  <2>4. ASSUME NEW x \in Reqs, NEW w \in Wanted, NEW p, NEW i, Took(x, w, p, i)
        PROVE  Keeps(r) \/ Took(r, w, p, i)
    BY <2>4 DEF Took, Opens
  <2> QED BY <2>1, <2>2, <2>3, <2>4 DEF Change
<1> QED BY Zenon, <1>4, <1>5, <1>6, <1>7, <1>8, <1>9

\* A request that is posted after a step was posted before it or has just
\* been posted.
LEMMA PostedBefore ==
  ASSUME Quiet \/ (\E f \in Frags : Stored(f) \/ \E m \in Reqs : Gave(f, m)),
         NEW r \in Reqs, PostedNext(r)
  PROVE  Posted(r) /\ Keeps(r)
<1>1. Keeps(r) \/ Marks(r) \/ \E f : Gave(f, r)
  BY Zenon DEF Quiet, Stored, Gave
<1>2. Keeps(r)
  BY Zenon, <1>1, KeepsFacts DEF Gave, PostedNext, StartedNext
<1> QED BY Zenon, <1>2, KeepsFacts

\* A request that is posted after another took a message was posted before.
LEMMA PostedElsewhere ==
  ASSUME NEW x \in Reqs, NEW w, NEW p, NEW i, Took(x, w, p, i),
         NEW r \in Reqs, PostedNext(r)
  PROVE  Posted(r) /\ Keeps(r)
<1>1. r # x
  BY DEF Took, PostedNext, StartedNext
<1>2. Keeps(r)
  BY Zenon, <1>1 DEF Took, Opens
<1> QED BY Zenon, <1>2, KeepsFacts

\* Neither search passes the other.
LEMMA NoMissedMatchStep ==
  ASSUME IInv, RInv, Change
  PROVE  NoMissedMatch'
<1> SUFFICES ASSUME NEW r \in Reqs, NEW p \in Peers, PostedNext(r),
                    NEW i \in 1 .. Len(unexpected_frags'[p])
             PROVE  ~Fits(req'[r].want, unexpected_frags'[p][i])
  BY DEF NoMissedMatch, PostedNext, Fits, TagMatches
<1>0. TypeOK
  BY Zenon DEF IInv
<1>1. Posted(r) => \A j \in 1 .. Len(unexpected_frags[p]) :
                      ~Fits(req[r].want, unexpected_frags[p][j])
  BY Zenon DEF RInv, NoMissedMatch, Posted
<1>2. CASE Quiet
  <2>1. Posted(r) /\ Keeps(r)
    BY Zenon, <1>2, PostedBefore
  <2> QED BY Zenon, <1>1, <1>2, <2>1 DEF Quiet, Keeps
<1>3. ASSUME NEW f \in Frags, Stored(f)
      PROVE  ~Fits(req'[r].want, unexpected_frags'[p][i])
  <2>1. Posted(r) /\ Keeps(r)
    BY <1>3, PostedBefore
  <2>2. /\ Len(unexpected_frags'[p]) =
             IF p = f.src THEN Len(unexpected_frags[p]) + 1 ELSE Len(unexpected_frags[p])
        /\ \A j \in 1 .. Len(unexpected_frags[p]) :
             unexpected_frags'[p][j] = unexpected_frags[p][j]
        /\ p = f.src => unexpected_frags'[p][Len(unexpected_frags[p]) + 1] = f
        /\ Len(unexpected_frags[p]) \in Nat
    BY <1>0, <1>3, StoredList
  <2>3. ~Fits(req[r].want, f)
    BY <1>3 DEF Stored
  <2>4. \/ i \in 1 .. Len(unexpected_frags[p])
        \/ p = f.src /\ i = Len(unexpected_frags[p]) + 1
    BY <2>2
  <2>5. \/ unexpected_frags'[p][i] = f
        \/ \E j \in 1 .. Len(unexpected_frags[p]) : unexpected_frags'[p][i] = unexpected_frags[p][j]
    BY ZenonT(60), <2>2, <2>4
  <2> QED BY <1>1, <2>1, <2>3, <2>5 DEF Keeps
<1>4. ASSUME NEW f \in Frags, NEW m \in Reqs, Gave(f, m)
      PROVE  ~Fits(req'[r].want, unexpected_frags'[p][i])
  <2>1. Posted(r) /\ Keeps(r)
    BY <1>4, PostedBefore
  <2> QED BY <1>1, <1>4, <2>1 DEF Gave, Keeps
<1>5. ASSUME NEW x \in Reqs, NEW w \in Wanted, Looked(x, w)
      PROVE  ~Fits(req'[r].want, unexpected_frags'[p][i])
  <2>1. CASE r = x
    BY Zenon, <1>5, <2>1 DEF Looked, Opens
  <2>2. CASE r # x
    <3>1. Posted(r) /\ Keeps(r)
      BY Zenon, <1>5, <2>2, KeepsFacts DEF Looked, Opens
    <3> QED BY <1>1, <1>5, <3>1 DEF Looked, Keeps
  <2> QED BY <2>1, <2>2
<1>6. ASSUME NEW x \in Reqs, NEW w \in Wanted, NEW q \in Peers,
             NEW k \in 1 .. Len(unexpected_frags[q]), Took(x, w, q, k)
      PROVE  ~Fits(req'[r].want, unexpected_frags'[p][i])
  <2>1. Posted(r) /\ Keeps(r)
    BY Zenon, <1>6, PostedElsewhere
  <2>2. \E j \in 1 .. Len(unexpected_frags[p]) : unexpected_frags'[p][i] = unexpected_frags[p][j]
    BY Zenon, <1>0, <1>6, OldMessages
  <2> QED BY <1>1, <2>1, <2>2 DEF Keeps
<1> QED BY Zenon, <1>2, <1>3, <1>4, <1>5, <1>6 DEF Change

\* Every change of the unexpected lists.
LEMMA UnexpectedCases ==
  ASSUME Change
  PROVE  \/ UNCHANGED unexpected_frags
         \/ \E f \in Frags : Consumed(f) /\ Stored(f)
         \/ \E r, w : \E q \in Peers : \E k \in 1 .. Len(unexpected_frags[q]) : Took(r, w, q, k)
BY Zenon DEF Change, Quiet, Gave, Looked

\* Without overtaking, what is consumed is the next message.
LEMMA ConsumedNumber ==
  ASSUME IInv, InOrder', ~AllowOvertake, NEW f \in Frags, Consumed(f)
  PROVE  /\ f.n = Len(log[f.src]) + 1
         /\ Len(log'[f.src]) = Len(log[f.src]) + 1
         /\ \A p \in Peers \ {f.src} : log'[p] = log[p]
<1>1. f.src \in Peers /\ f.n \in Nat /\ log \in [Peers -> Seq(Nat)] /\ Len(log[f.src]) \in Nat
  BY NumberTypes
<1>2. log' = [log EXCEPT ![f.src] = Append(@, f.n)]
  BY DEF Consumed
<1>3. log'[f.src] = Append(log[f.src], f.n) /\ \A p \in Peers \ {f.src} : log'[p] = log[p]
  BY <1>1, <1>2
<1>4. /\ Len(log'[f.src]) = Len(log[f.src]) + 1
      /\ log'[f.src][Len(log[f.src]) + 1] = f.n
  BY <1>1, <1>3
<1>5. \A i \in 1 .. Len(log'[f.src]) : log'[f.src][i] = i
  BY <1>1 DEF InOrder
<1>6. Len(log[f.src]) + 1 \in 1 .. Len(log'[f.src])
  BY <1>1, <1>4
<1> QED BY <1>3, <1>4, <1>5, <1>6

\* The logs only grow.
LEMMA LogGrows ==
  ASSUME IInv, InOrder', ~AllowOvertake, Change, NEW p \in Peers
  PROVE  Len(log[p]) \in Nat /\ Len(log'[p]) \in Nat /\ Len(log[p]) <= Len(log'[p])
<1>1. Len(log[p]) \in Nat
  BY NumberTypes
<1>2. CASE UNCHANGED log
  BY <1>1, <1>2
<1>3. ASSUME NEW f \in Frags, Consumed(f)
      PROVE  Len(log'[p]) \in {Len(log[p]), Len(log[p]) + 1}
  BY <1>3, ConsumedNumber
<1>4. UNCHANGED log \/ \E f \in Frags : Consumed(f)
  BY DEF Change, Sent, Moved
<1> QED BY <1>1, <1>2, <1>3, <1>4

\* The unexpected lists stay in the order of sending.
LEMMA UnexpectedStep ==
  ASSUME IInv, InOrder', RInv, Change
  PROVE  UnexpectedOK'
<1> DEFINE Old == \/ UNCHANGED unexpected_frags
                  \/ \E r, w : \E q \in Peers :
                       \E k \in 1 .. Len(unexpected_frags[q]) : Took(r, w, q, k)
<1>0. TypeOK /\ UnexpectedOK
  BY DEF IInv, RInv
<1>1. ASSUME NEW p \in Peers, NEW f \in Frags, Stored(f)
      PROVE  /\ Len(unexpected_frags[p]) \in Nat
             /\ \A i \in 1 .. Len(unexpected_frags'[p]) :
                  \/ /\ i \in 1 .. Len(unexpected_frags[p])
                     /\ unexpected_frags'[p][i] = unexpected_frags[p][i]
                  \/ /\ i = Len(unexpected_frags[p]) + 1
                     /\ p = f.src
                     /\ unexpected_frags'[p][i] = f
  <2>1. /\ Len(unexpected_frags'[p]) =
             IF p = f.src THEN Len(unexpected_frags[p]) + 1 ELSE Len(unexpected_frags[p])
        /\ \A i \in 1 .. Len(unexpected_frags[p]) :
             unexpected_frags'[p][i] = unexpected_frags[p][i]
        /\ p = f.src => unexpected_frags'[p][Len(unexpected_frags[p]) + 1] = f
        /\ Len(unexpected_frags[p]) \in Nat
    BY <1>0, <1>1, StoredList
  <2>2. ASSUME NEW i \in 1 .. Len(unexpected_frags'[p])
        PROVE  i \in 1 .. Len(unexpected_frags[p]) \/ (i = Len(unexpected_frags[p]) + 1 /\ p = f.src)
    BY <2>1
  <2> QED BY Zenon, <2>1, <2>2
<1>2. ASSUME Old, NEW p \in Peers, NEW i \in 1 .. Len(unexpected_frags'[p])
      PROVE  \E j \in 1 .. Len(unexpected_frags[p]) :
                unexpected_frags'[p][i] = unexpected_frags[p][j]
  BY Zenon, <1>0, <1>2, OldMessages
<1>3. Old \/ \E f \in Frags : Consumed(f) /\ Stored(f)
  BY Zenon, UnexpectedCases
<1> HIDE DEF Old
<1>4. ASSUME NEW p \in Peers, NEW i \in 1 .. Len(unexpected_frags'[p])
      PROVE  unexpected_frags'[p][i].src = p
  <2>1. \A j \in 1 .. Len(unexpected_frags[p]) : unexpected_frags[p][j].src = p
    BY <1>0 DEF UnexpectedOK
  <2>2. CASE Old
    BY <1>2, <2>1, <2>2
  <2>3. ASSUME NEW f \in Frags, Stored(f) PROVE unexpected_frags'[p][i].src = p
    BY <1>1, <2>1, <2>3
  <2> QED BY <1>3, <2>2, <2>3
<1>5. ASSUME ~AllowOvertake, NEW p \in Peers, NEW i \in 1 .. Len(unexpected_frags'[p])
      PROVE  unexpected_frags'[p][i].n <= Len(log'[p])
  <2>1. \A j \in 1 .. Len(unexpected_frags[p]) :
           unexpected_frags[p][j].n <= Len(log[p]) /\ unexpected_frags[p][j].n \in Nat
    BY <1>0, <1>5, NumberTypes DEF UnexpectedOK
  <2>2. Len(log[p]) \in Nat /\ Len(log'[p]) \in Nat /\ Len(log[p]) <= Len(log'[p])
    BY <1>5, LogGrows
  <2>3. CASE Old
    <3>1. PICK j \in 1 .. Len(unexpected_frags[p]) :
             unexpected_frags'[p][i] = unexpected_frags[p][j]
      BY <1>2, <2>3
    <3> QED BY <2>1, <2>2, <3>1
  <2>4. ASSUME NEW f \in Frags, Consumed(f), Stored(f)
        PROVE  unexpected_frags'[p][i].n <= Len(log'[p])
    <3>1. p = f.src => f.n = Len(log'[p]) /\ f.n \in Nat
      BY <1>5, <2>4, ConsumedNumber, NumberTypes
    <3>2. CASE i \in 1 .. Len(unexpected_frags[p]) /\ unexpected_frags'[p][i] = unexpected_frags[p][i]
      BY <2>1, <2>2, <3>2
    <3>3. CASE p = f.src /\ unexpected_frags'[p][i] = f
      BY <3>1, <3>3
    <3> QED BY ZenonT(60), <1>1, <2>4, <3>2, <3>3
  <2> QED BY <1>3, <2>3, <2>4
<1>6. ASSUME ~AllowOvertake, NEW p \in Peers, NEW i \in 1 .. Len(unexpected_frags'[p]),
             NEW j \in 1 .. Len(unexpected_frags'[p]), i < j
      PROVE  unexpected_frags'[p][i].n < unexpected_frags'[p][j].n
  <2>1. /\ \A a, b \in 1 .. Len(unexpected_frags[p]) :
             a < b => unexpected_frags[p][a].n < unexpected_frags[p][b].n
        /\ \A a \in 1 .. Len(unexpected_frags[p]) :
             unexpected_frags[p][a].n <= Len(log[p]) /\ unexpected_frags[p][a].n \in Nat
    BY <1>0, <1>6, NumberTypes DEF UnexpectedOK
  <2>2. CASE unexpected_frags'[p] = unexpected_frags[p]
    BY <1>6, <2>1, <2>2
  <2>3. ASSUME NEW f \in Frags, Consumed(f), Stored(f)
        PROVE  unexpected_frags'[p][i].n < unexpected_frags'[p][j].n
    <3>1. p = f.src => f.n = Len(log[p]) + 1 /\ f.n \in Nat /\ Len(log[p]) \in Nat
      BY <1>6, <2>3, ConsumedNumber, NumberTypes
    <3>2. i \in 1 .. Len(unexpected_frags[p]) /\ unexpected_frags'[p][i] = unexpected_frags[p][i]
      <4>1. j <= Len(unexpected_frags[p]) + 1 /\ Len(unexpected_frags[p]) \in Nat
        BY <1>1, <2>3
      <4>2. i # Len(unexpected_frags[p]) + 1
        BY <1>6, <4>1
      <4> QED BY <1>1, <2>3, <4>2
    <3>3. CASE j \in 1 .. Len(unexpected_frags[p]) /\ unexpected_frags'[p][j] = unexpected_frags[p][j]
      BY Zenon, <1>6, <2>1, <3>2, <3>3
    <3>4. CASE p = f.src /\ unexpected_frags'[p][j] = f
      BY <2>1, <3>1, <3>2, <3>4
    <3> QED BY Zenon, <1>1, <2>3, <3>3, <3>4
  <2>4. ASSUME NEW r, NEW w, NEW q \in Peers, NEW k \in 1 .. Len(unexpected_frags[q]),
               Took(r, w, q, k)
        PROVE  unexpected_frags'[p][i].n < unexpected_frags'[p][j].n
    <3>1. p # q => unexpected_frags'[p] = unexpected_frags[p]
      BY <1>0, <2>4, TookList
    <3>2. CASE p = q
      <4>1. Without(unexpected_frags'[p], unexpected_frags[p], k)
        BY Zenon, <1>0, <2>4, <3>2, TookList
      <4> DEFINE old(x) == IF x < k THEN x ELSE x + 1
      <4>2. /\ unexpected_frags'[p][i] = unexpected_frags[p][old(i)]
            /\ unexpected_frags'[p][j] = unexpected_frags[p][old(j)]
        BY <4>1 DEF Without
      <4>3. old(i) \in 1 .. Len(unexpected_frags[p]) /\ old(j) \in 1 .. Len(unexpected_frags[p])
        BY <4>1 DEF Without
      <4>4. old(i) < old(j)
        BY <1>6
      <4> HIDE DEF old
      <4> QED BY Zenon, <2>1, <4>2, <4>3, <4>4
    <3> QED BY Zenon, <2>2, <3>1, <3>2
  <2> QED BY Zenon, <1>3, <2>2, <2>3, <2>4 DEF Old
<1> QED BY <1>4, <1>5, <1>6 DEF UnexpectedOK

\* r owned its message before the step.
Owned(r) ==
  /\ req[r].frag # None
  /\ req'[r].frag = req[r].frag
  /\ req'[r].want = req[r].want
  /\ req'[r].seq = req[r].seq

\* A request that owns a message has just got it or owned it before.
LEMMA OwnerCases ==
  ASSUME Change, NEW r \in Reqs, req'[r].frag # None
  PROVE  \/ Owned(r)
         \/ \E f \in Frags : Consumed(f) /\ Gave(f, r)
         \/ Moved /\ \E w \in Wanted : \E p \in Peers :
              \E i \in 1 .. Len(unexpected_frags[p]) : Took(r, w, p, i)
<1>1. Keeps(r) \/ Marks(r) => Owned(r)
  BY DEF Keeps, Marks, Owned
<1>2. CASE Quiet
  BY <1>1, <1>2 DEF Quiet
<1>3. ASSUME NEW f \in Frags, Consumed(f), Stored(f) \/ \E m \in Reqs : Gave(f, m)
      PROVE  Owned(r) \/ Gave(f, r)
  BY ZenonT(60), <1>1, <1>3 DEF Stored, Gave
<1>4. ASSUME NEW x \in Reqs, NEW w \in Wanted, Looked(x, w) PROVE Owned(r)
  BY Zenon, <1>1, <1>4 DEF Looked, Opens
<1>5. ASSUME NEW x \in Reqs, NEW w \in Wanted, NEW p \in Peers,
             NEW i \in 1 .. Len(unexpected_frags[p]), Took(x, w, p, i)
      PROVE  Owned(r) \/ Took(r, w, p, i)
  BY Zenon, <1>1, <1>5 DEF Took, Opens
<1> QED BY ZenonT(60), <1>2, <1>3, <1>4, <1>5 DEF Change

\* What a request owns has been consumed.
LEMMA OwnedStep ==
  ASSUME IInv, InOrder', RInv, Change
  PROVE  OwnedOK'
<1> SUFFICES ASSUME ~AllowOvertake, NEW r \in Reqs, req'[r].frag # None
             PROVE  req'[r].frag.n <= Len(log'[req'[r].frag.src])
  BY DEF OwnedOK
<1>1. CASE Owned(r)
  <2>1. PICK g \in Frags : g = req[r].frag
    BY <1>1, NumberTypes DEF Owned
  <2>2. g.n <= Len(log[g.src]) /\ g.n \in Nat /\ g.src \in Peers
    BY <1>1, <2>1, NumberTypes DEF RInv, OwnedOK, Owned
  <2>3. Len(log[g.src]) \in Nat /\ Len(log'[g.src]) \in Nat /\ Len(log[g.src]) <= Len(log'[g.src])
    BY <2>2, LogGrows
  <2>4. req'[r].frag = g
    BY <1>1, <2>1 DEF Owned
  <2> QED BY <2>2, <2>3, <2>4
<1>2. ASSUME NEW f \in Frags, Consumed(f), Gave(f, r)
      PROVE  req'[r].frag.n <= Len(log'[req'[r].frag.src])
  <2>1. f.n = Len(log'[f.src]) /\ f.n \in Nat
    BY ZenonT(60), <1>2, ConsumedNumber, NumberTypes
  <2>2. req'[r].frag = f
    BY <1>2 DEF Gave
  <2> QED BY <2>1, <2>2
<1>3. ASSUME Moved, NEW w, NEW p \in Peers, NEW i \in 1 .. Len(unexpected_frags[p]), Took(r, w, p, i)
      PROVE  req'[r].frag.n <= Len(log'[req'[r].frag.src])
  <2>1. unexpected_frags[p][i].src = p /\ unexpected_frags[p][i].n <= Len(log[p])
    BY Zenon DEF RInv, UnexpectedOK
  <2>2. req'[r].frag = unexpected_frags[p][i] /\ log' = log
    BY Zenon, <1>3 DEF Took, Moved
  <2> QED BY Zenon, <2>1, <2>2
<1> QED BY Zenon, <1>1, <1>2, <1>3, OwnerCases

\* Receives match in the order they were posted.
LEMMA PostOrderStep ==
  ASSUME IInv, RInv, Change
  PROVE  PostOrder'
<1> SUFFICES ASSUME NEW r \in Reqs, NEW s \in Reqs, req'[r].frag # None, PostedNext(s),
                    req'[s].seq < req'[r].seq
             PROVE  ~Fits(req'[s].want, req'[r].frag)
  BY DEF PostOrder, PostedNext, Fits, TagMatches
<1>0. /\ \A x \in Reqs : req[x].seq \in Nat /\ (req[x].state # "unused" => req[x].seq < recv_sequence)
      /\ \A x \in Reqs : req[x].frag # None => req[x].state # "unused"
      /\ recv_sequence \in Nat
  <2>1. TypeOK
    BY Zenon DEF IInv
  <2>2. recv_sequence \in Nat /\ \A x \in Reqs : req[x] \in ReqRecords
    BY Zenon, <2>1, TypeParts DEF CommTypeOK, RecvTypeOK
  <2> QED BY <2>2 DEF RInv, ReqOK, Started, ReqRecords
<1>1. CASE Owned(r)
  <2>1. CASE Posted(s) /\ Keeps(s)
    BY <1>1, <2>1 DEF RInv, MatchingOrder, PostOrder, Owned, Keeps, Posted
  <2>2. ASSUME NEW w, Looked(s, w) PROVE FALSE
    <3>1. req'[s].seq = recv_sequence /\ req'[r].seq = req[r].seq /\ req[r].frag # None
      BY <1>1, <2>2 DEF Looked, Opens, Owned
    <3> QED BY <1>0, <3>1
  <2>3. (Posted(s) /\ Keeps(s)) \/ \E w : Looked(s, w)
    <3>1. CASE Quiet \/ (\E f \in Frags : Stored(f) \/ \E m \in Reqs : Gave(f, m))
      BY <3>1, PostedBefore
    <3>2. ASSUME NEW x \in Reqs, NEW w, Looked(x, w)
          PROVE  (Posted(s) /\ Keeps(s)) \/ Looked(s, w)
      BY Zenon, <3>2, KeepsFacts DEF Looked, Opens
    <3>3. ASSUME NEW x \in Reqs, NEW w, NEW p, NEW i, Took(x, w, p, i)
          PROVE  Posted(s) /\ Keeps(s)
      BY Zenon, <3>3, PostedElsewhere
    <3> QED BY ZenonT(60), <3>1, <3>2, <3>3 DEF Change
  <2> QED BY ZenonT(60), <2>1, <2>2, <2>3
<1>2. ASSUME NEW f \in Frags, Consumed(f), Gave(f, r)
      PROVE  ~Fits(req'[s].want, req'[r].frag)
  <2>1. Posted(s) /\ Keeps(s)
    BY ZenonT(60), <1>2, PostedBefore
  <2> QED BY Zenon, <1>2, <2>1 DEF Gave, Keeps
<1>3. ASSUME NEW w, NEW p \in Peers, NEW i \in 1 .. Len(unexpected_frags[p]), Took(r, w, p, i)
      PROVE  ~Fits(req'[s].want, req'[r].frag)
  <2>1. Posted(s) /\ Keeps(s)
    BY Zenon, <1>3, PostedElsewhere
  <2>2. ~Fits(req[s].want, unexpected_frags[p][i])
    BY Zenon, <2>1 DEF RInv, NoMissedMatch, Posted
  <2> QED BY <1>3, <2>1, <2>2 DEF Took, Keeps
<1> QED BY Zenon, <1>1, <1>2, <1>3, OwnerCases

\* The messages in transit of a peer.
LEMMA TransitMoves ==
  ASSUME IInv, NEW p \in Peers, NEW g
  PROVE  g \in InTransit(p) <=> g \in Frags /\ g.src = p /\ Moving(g)
<1> DEFINE pend == non_existing_communicator_pending
           S == { pend[i] : i \in 1 .. Len(pend) }
<1>0. /\ TypeOK /\ PlaceOK
      /\ net \in [Peers -> SUBSET Frags]
      /\ pend \in Seq(Frags)
      /\ frags_cant_match[p] \in Lists(Frags)
  BY Zenon, TypeParts DEF IInv, TypeOK
<1>1. g \in list_frags(frags_cant_match[p]) <=> On(frags_cant_match[p], g)
  BY DEF list_frags, On
<1>2. On(frags_cant_match[p], g) => g \in Frags
  BY <1>0 DEF On, Lists
<1>3. g \in S <=> Pending(g)
  BY DEF Pending
<1>4. Pending(g) => g \in Frags
  BY <1>0 DEF Pending
<1>5. InTransit(p) = net[p] \cup list_frags(frags_cant_match[p]) \cup { f \in S : f.src = p }
  BY Zenon DEF InTransit
<1> HIDE DEF S
<1>6. g \in InTransit(p) <=>
        g \in net[p] \/ On(frags_cant_match[p], g) \/ (Pending(g) /\ g.src = p)
  BY Zenon, <1>1, <1>3, <1>5
<1>7. g \in net[p] => g \in Frags /\ g.src = p
  BY Zenon, <1>0 DEF PlaceOK
<1>8. On(frags_cant_match[p], g) => g.src = p
  BY <1>0, <1>2 DEF PlaceOK
<1> QED BY <1>2, <1>4, <1>6, <1>7, <1>8 DEF Moving

\* No message of the list s is an earlier message for w than f.
Unmatched(w, f, s) ==
  \A i \in 1 .. Len(s) : s[i].n < f.n => ~Fits(w, s[i])

\* The non-overtaking rule towards the unexpected lists alone.
UnmatchedOK ==
  ~AllowOvertake => \A r \in Reqs : req[r].frag # None =>
    Unmatched(req[r].want, req[r].frag, unexpected_frags[req[r].frag.src])

\* A message in transit is later than every message that is owned.
LEMMA TransitLater ==
  ASSUME IInv, ~AllowOvertake, NEW f \in Frags, f.n <= Len(log[f.src]),
         NEW g \in InTransit(f.src)
  PROVE  ~(g.n < f.n)
<1>1. f.src \in Peers /\ f.n \in Nat /\ Len(log[f.src]) \in Nat
  BY NumberTypes
<1>2. g \in Frags /\ g.src = f.src /\ Moving(g)
  BY <1>1, TransitMoves
<1>3. Len(log[f.src]) < g.n
  BY <1>2 DEF IInv, SequenceOK
<1>4. g.n \in Nat
  BY <1>2, NumberTypes
<1> QED BY <1>1, <1>3, <1>4

\* What UnmatchedOK says of unmatched messages makes matching non-overtaking.
LEMMA UnmatchedSuffices == IInv /\ OwnedOK /\ UnmatchedOK => NonOvertaking
<1> SUFFICES ASSUME IInv, OwnedOK, UnmatchedOK, ~AllowOvertake,
                    NEW r \in Reqs, req[r].frag # None,
                    NEW g \in InTransit(req[r].frag.src) \cup
                      { unexpected_frags[req[r].frag.src][i] :
                          i \in 1 .. Len(unexpected_frags[req[r].frag.src]) },
                    g.n < req[r].frag.n
             PROVE  ~Fits(req[r].want, g)
  BY Zenon DEF NonOvertaking
<1>1. PICK f \in Frags : f = req[r].frag
  BY NumberTypes
<1>2. f.n <= Len(log[f.src])
  BY Zenon, <1>1 DEF OwnedOK
<1>3. g \notin InTransit(f.src)
  BY Zenon, <1>1, <1>2, TransitLater
<1>4. Unmatched(req[r].want, f, unexpected_frags[f.src])
  BY ZenonT(60), <1>1 DEF UnmatchedOK
<1>5. \E i \in 1 .. Len(unexpected_frags[f.src]) : g = unexpected_frags[f.src][i]
  BY <1>1, <1>3
<1> QED BY Zenon, <1>1, <1>4, <1>5 DEF Unmatched

\* An owner is not overtaken by what a step stores.
LEMMA StaysUnmatched ==
  ASSUME IInv, InOrder', RInv, Change, ~AllowOvertake, NEW f \in Frags, f.n <= Len(log[f.src]),
         NEW w, Unmatched(w, f, unexpected_frags[f.src])
  PROVE  Unmatched(w, f, unexpected_frags'[f.src])
<1>0. TypeOK /\ f.src \in Peers /\ f.n \in Nat /\ Len(log[f.src]) \in Nat
  BY NumberTypes DEF IInv
<1>1. ASSUME NEW j \in 1 .. Len(unexpected_frags'[f.src]),
             \E k \in 1 .. Len(unexpected_frags[f.src]) :
                unexpected_frags'[f.src][j] = unexpected_frags[f.src][k]
      PROVE  unexpected_frags'[f.src][j].n < f.n => ~Fits(w, unexpected_frags'[f.src][j])
  BY Zenon, <1>1 DEF Unmatched
<1>2. CASE \/ UNCHANGED unexpected_frags
           \/ \E x, v : \E q \in Peers :
                \E k \in 1 .. Len(unexpected_frags[q]) : Took(x, v, q, k)
  <2>1. \A j \in 1 .. Len(unexpected_frags'[f.src]) :
           \E k \in 1 .. Len(unexpected_frags[f.src]) :
              unexpected_frags'[f.src][j] = unexpected_frags[f.src][k]
    BY Zenon, <1>0, <1>2, OldMessages
  <2> QED BY Zenon, <1>1, <2>1 DEF Unmatched
<1>3. ASSUME NEW h \in Frags, Consumed(h), Stored(h),
             NEW j \in 1 .. Len(unexpected_frags'[f.src])
      PROVE  unexpected_frags'[f.src][j].n < f.n => ~Fits(w, unexpected_frags'[f.src][j])
  <2>1. /\ Len(unexpected_frags'[f.src]) =
             IF f.src = h.src THEN Len(unexpected_frags[f.src]) + 1 ELSE Len(unexpected_frags[f.src])
        /\ \A i \in 1 .. Len(unexpected_frags[f.src]) :
             unexpected_frags'[f.src][i] = unexpected_frags[f.src][i]
        /\ f.src = h.src => unexpected_frags'[f.src][Len(unexpected_frags[f.src]) + 1] = h
        /\ Len(unexpected_frags[f.src]) \in Nat
    BY <1>0, <1>3, StoredList
  <2>2. CASE j \in 1 .. Len(unexpected_frags[f.src])
    BY Zenon, <1>1, <2>1, <2>2
  <2>3. CASE j \notin 1 .. Len(unexpected_frags[f.src])
    <3>1. f.src = h.src /\ j = Len(unexpected_frags[f.src]) + 1
      BY <2>1, <2>3
    <3>2. unexpected_frags'[f.src][j] = h
      BY Zenon, <2>1, <3>1
    <3>3. h.n = Len(log[f.src]) + 1
      BY ZenonT(60), <1>3, <3>1, ConsumedNumber
    <3>4. ~(h.n < f.n)
      BY <1>0, <3>3
    <3> QED BY ZenonT(60), <3>2, <3>4
  <2> QED BY ZenonT(60), <2>2, <2>3
<1> QED BY ZenonT(60), <1>2, <1>3, UnexpectedCases DEF Unmatched

\* A receive takes the first message that fits.
LEMMA TakesFirst ==
  ASSUME IInv, RInv, ~AllowOvertake, NEW r, NEW w, NEW p \in Peers,
         NEW i \in 1 .. Len(unexpected_frags[p]), Took(r, w, p, i)
  PROVE  Unmatched(w, unexpected_frags[p][i], unexpected_frags'[p])
<1> SUFFICES ASSUME NEW j \in 1 .. Len(unexpected_frags'[p]),
                    unexpected_frags'[p][j].n < unexpected_frags[p][i].n
             PROVE  ~Fits(w, unexpected_frags'[p][j])
  BY Zenon DEF Unmatched
<1>0. TypeOK
  BY DEF IInv
<1>1. PICK k \in 1 .. Len(unexpected_frags[p]) :
         unexpected_frags'[p][j] = unexpected_frags[p][k]
  BY Zenon, <1>0, OldMessages
<1>2. unexpected_frags[p][k] \in Frags /\ unexpected_frags[p][i] \in Frags
  BY NumberTypes
<1>3. unexpected_frags[p][k].n \in Nat /\ unexpected_frags[p][i].n \in Nat
  BY Zenon, <1>2, NumberTypes
<1>4. i < k => unexpected_frags[p][i].n < unexpected_frags[p][k].n
  BY DEF RInv, UnexpectedOK
<1>5. unexpected_frags[p][k].n < unexpected_frags[p][i].n
  BY Zenon, <1>1
<1>6. k < i
  BY <1>3, <1>4, <1>5
<1>7. ~(i <= k)
  BY <1>6
<1>8. ~TagMatches(w, unexpected_frags[p][k])
  BY Zenon, <1>7 DEF Took
<1> QED BY Zenon, <1>1, <1>8 DEF Fits

\* A receive takes the messages of a sender in the order they were sent.
LEMMA UnmatchedStep ==
  ASSUME IInv, InOrder', RInv, Change
  PROVE  UnmatchedOK'
<1> SUFFICES ASSUME ~AllowOvertake, NEW r \in Reqs, req'[r].frag # None
             PROVE  Unmatched(req'[r].want, req'[r].frag, unexpected_frags'[req'[r].frag.src])
  BY Zenon DEF UnmatchedOK, Unmatched, Fits, TagMatches
<1>1. CASE Owned(r)
  <2>1. PICK f \in Frags : f = req[r].frag
    BY <1>1, NumberTypes DEF Owned
  <2>2. f.n <= Len(log[f.src])
    BY Zenon, <1>1, <2>1 DEF RInv, OwnedOK, Owned
  <2>3. Unmatched(req[r].want, f, unexpected_frags[f.src])
    BY Zenon, <1>1, <2>1 DEF RInv, MatchingOrder, NonOvertaking, Unmatched, Owned
  <2>4. Unmatched(req[r].want, f, unexpected_frags'[f.src])
    BY Zenon, <2>2, <2>3, StaysUnmatched
  <2> QED BY Zenon, <1>1, <2>1, <2>4 DEF Owned
<1>2. ASSUME NEW f \in Frags, Consumed(f), Gave(f, r)
      PROVE  Unmatched(req'[r].want, req'[r].frag, unexpected_frags'[req'[r].frag.src])
  <2>1. f.src \in Peers
    BY NumberTypes
  <2>2. /\ Posted(r) /\ req'[r].want = req[r].want /\ req'[r].frag = f
        /\ unexpected_frags' = unexpected_frags
    BY Zenon, <1>2 DEF Gave
  <2>3. \A i \in 1 .. Len(unexpected_frags[f.src]) : ~Fits(req[r].want, unexpected_frags[f.src][i])
    BY Zenon, <2>1, <2>2 DEF RInv, NoMissedMatch, Posted
  <2>4. Unmatched(req[r].want, f, unexpected_frags[f.src])
    BY Zenon, <2>3 DEF Unmatched
  <2> QED BY Zenon, <2>2, <2>4
<1>3. ASSUME NEW w, NEW p \in Peers, NEW i \in 1 .. Len(unexpected_frags[p]), Took(r, w, p, i)
      PROVE  Unmatched(req'[r].want, req'[r].frag, unexpected_frags'[req'[r].frag.src])
  <2>1. req'[r].frag = unexpected_frags[p][i] /\ req'[r].want = w
    BY Zenon, <1>3 DEF Took, Opens
  <2>2. unexpected_frags[p][i].src = p
    BY Zenon DEF RInv, UnexpectedOK
  <2>3. Unmatched(w, unexpected_frags[p][i], unexpected_frags'[p])
    BY Zenon, <1>3, TakesFirst
  <2> QED BY Zenon, <2>1, <2>2, <2>3
<1> QED BY Zenon, <1>1, <1>2, <1>3, OwnerCases

------------------------------------------------------------------------------
(* The places of a message.                                                *)

\* x is in the sequence s; nothing is in it twice.
Has(s, x) == \E i \in 1 .. Len(s) : s[i] = x
Once(s) == \A i, j \in 1 .. Len(s) : s[i] = s[j] => i = j

\* f is on the unexpected list of its sender.
Waiting(f) == Has(unexpected_frags[f.src], f)

\* f is somewhere.
Known(f) == Moving(f) \/ Waiting(f) \/ \E r \in Reqs : req[r].frag = f

\* The messages that are somewhere are the ones that were sent.
KnownOK ==
  /\ \A p \in Peers : \A n \in 1 .. send_sequence[p] :
       \E f \in Frags : f.src = p /\ f.n = n /\ Known(f)
  /\ \A f \in Frags : Known(f) => f.n <= send_sequence[f.src]
  /\ \A f, g \in Frags : Known(f) /\ Known(g) /\ f.src = g.src /\ f.n = g.n => f = g

\* The places are apart, and nothing is twice in one of them.
ApartOK ==
  /\ \A f \in Frags : ~(Moving(f) /\ Waiting(f))
  /\ \A f \in Frags, r \in Reqs : req[r].frag = f => ~Moving(f) /\ ~Waiting(f)
  /\ \A r, s \in Reqs : req[r].frag = req[s].frag /\ req[r].frag # None => r = s

OnceOK == \A p \in Peers : Once(unexpected_frags[p])

\* The inductive invariant of the places.
OneInv == KnownOK /\ ApartOK /\ OnceOK

\* A step that keeps the messages that are known.
LEMMA KnownKept ==
  ASSUME KnownOK, UNCHANGED send_sequence, \A g \in Frags : Known(g)' <=> Known(g)
  PROVE  KnownOK'
BY Zenon DEF KnownOK

\* A step that sends f.
LEMMA KnownSent ==
  ASSUME IInv, KnownOK, NEW p \in Peers, NEW e \in Envelopes, NEW f \in Frags,
         f = NewFrag(p, e), send_sequence' = [send_sequence EXCEPT ![p] = @ + 1],
         \A g \in Frags : Known(g)' <=> Known(g) \/ g = f
  PROVE  KnownOK'
<1>1. send_sequence \in [Peers -> Nat] /\ \A g \in Frags : g.src \in Peers /\ g.n \in Nat
  BY Zenon, NumberTypes DEF IInv, TypeOK
<1>2. /\ f.src = p /\ f.n = send_sequence[p] + 1 /\ send_sequence[p] \in Nat
      /\ send_sequence'[p] = send_sequence[p] + 1
      /\ \A y \in Peers \ {p} : send_sequence'[y] = send_sequence[y]
  BY <1>1 DEF NewFrag
<1>3. ASSUME NEW y \in Peers, NEW n \in 1 .. send_sequence'[y]
      PROVE  \E g \in Frags : g.src = y /\ g.n = n /\ Known(g)'
  <2>1. n \in 1 .. send_sequence[y] \/ (y = p /\ n = send_sequence[p] + 1)
    BY <1>1, <1>2
  <2>2. CASE n \in 1 .. send_sequence[y]
    <3>1. PICK g \in Frags : g.src = y /\ g.n = n /\ Known(g)
      BY Zenon, <2>2 DEF KnownOK
    <3> QED BY Zenon, <3>1
  <2>3. CASE y = p /\ n = send_sequence[p] + 1
    BY Zenon, <1>2, <2>3
  <2> QED BY Zenon, <2>1, <2>2, <2>3
<1>4. ASSUME NEW g \in Frags, Known(g)' PROVE g.n <= send_sequence'[g.src]
  <2>1. CASE g = f
    BY <1>2, <2>1
  <2>2. CASE Known(g)
    <3>1. g.n <= send_sequence[g.src]
      BY Zenon, <2>2 DEF KnownOK
    <3>2. CASE g.src # p
      BY Zenon, <1>1, <1>2, <3>1, <3>2
    <3>3. CASE g.src = p
      <4>1. g.n \in Nat /\ g.n <= send_sequence[p]
        BY Zenon, <1>1, <3>1, <3>3
      <4>2. g.n <= send_sequence[p] + 1
        BY <1>2, <4>1
      <4> QED BY Zenon, <1>2, <3>3, <4>2
    <3> QED BY Zenon, <3>2, <3>3
  <2> QED BY Zenon, <1>4, <2>1, <2>2
<1>5. ASSUME NEW g \in Frags, Known(g) PROVE ~(g.src = f.src /\ g.n = f.n)
  <2>1. g.n <= send_sequence[g.src]
    BY Zenon, <1>5 DEF KnownOK
  <2> QED BY <1>1, <1>2, <2>1
<1>6. ASSUME NEW g \in Frags, NEW h \in Frags, Known(g)', Known(h)', g.src = h.src, g.n = h.n
      PROVE  g = h
  BY Zenon, <1>5, <1>6 DEF KnownOK
<1> QED BY Zenon, <1>3, <1>4, <1>6 DEF KnownOK

\* A step that leaves the unexpected lists and what the requests have alone.
LEMMA SamePlaces ==
  ASSUME UNCHANGED unexpected_frags, \A r \in Reqs : req'[r].frag = req[r].frag
  PROVE  /\ \A g \in Frags : Waiting(g)' <=> Waiting(g)
         /\ OnceOK => OnceOK'
         /\ \A g \in Frags : (\E r \in Reqs : req'[r].frag = g) <=> \E r \in Reqs : req[r].frag = g
BY Zenon DEF Waiting, OnceOK

\* The requests of a step that neither starts one nor gives it a message.
LEMMA KeptFrags ==
  ASSUME \A r \in Reqs : Keeps(r) \/ Marks(r)
  PROVE  \A r \in Reqs : req'[r].frag = req[r].frag
BY Zenon DEF Keeps, Marks

\* A message is sent.
LEMMA OneSent ==
  ASSUME IInv, OneInv, NEW p \in Peers, NEW e \in Envelopes, NewFrag(p, e) \in Frags,
         Sent(p, e), Quiet
  PROVE  OneInv'
<1>1. PICK f \in Frags : f = NewFrag(p, e)
  OBVIOUS
<1>2. /\ send_sequence' = [send_sequence EXCEPT ![p] = @ + 1]
      /\ \A g \in Frags : Moving(g)' <=> Moving(g) \/ g = f
      /\ \A r \in Reqs : req'[r].frag = req[r].frag
      /\ UNCHANGED unexpected_frags
  BY Zenon, <1>1, KeptFrags DEF Sent, Quiet
<1>3. /\ \A g \in Frags : Waiting(g)' <=> Waiting(g)
      /\ OnceOK'
      /\ \A g \in Frags : (\E r \in Reqs : req'[r].frag = g) <=> \E r \in Reqs : req[r].frag = g
  BY Zenon, <1>2, SamePlaces DEF OneInv
<1>4. \A g \in Frags : Known(g)' <=> Known(g) \/ g = f
  BY Zenon, <1>2, <1>3 DEF Known
<1>5. KnownOK'
  BY Zenon, <1>1, <1>2, <1>4, KnownSent DEF OneInv
<1>6. ~Known(f)
  <2>1. f.n = send_sequence[p] + 1 /\ f.src = p /\ send_sequence[p] \in Nat
    BY <1>1 DEF NewFrag, IInv, TypeOK
  <2>2. ~(f.n <= send_sequence[f.src])
    BY <2>1
  <2> QED BY Zenon, <2>2 DEF OneInv, KnownOK
<1>7. ApartOK'
  <2>1. ApartOK
    BY Zenon DEF OneInv
  <2>2. ASSUME NEW g \in Frags PROVE ~(Moving(g)' /\ Waiting(g)')
    BY Zenon, <1>2, <1>3, <1>6, <2>1 DEF ApartOK, Known
  <2>3. ASSUME NEW g \in Frags, NEW r \in Reqs, req'[r].frag = g
        PROVE  ~Moving(g)' /\ ~Waiting(g)'
    BY Zenon, <1>2, <1>3, <1>6, <2>1, <2>3 DEF ApartOK, Known
  <2> QED BY Zenon, <1>2, <2>1, <2>2, <2>3 DEF ApartOK
<1> QED BY Zenon, <1>3, <1>5, <1>7 DEF OneInv

\* A message moves, or nothing happens to one.
LEMMA OneMoved ==
  ASSUME OneInv, Moved, UNCHANGED unexpected_frags, \A r \in Reqs : req'[r].frag = req[r].frag
  PROVE  OneInv'
<1>1. /\ UNCHANGED send_sequence
      /\ \A g \in Frags : Moving(g)' <=> Moving(g)
  BY Zenon DEF Moved
<1>2. /\ \A g \in Frags : Waiting(g)' <=> Waiting(g)
      /\ OnceOK'
      /\ \A g \in Frags : (\E r \in Reqs : req'[r].frag = g) <=> \E r \in Reqs : req[r].frag = g
  BY Zenon, SamePlaces DEF OneInv
<1>3. \A g \in Frags : Known(g)' <=> Known(g)
  BY Zenon, <1>1, <1>2 DEF Known
<1>4. KnownOK'
  BY Zenon, <1>1, <1>3, KnownKept DEF OneInv
<1>5. ApartOK'
  <2>1. ApartOK
    BY Zenon DEF OneInv
  <2>2. ASSUME NEW g \in Frags PROVE ~(Moving(g)' /\ Waiting(g)')
    BY Zenon, <1>1, <1>2, <2>1 DEF ApartOK
  <2>3. ASSUME NEW g \in Frags, NEW r \in Reqs, req'[r].frag = g
        PROVE  ~Moving(g)' /\ ~Waiting(g)'
    BY Zenon, <1>1, <1>2, <2>1, <2>3 DEF ApartOK
  <2> QED BY Zenon, <2>1, <2>2, <2>3 DEF ApartOK
<1> QED BY Zenon, <1>2, <1>4, <1>5 DEF OneInv

\* A message is consumed and goes to the unexpected list.
LEMMA OneStored ==
  ASSUME IInv, OneInv, NEW f \in Frags, Consumed(f), Stored(f)
  PROVE  OneInv'
<1>0. TypeOK /\ KnownOK /\ ApartOK /\ OnceOK /\ f.src \in Peers
  BY Zenon, NumberTypes DEF IInv, OneInv
<1>1. /\ UNCHANGED send_sequence /\ Moving(f)
      /\ \A g \in Frags : Moving(g)' <=> Moving(g) /\ g # f
      /\ \A r \in Reqs : req'[r].frag = req[r].frag
  BY Zenon, KeptFrags DEF Consumed, Stored
<1>2. ~Waiting(f) /\ \A r \in Reqs : req[r].frag # f
  BY Zenon, <1>0, <1>1 DEF ApartOK
<1>3. ASSUME NEW p \in Peers
      PROVE  /\ \A i \in 1 .. Len(unexpected_frags'[p]) :
                  \/ /\ i \in 1 .. Len(unexpected_frags[p])
                     /\ unexpected_frags'[p][i] = unexpected_frags[p][i]
                  \/ i = Len(unexpected_frags[p]) + 1 /\ p = f.src /\ unexpected_frags'[p][i] = f
             /\ \A i \in 1 .. Len(unexpected_frags[p]) :
                  /\ i \in 1 .. Len(unexpected_frags'[p])
                  /\ unexpected_frags'[p][i] = unexpected_frags[p][i]
             /\ p = f.src => /\ Len(unexpected_frags[p]) + 1 \in 1 .. Len(unexpected_frags'[p])
                             /\ unexpected_frags'[p][Len(unexpected_frags[p]) + 1] = f
  <2>1. /\ Len(unexpected_frags'[p]) =
             IF p = f.src THEN Len(unexpected_frags[p]) + 1 ELSE Len(unexpected_frags[p])
        /\ \A i \in 1 .. Len(unexpected_frags[p]) :
             unexpected_frags'[p][i] = unexpected_frags[p][i]
        /\ p = f.src => unexpected_frags'[p][Len(unexpected_frags[p]) + 1] = f
        /\ Len(unexpected_frags[p]) \in Nat
    BY Zenon, <1>0, StoredList
  <2>2. /\ \A i \in 1 .. Len(unexpected_frags'[p]) :
             i \in 1 .. Len(unexpected_frags[p]) \/ (i = Len(unexpected_frags[p]) + 1 /\ p = f.src)
        /\ \A i \in 1 .. Len(unexpected_frags[p]) : i \in 1 .. Len(unexpected_frags'[p])
        /\ p = f.src => Len(unexpected_frags[p]) + 1 \in 1 .. Len(unexpected_frags'[p])
    BY <2>1
  <2> QED BY Zenon, <2>1, <2>2
<1>4. \A g \in Frags : g.src \in Peers
  BY Zenon, NumberTypes
<1>5. ASSUME NEW g \in Frags PROVE Waiting(g)' <=> Waiting(g) \/ g = f
  <2>1. ASSUME Waiting(g)' PROVE Waiting(g) \/ g = f
    <3>1. PICK i \in 1 .. Len(unexpected_frags'[g.src]) : unexpected_frags'[g.src][i] = g
      BY Zenon, <2>1 DEF Waiting, Has
    <3> QED BY Zenon, <1>3, <1>4, <3>1 DEF Waiting, Has
  <2>2. ASSUME Waiting(g) PROVE Waiting(g)'
    <3>1. PICK i \in 1 .. Len(unexpected_frags[g.src]) : unexpected_frags[g.src][i] = g
      BY Zenon, <2>2 DEF Waiting, Has
    <3>2. i \in 1 .. Len(unexpected_frags'[g.src]) /\ unexpected_frags'[g.src][i] = g
      BY Zenon, <1>3, <1>4, <3>1
    <3> QED BY Zenon, <3>2 DEF Waiting, Has
  <2>3. Waiting(f)'
    BY Zenon, <1>0, <1>3 DEF Waiting, Has
  <2> QED BY Zenon, <2>1, <2>2, <2>3
<1>6. OnceOK'
  <2> SUFFICES ASSUME NEW p \in Peers, NEW i \in 1 .. Len(unexpected_frags'[p]),
                      NEW j \in 1 .. Len(unexpected_frags'[p]),
                      unexpected_frags'[p][i] = unexpected_frags'[p][j]
               PROVE  i = j
    BY Zenon DEF OnceOK, Once
  <2>1. \A k \in 1 .. Len(unexpected_frags[p]) : p = f.src => unexpected_frags[p][k] # f
    BY Zenon, <1>2 DEF Waiting, Has
  <2>2. \A k, l \in 1 .. Len(unexpected_frags[p]) :
          unexpected_frags[p][k] = unexpected_frags[p][l] => k = l
    BY Zenon, <1>0 DEF OnceOK, Once
  <2>3. \A k \in 1 .. Len(unexpected_frags'[p]) :
          \/ k \in 1 .. Len(unexpected_frags[p]) /\ unexpected_frags'[p][k] = unexpected_frags[p][k]
          \/ k = Len(unexpected_frags[p]) + 1 /\ p = f.src /\ unexpected_frags'[p][k] = f
    BY Zenon, <1>3
  <2> QED BY Zenon, <2>1, <2>2, <2>3
<1>7. \A g \in Frags : Known(g)' <=> Known(g)
  <2>1. ASSUME NEW g \in Frags
        PROVE  (\E r \in Reqs : req'[r].frag = g) <=> \E r \in Reqs : req[r].frag = g
    BY Zenon, <1>1
  <2> QED BY Zenon, <1>1, <1>5, <2>1 DEF Known
<1>8. KnownOK'
  BY Zenon, <1>0, <1>1, <1>7, KnownKept
<1>9. ApartOK'
  BY Zenon, <1>0, <1>1, <1>2, <1>5 DEF ApartOK
<1> QED BY Zenon, <1>6, <1>8, <1>9 DEF OneInv

\* A message is consumed and goes to a receive that was posted.
LEMMA OneGave ==
  ASSUME IInv, RInv, OneInv, NEW f \in Frags, NEW m \in Reqs, Consumed(f), Gave(f, m)
  PROVE  OneInv'
<1>0. KnownOK /\ ApartOK /\ OnceOK
  BY Zenon DEF OneInv
<1>1. /\ UNCHANGED send_sequence /\ Moving(f)
      /\ \A g \in Frags : Moving(g)' <=> Moving(g) /\ g # f
      /\ UNCHANGED unexpected_frags
      /\ req'[m].frag = f
      /\ \A r \in Reqs \ {m} : req'[r].frag = req[r].frag
  BY Zenon DEF Consumed, Gave, Keeps, Marks
<1>2. req[m].frag = None /\ None \notin Frags
  <2>1. ~Started(m)
    BY DEF Gave, Posted, Started
  <2> QED BY Zenon, <2>1, NoneAssumption DEF RInv, ReqOK
<1>3. ~Waiting(f) /\ \A r \in Reqs : req[r].frag # f
  BY Zenon, <1>0, <1>1 DEF ApartOK
<1>4. OnceOK' /\ \A g \in Frags : Waiting(g)' <=> Waiting(g)
  BY Zenon, <1>0, <1>1 DEF OnceOK, Waiting
<1>5. ASSUME NEW g \in Frags
      PROVE  (\E r \in Reqs : req'[r].frag = g) <=> (\E r \in Reqs : req[r].frag = g) \/ g = f
  <2>1. ASSUME NEW r \in Reqs, req[r].frag = g PROVE \E x \in Reqs : req'[x].frag = g
    <3>1. r # m
      BY Zenon, <1>2, <2>1
    <3> QED BY Zenon, <1>1, <2>1, <3>1
  <2> QED BY Zenon, <1>1, <2>1
<1>6. \A g \in Frags : Known(g)' <=> Known(g)
  BY Zenon, <1>1, <1>4, <1>5 DEF Known
<1>7. KnownOK'
  BY Zenon, <1>0, <1>1, <1>6, KnownKept
<1>8. ApartOK'
  <2>1. ASSUME NEW g \in Frags PROVE ~(Moving(g)' /\ Waiting(g)')
    BY Zenon, <1>0, <1>1, <1>4 DEF ApartOK
  <2>2. ASSUME NEW g \in Frags, NEW r \in Reqs, req'[r].frag = g
        PROVE  ~Moving(g)' /\ ~Waiting(g)'
    <3>1. CASE r = m
      BY Zenon, <1>1, <1>3, <1>4, <2>2, <3>1
    <3>2. CASE r # m
      BY Zenon, <1>0, <1>1, <1>4, <2>2, <3>2 DEF ApartOK
    <3> QED BY Zenon, <3>1, <3>2
  <2>3. ASSUME NEW r \in Reqs, NEW s \in Reqs, req'[r].frag = req'[s].frag, req'[r].frag # None
        PROVE  r = s
    <3>1. CASE r = m \/ s = m
      BY Zenon, <1>1, <1>3, <2>3, <3>1
    <3>2. CASE r # m /\ s # m
      BY Zenon, <1>0, <1>1, <2>3, <3>2 DEF ApartOK
    <3> QED BY Zenon, <3>1, <3>2
  <2> QED BY Zenon, <2>1, <2>2, <2>3 DEF ApartOK
<1> QED BY Zenon, <1>4, <1>7, <1>8 DEF OneInv

\* The positions of a list without its i-th element.
LEMMA WithoutOnce ==
  ASSUME NEW s, NEW i \in 1 .. Len(s), NEW z, Without(z, s, i), Once(s)
  PROVE  Once(z) /\ \A x : Has(z, x) <=> Has(s, x) /\ x # s[i]
<1> DEFINE up(k) == IF k < i THEN k ELSE k + 1
<1>1. PICK n \in Nat : n = Len(s) /\ Len(z) = n - 1 /\ i \in 1 .. n
  BY DEF Without
<1>2. \A k \in 1 .. n - 1 : up(k) \in 1 .. n /\ up(k) # i
  BY <1>1
<1>3. \A k \in 1 .. n - 1 : z[k] = s[up(k)]
  BY Zenon, <1>1 DEF Without
<1>4. \A k, l \in 1 .. n - 1 : up(k) = up(l) => k = l
  BY <1>1
<1>5. ASSUME NEW j \in 1 .. n, j # i PROVE \E k \in 1 .. n - 1 : up(k) = j
  <2>1. CASE j < i
    BY <1>1, <2>1
  <2>2. CASE ~(j < i)
    <3>1. j - 1 \in 1 .. n - 1 /\ ~(j - 1 < i) /\ j - 1 + 1 = j
      BY <1>1, <1>5, <2>2
    <3> QED BY Zenon, <3>1
  <2> QED BY Zenon, <2>1, <2>2
<1> HIDE DEF up
<1>6. ASSUME NEW k \in 1 .. n - 1, NEW l \in 1 .. n - 1, z[k] = z[l] PROVE k = l
  <2>1. s[up(k)] = s[up(l)] /\ up(k) \in 1 .. Len(s) /\ up(l) \in 1 .. Len(s)
    BY Zenon, <1>1, <1>2, <1>3, <1>6
  <2>2. up(k) = up(l)
    BY Zenon, <2>1 DEF Once
  <2> QED BY Zenon, <1>4, <2>2
<1>7. ASSUME NEW k \in 1 .. n - 1 PROVE (\E l \in 1 .. n : s[l] = z[k]) /\ z[k] # s[i]
  BY Zenon, <1>1, <1>2, <1>3 DEF Once
<1>8. ASSUME NEW l \in 1 .. n, s[l] # s[i] PROVE \E k \in 1 .. n - 1 : z[k] = s[l]
  BY Zenon, <1>3, <1>5, <1>8
<1>9. ASSUME NEW x
      PROVE  (\E k \in 1 .. n - 1 : z[k] = x) <=> (\E k \in 1 .. n : s[k] = x) /\ x # s[i]
  BY Zenon, <1>7, <1>8
<1> QED BY Zenon, <1>1, <1>6, <1>9 DEF Once, Has

\* A message on the unexpected list is taken by a receive that starts.
LEMMA OneTook ==
  ASSUME IInv, RInv, OneInv, Moved, NEW r \in Reqs, NEW w, NEW p \in Peers,
         NEW i \in 1 .. Len(unexpected_frags[p]), Took(r, w, p, i)
  PROVE  OneInv'
<1>0. TypeOK /\ KnownOK /\ ApartOK /\ OnceOK
  BY Zenon DEF IInv, OneInv
<1>1. PICK f \in Frags : f = unexpected_frags[p][i] /\ f.src = p
  BY Zenon, NumberTypes DEF RInv, UnexpectedOK
<1>2. /\ UNCHANGED send_sequence
      /\ \A g \in Frags : Moving(g)' <=> Moving(g)
      /\ req'[r].frag = f
      /\ \A x \in Reqs \ {r} : req'[x].frag = req[x].frag
  BY Zenon, <1>1 DEF Moved, Took, Opens, Keeps
<1>3. req[r].frag = None /\ None \notin Frags
  <2>1. ~Started(r)
    BY DEF Took, Opens, Started
  <2> QED BY Zenon, <2>1, NoneAssumption DEF RInv, ReqOK
<1>4. Waiting(f) /\ ~Moving(f) /\ \A x \in Reqs : req[x].frag # f
  <2>1. Waiting(f)
    BY Zenon, <1>1 DEF Waiting, Has
  <2> QED BY Zenon, <1>0, <2>1 DEF ApartOK
<1>5. /\ \A q \in Peers \ {p} : unexpected_frags'[q] = unexpected_frags[q]
      /\ Without(unexpected_frags'[p], unexpected_frags[p], i)
  BY Zenon, <1>0, TookList
<1>6. /\ Once(unexpected_frags'[p])
      /\ \A x : Has(unexpected_frags'[p], x) <=>
                Has(unexpected_frags[p], x) /\ x # unexpected_frags[p][i]
  <2>1. Once(unexpected_frags[p])
    BY Zenon, <1>0 DEF OnceOK
  <2> QED BY Zenon, <1>5, <2>1, WithoutOnce
<1>7. OnceOK'
  BY Zenon, <1>0, <1>5, <1>6 DEF OnceOK
<1>8. ASSUME NEW g \in Frags PROVE Waiting(g)' <=> Waiting(g) /\ g # f
  <2>1. CASE g.src = p
    BY Zenon, <1>1, <1>6, <2>1 DEF Waiting
  <2>2. CASE g.src # p
    <3>1. unexpected_frags'[g.src] = unexpected_frags[g.src]
      BY Zenon, <1>5, <2>2, NumberTypes
    <3> QED BY Zenon, <1>1, <2>2, <3>1 DEF Waiting
  <2> QED BY Zenon, <2>1, <2>2
<1>9. ASSUME NEW g \in Frags
      PROVE  (\E x \in Reqs : req'[x].frag = g) <=> (\E x \in Reqs : req[x].frag = g) \/ g = f
  <2>1. ASSUME NEW x \in Reqs, req[x].frag = g PROVE \E y \in Reqs : req'[y].frag = g
    <3>1. x # r
      BY Zenon, <1>3, <2>1
    <3> QED BY Zenon, <1>2, <2>1, <3>1
  <2> QED BY Zenon, <1>2, <2>1
<1>10. \A g \in Frags : Known(g)' <=> Known(g)
  BY Zenon, <1>2, <1>4, <1>8, <1>9 DEF Known
<1>11. KnownOK'
  BY Zenon, <1>0, <1>2, <1>10, KnownKept
<1>12. ApartOK'
  <2>1. ASSUME NEW g \in Frags PROVE ~(Moving(g)' /\ Waiting(g)')
    BY Zenon, <1>0, <1>2, <1>8 DEF ApartOK
  <2>2. ASSUME NEW g \in Frags, NEW x \in Reqs, req'[x].frag = g
        PROVE  ~Moving(g)' /\ ~Waiting(g)'
    <3>1. CASE x = r
      BY Zenon, <1>2, <1>4, <1>8, <2>2, <3>1
    <3>2. CASE x # r
      BY Zenon, <1>0, <1>2, <1>8, <2>2, <3>2 DEF ApartOK
    <3> QED BY Zenon, <3>1, <3>2
  <2>3. ASSUME NEW x \in Reqs, NEW y \in Reqs, req'[x].frag = req'[y].frag, req'[x].frag # None
        PROVE  x = y
    <3>1. CASE x = r \/ y = r
      BY Zenon, <1>2, <1>4, <2>3, <3>1
    <3>2. CASE x # r /\ y # r
      BY Zenon, <1>0, <1>2, <2>3, <3>2 DEF ApartOK
    <3> QED BY Zenon, <3>1, <3>2
  <2> QED BY Zenon, <2>1, <2>2, <2>3 DEF ApartOK
<1> QED BY Zenon, <1>7, <1>11, <1>12 DEF OneInv

\* At first no message is anywhere.
LEMMA InitOne == Init => OneInv
<1> SUFFICES ASSUME Init PROVE OneInv
  OBVIOUS
<1>1. /\ \A p \in Peers : /\ send_sequence[p] = 0 /\ net[p] = {}
                          /\ frags_cant_match[p] = << >> /\ unexpected_frags[p] = << >>
      /\ non_existing_communicator_pending = << >>
      /\ \A r \in Reqs : req[r].frag = None
  BY DEF Init, UnusedReq
<1>2. \A f \in Frags : f.src \in Peers
  BY DEF Frags
<1>3. (\A x : ~On(<< >>, x)) /\ 1 .. Len(<< >>) = {} /\ 1 .. 0 = {}
  BY DEF On
<1>4. \A f \in Frags : ~Known(f)
  <2>1. ASSUME NEW f \in Frags PROVE ~Moving(f) /\ ~Waiting(f)
    BY Zenon, <1>1, <1>2, <1>3 DEF Moving, Pending, Waiting, Has
  <2> QED BY Zenon, <1>1, <2>1, NoneAssumption DEF Known
<1>5. KnownOK
  BY Zenon, <1>1, <1>3, <1>4 DEF KnownOK
<1>6. ApartOK
  BY Zenon, <1>1, <1>4 DEF ApartOK, Known
<1>7. OnceOK
  BY Zenon, <1>1, <1>3 DEF OnceOK, Once
<1> QED BY Zenon, <1>5, <1>6, <1>7 DEF OneInv
==============================================================================
