------------------------------ MODULE Ob1Match ------------------------------
(***************************************************************************)
(* The matching engine of the ob1 point-to-point layer (ompi/mca/pml/ob1): *)
(* one communicator at one receiving process.  Peers send numbered         *)
(* messages over several BTLs, so their first fragments arrive in any      *)
(* order; several threads drive progress and post, probe and cancel        *)
(* receives at the same time.                                              *)
(*                                                                         *)
(* A critical section of the communicator's matching_lock is one step.     *)
(* What a thread does before it takes the lock or after it released it is  *)
(* a step of its own: pc says where the thread is, cur what it carries.    *)
(*   idle      between two calls                                           *)
(*   start     recv_req_start has found a fragment and released the lock   *)
(*   progress  match_one is over, the lock is released, the match (if any) *)
(*             is not marked yet                                           *)
(*   check     about to read frags_cant_match without the lock             *)
(*   relock    has read it non-NULL, about to take the lock again          *)
(*   add_comm  inside mca_pml_ob1_add_comm                                 *)
(***************************************************************************)
EXTENDS Ob1OrderedList, FiniteSets

CONSTANTS
  num_procs,       \* size of the communicator's remote group
  Envelopes,       \* the (tag, type) pairs senders use; type MATCH or RNDV
  Wanted,          \* the (type, peer, tag) triples receives are posted with
  Reqs,            \* receive requests; each is started once
  Threads,
  MaxSend,         \* bound: messages per peer
  Window,          \* bound: messages of a peer sent and not yet matched
  AllowOvertake,   \* the communicator's OMPI_COMM_ASSERT_ALLOW_OVERTAKE
  NoAnySource,     \* and OMPI_COMM_ASSERT_NO_ANY_SOURCE
  MayCancel,       \* requests the user may call MPI_Cancel on
  AnySource, AnyTag, None

Peers == 0 .. num_procs - 1

ASSUME PeersAssumption ==
  /\ num_procs \in Nat \ {0}
  /\ AnySource \notin Peers
  /\ None \notin Peers \cup Reqs
ASSUME BoundsAssumption ==
  /\ MaxSend \in Nat
  /\ Window \in 1 .. SeqMod
ASSUME WantedAssumption ==
  \A want \in Wanted : want.peer \in Peers \cup {AnySource}
\* With mpi_assert_no_any_source the application promises not to use it.
ASSUME FlagsAssumption ==
  /\ AllowOvertake \in BOOLEAN
  /\ NoAnySource \in BOOLEAN
  /\ NoAnySource => \A want \in Wanted : want.peer # AnySource

VARIABLES
  send_sequence,       \* per peer: messages sent so far (sender side)
  net,                 \* per peer: first fragments in flight
  comm_state,          \* none | adding | ready
  non_existing_communicator_pending,
  expected_sequence,   \* per peer, uint16_t
  frags_cant_match,    \* per peer: Ob1OrderedList
  unexpected_frags,    \* per peer: sequence of fragments
  specific_receives,   \* per peer: requests, ordered by req_sequence
  wild_receives,       \* requests, ordered by req_sequence
  recv_sequence, last_probed,
  req,                 \* the request records
  pc, cur,             \* the threads
  log                  \* history, per peer: message numbers in the order
                       \* in which matching has consumed them

netVars == <<send_sequence, net>>
commVars == <<comm_state, non_existing_communicator_pending>>
seqVars == <<expected_sequence, frags_cant_match, log>>
recvVars == <<specific_receives, wild_receives>>
countVars == <<recv_sequence, last_probed>>
vars == <<netVars, commVars, seqVars, unexpected_frags, recvVars, countVars,
          req, pc, cur>>

Frags == [src : Peers, n : Nat \ {0}, env : Envelopes]

ASSUME NoneAssumption == None \notin Frags

\* state: unused, posted (on a queue), taken (off its queue and given a
\* fragment, req_match_received still false), matched, probed (a probe
\* that is complete), nothing (IPROBE and IMPROBE without a match),
\* cancelled.
UnusedReq == [state |-> "unused", want |-> None, seq |-> 0, frag |-> None]

IdleThread == [peer |-> None, req |-> None]

Init ==
  /\ send_sequence = [p \in Peers |-> 0]
  /\ net = [p \in Peers |-> {}]
  /\ comm_state = "none"
  /\ non_existing_communicator_pending = << >>
  /\ expected_sequence = [p \in Peers |-> 1 % SeqMod]
  /\ frags_cant_match = [p \in Peers |-> << >>]
  /\ unexpected_frags = [p \in Peers |-> << >>]
  /\ specific_receives = [p \in Peers |-> {}]
  /\ wild_receives = {}
  /\ recv_sequence = 0
  /\ last_probed = 0
  /\ req = [r \in Reqs |-> UnusedReq]
  /\ pc = [t \in Threads |-> "idle"]
  /\ cur = [t \in Threads |-> IdleThread]
  /\ log = [p \in Peers |-> << >>]

-----------------------------------------------------------------------------
(* The sender: the next sequence number, then the first fragment goes out  *)
(* on whichever eager BTL is next.  (With AllowOvertake the code draws no  *)
(* number; here it only tells the messages apart, nothing compares it.)    *)

Send(p, e) ==
  /\ send_sequence[p] < MaxSend
  /\ send_sequence[p] - Len(log[p]) < Window
  /\ send_sequence' = [send_sequence EXCEPT ![p] = @ + 1]
  /\ net' = [net EXCEPT ![p] =
               @ \cup {[src |-> p, n |-> send_sequence[p] + 1, env |-> e]}]
  /\ UNCHANGED <<commVars, seqVars, unexpected_frags, recvVars, countVars,
                 req, pc, cur>>

-----------------------------------------------------------------------------
(* Matching.                                                               *)

\* Mutation: a wildcard also matches the internal, negative tags.
TagMatches_mut(want, f) == want.tag \in {f.env.tag, AnyTag}

TagMatches(want, f) ==
  want.tag = f.env.tag \/ (want.tag = AnyTag /\ f.env.tag >= 0)

\* The request of a queue that was posted first.  Both queues are kept in
\* the order of req_sequence: the number is drawn and the request appended
\* in one critical section.
oldest(S) == CHOOSE r \in S : \A x \in S : req[r].seq <= req[x].seq

posted_for(p) ==
  IF NoAnySource THEN specific_receives[p]
                 ELSE specific_receives[p] \cup wild_receives

\* Mutation: the wildcard queue is searched only after the specific one.
match_incomming_mut(f) ==
  LET takers(S) == { r \in S : /\ TagMatches(req[r].want, f)
                               /\ req[r].want.type # "PROBE" }
  IN  IF takers(posted_for(f.src)) = {} THEN None
      ELSE IF takers(specific_receives[f.src]) # {}
           THEN oldest(takers(specific_receives[f.src]))
           ELSE oldest(takers(wild_receives))

\* match_incomming walks the two queues merged by req_sequence;
\* match_incomming_no_any_source walks specific_receives alone.  The result
\* is the first request that takes f away, i.e. is not an MPI_Probe.
match_incomming(f) ==
  LET takers == { r \in posted_for(f.src) : /\ TagMatches(req[r].want, f)
                                            /\ req[r].want.type # "PROBE" }
  IN  IF takers = {} THEN None ELSE oldest(takers)

\* The MPI_Probe requests the loop of match_one completes before it meets
\* the request that takes f.
matched_probes(f) ==
  LET m == match_incomming(f)
  IN  { r \in posted_for(f.src) :
          /\ TagMatches(req[r].want, f)
          /\ req[r].want.type = "PROBE"
          /\ m # None => req[r].seq < req[m].seq }

\* match_one: f is the next message of its sender.  The thread leaves with
\* the receive it matched, if any.
match_one(t, f) ==
  LET m == match_incomming(f)
      probes == matched_probes(f)
      gone == IF m = None THEN probes ELSE probes \cup {m}
  IN  /\ specific_receives' = [specific_receives EXCEPT ![f.src] = @ \ gone]
      /\ wild_receives' = wild_receives \ gone
      /\ unexpected_frags' =
            IF m = None THEN [unexpected_frags EXCEPT ![f.src] = Append(@, f)]
                        ELSE unexpected_frags
      /\ req' = [r \in Reqs |->
            IF r \in probes THEN [req[r] EXCEPT !.state = "probed"]
            ELSE IF r = m
                 THEN [req[r] EXCEPT
                         !.state = IF req[m].want.type = "MPROBE"
                                   THEN "probed" ELSE "taken",
                         !.frag = f]
                 ELSE req[r]]
      /\ pc' = [pc EXCEPT ![t] = "progress"]
      /\ cur' = [cur EXCEPT ![t] =
                   [peer |-> f.src,
                    req |-> IF m # None /\ req[m].want.type # "MPROBE"
                            THEN m ELSE None]]
      /\ log' = [log EXCEPT ![f.src] = Append(@, f.n)]

\* Mutation: the counter is wider than hdr_seq.
advance_mut(p) ==
  expected_sequence' = [expected_sequence EXCEPT ![p] = @ + 1]

advance(p) ==
  expected_sequence' = [expected_sequence EXCEPT ![p] = (@ + 1) % SeqMod]

-----------------------------------------------------------------------------
(* Arrival of a first fragment: mca_pml_ob1_recv_frag_callback_match for   *)
(* MATCH, mca_pml_ob1_recv_frag_match for RNDV and RGET.                   *)

\* Mutation: a later fragment is let through.
InSequence_mut(f) ==
  AllowOvertake \/ hdr_seq(f) >= expected_sequence[f.src]

InSequence(f) ==
  AllowOvertake \/ hdr_seq(f) = expected_sequence[f.src]

take_from_net(f) == net' = [net EXCEPT ![f.src] = @ \ {f}]

\* ompi_comm_lookup fails: the communicator is not known here yet.
RecvFragNoComm(t, p, f) ==
  /\ pc[t] = "idle"
  /\ comm_state = "none"
  /\ take_from_net(f)
  /\ non_existing_communicator_pending' =
       Append(non_existing_communicator_pending, f)
  /\ UNCHANGED <<send_sequence, comm_state, seqVars, unexpected_frags,
                 recvVars, countVars, req, pc, cur>>

RecvFragOutOfSequence(t, p, f) ==
  /\ pc[t] = "idle"
  /\ comm_state = "ready"
  /\ ~InSequence(f)
  /\ take_from_net(f)
  /\ frags_cant_match' = [frags_cant_match EXCEPT ![p] =
       append_frag_to_ordered_list(@, f, expected_sequence[p])]
  /\ UNCHANGED <<send_sequence, commVars, expected_sequence, log,
                 unexpected_frags, recvVars, countVars, req, pc, cur>>

\* callback_match leaves expected_sequence alone when overtaking is allowed,
\* match_proc advances it always.
RecvFragInSequence(t, p, f) ==
  /\ pc[t] = "idle"
  /\ comm_state = "ready"
  /\ InSequence(f)
  /\ take_from_net(f)
  /\ IF AllowOvertake /\ f.env.type = "MATCH"
     THEN UNCHANGED expected_sequence
     ELSE advance(p)
  /\ match_one(t, f)
  /\ UNCHANGED <<send_sequence, commVars, frags_cant_match, countVars>>

\* The lock is released: recv_req_matched sets req_match_received and the
\* request is completed, unless it is complete already.
Progress(t) ==
  /\ pc[t] = "progress"
  /\ req' = IF cur[t].req # None /\ req[cur[t].req].state = "taken"
            THEN [req EXCEPT ![cur[t].req].state = "matched"] ELSE req
  /\ cur' = [cur EXCEPT ![t].req = None]
  /\ pc' = [pc EXCEPT ![t] = "check"]
  /\ UNCHANGED <<netVars, commVars, seqVars, unexpected_frags, recvVars,
                 countVars>>

\* NULL != proc->frags_cant_match, read without the lock.
CheckCantMatch(t) ==
  /\ pc[t] = "check"
  /\ IF frags_cant_match[cur[t].peer] = << >>
     THEN /\ pc' = [pc EXCEPT ![t] = "idle"]
          /\ cur' = [cur EXCEPT ![t] = IdleThread]
     ELSE /\ pc' = [pc EXCEPT ![t] = "relock"]
          /\ UNCHANGED cur
  /\ UNCHANGED <<netVars, commVars, seqVars, unexpected_frags, recvVars,
                 countVars, req>>

\* check_cantmatch_for_match under the lock, and match_this_frag again when
\* the head of the list is the next message.
RelockMatch(t) ==
  LET p == cur[t].peer
      q == frags_cant_match[p]
  IN  /\ pc[t] = "relock"
      /\ head_is_expected(q, expected_sequence[p])
      /\ frags_cant_match' = [frags_cant_match EXCEPT ![p] =
            remove_head_from_ordered_list(q)]
      /\ advance(p)
      /\ match_one(t, q[1][1])
      /\ UNCHANGED <<netVars, commVars, countVars>>

RelockNothing(t) ==
  /\ pc[t] = "relock"
  /\ ~head_is_expected(frags_cant_match[cur[t].peer],
                       expected_sequence[cur[t].peer])
  /\ pc' = [pc EXCEPT ![t] = "idle"]
  /\ cur' = [cur EXCEPT ![t] = IdleThread]
  /\ UNCHANGED <<netVars, commVars, seqVars, unexpected_frags, recvVars,
                 countVars, req>>

-----------------------------------------------------------------------------
(* mca_pml_ob1_add_comm: the fragments that came before the communicator   *)
(* go to the unexpected list or to the list of out-of-sequence fragments.  *)
(* Nothing is received on a communicator that is being added: the barrier  *)
(* of ompi_comm_activate keeps the peers from sending.                     *)

AddCommBegin(t) ==
  /\ pc[t] = "idle"
  /\ comm_state = "none"
  /\ comm_state' = "adding"
  /\ pc' = [pc EXCEPT ![t] = "add_comm"]
  /\ UNCHANGED <<netVars, non_existing_communicator_pending, seqVars,
                 unexpected_frags, recvVars, countVars, req, cur>>

to_unexpected(f) ==
  /\ unexpected_frags' = [unexpected_frags EXCEPT ![f.src] = Append(@, f)]
  /\ log' = [log EXCEPT ![f.src] = Append(@, f.n)]

\* Fragments of the out-of-sequence list that a previous one made matchable;
\* only the list of the peer just served can have one.
AddCommDrain(t) ==
  \E p \in Peers :
    LET q == frags_cant_match[p]
    IN  /\ pc[t] = "add_comm"
        /\ cur[t].peer = p
        /\ head_is_expected(q, expected_sequence[p])
        /\ frags_cant_match' = [frags_cant_match EXCEPT ![p] =
              remove_head_from_ordered_list(q)]
        /\ advance(p)
        /\ to_unexpected(q[1][1])
        /\ UNCHANGED <<netVars, commVars, recvVars, countVars, req, pc, cur>>

\* Mutation: the next pending fragment is taken up first.
AddCommDrained_mut(t) == TRUE

AddCommDrained(t) ==
  cur[t].peer # None =>
    ~head_is_expected(frags_cant_match[cur[t].peer],
                      expected_sequence[cur[t].peer])

AddCommFrag(t) ==
  LET pending == non_existing_communicator_pending
      f == Head(pending)
  IN  /\ pc[t] = "add_comm"
      /\ AddCommDrained(t)
      /\ pending # << >>
      /\ non_existing_communicator_pending' = Tail(pending)
      /\ IF InSequence(f)
         THEN /\ to_unexpected(f)
              /\ IF AllowOvertake THEN UNCHANGED expected_sequence
                                  ELSE advance(f.src)
              /\ cur' = [cur EXCEPT ![t].peer = IF AllowOvertake
                                                THEN None ELSE f.src]
              /\ UNCHANGED frags_cant_match
         ELSE /\ frags_cant_match' = [frags_cant_match EXCEPT ![f.src] =
                   append_frag_to_ordered_list(@, f, expected_sequence[f.src])]
              /\ cur' = [cur EXCEPT ![t].peer = None]
              /\ UNCHANGED <<expected_sequence, log, unexpected_frags>>
      /\ UNCHANGED <<netVars, comm_state, recvVars, countVars, req, pc>>

\* Mutation: the walk over the pending fragments stops early.
AddCommEnd_mut(t) ==
  /\ pc[t] = "add_comm"
  /\ AddCommDrained(t)
  /\ comm_state' = "ready"
  /\ pc' = [pc EXCEPT ![t] = "idle"]
  /\ cur' = [cur EXCEPT ![t] = IdleThread]
  /\ UNCHANGED <<netVars, non_existing_communicator_pending, seqVars,
                 unexpected_frags, recvVars, countVars, req>>

AddCommEnd(t) ==
  /\ pc[t] = "add_comm"
  /\ AddCommDrained(t)
  /\ non_existing_communicator_pending = << >>
  /\ comm_state' = "ready"
  /\ pc' = [pc EXCEPT ![t] = "idle"]
  /\ cur' = [cur EXCEPT ![t] = IdleThread]
  /\ UNCHANGED <<netVars, non_existing_communicator_pending, seqVars,
                 unexpected_frags, recvVars, countVars, req>>

-----------------------------------------------------------------------------
(* Posting a receive or a probe: mca_pml_ob1_recv_req_start.               *)

recv_req_match_specific_proc(want, p) ==
  LET hits == { i \in 1 .. Len(unexpected_frags[p]) :
                   TagMatches(want, unexpected_frags[p][i]) }
  IN  IF hits = {} THEN 0 ELSE CHOOSE i \in hits : \A j \in hits : i <= j

\* Mutation: the second half of the round-robin search is forgotten.
recv_req_match_wild_mut(want) ==
  LET hits == { p \in Peers : /\ p > last_probed
                              /\ recv_req_match_specific_proc(want, p) # 0 }
  IN  IF hits = {} THEN None ELSE CHOOSE p \in hits : TRUE

\* The peers with a fragment for want, searched round-robin from the one
\* after last_probed.
recv_req_match_wild(want) ==
  LET hits == { p \in Peers : recv_req_match_specific_proc(want, p) # 0 }
      turn(p) == (p - last_probed - 1) % num_procs
  IN  IF hits = {} THEN None
      ELSE CHOOSE p \in hits : \A x \in hits : turn(p) <= turn(x)

\* The peer whose unexpected list holds the fragment for want, or None.
matching_peer(want) ==
  IF want.peer = AnySource THEN recv_req_match_wild(want)
  ELSE IF recv_req_match_specific_proc(want, want.peer) # 0
       THEN want.peer ELSE None

\* The request the free list hands out next, if one is left.
FreeReq ==
  LET unused == { r \in Reqs : req[r].state = "unused" }
  IN  IF unused = {} THEN {} ELSE { CHOOSE r \in unused : TRUE }

\* What every start does under the lock.
start_common(t, r, want) ==
  /\ pc[t] = "idle"
  /\ comm_state = "ready"
  /\ req[r].state = "unused"
  /\ recv_sequence' = recv_sequence + 1

remove_unexpected(p, i) ==
  unexpected_frags' = [unexpected_frags EXCEPT ![p] =
     SubSeq(@, 1, i - 1) \o SubSeq(@, i + 1, Len(@))]

StartNoMatch(t, r, want) ==
  /\ start_common(t, r, want)
  /\ matching_peer(want) = None
  /\ LET waits == want.type \notin {"IPROBE", "IMPROBE"}
     IN  /\ req' = [req EXCEPT ![r] =
              [state |-> IF waits THEN "posted" ELSE "nothing", want |-> want,
               seq |-> recv_sequence, frag |-> None]]
         /\ wild_receives' = IF waits /\ want.peer = AnySource
                             THEN wild_receives \cup {r} ELSE wild_receives
         /\ specific_receives' =
              IF waits /\ want.peer # AnySource
              THEN [specific_receives EXCEPT ![want.peer] = @ \cup {r}]
              ELSE specific_receives
  /\ UNCHANGED <<netVars, commVars, seqVars, unexpected_frags, last_probed,
                 pc, cur>>

\* A fragment is there.  A receive and a matched probe take it off the
\* unexpected list; the receive is marked after the lock is released.
StartMatch(t, r, want) ==
  LET p == matching_peer(want)
      i == recv_req_match_specific_proc(want, p)
      f == unexpected_frags[p][i]
  IN  /\ start_common(t, r, want)
      /\ p # None
      /\ last_probed' = IF want.peer = AnySource THEN p ELSE last_probed
      /\ IF want.type \in {"PROBE", "IPROBE"}
         THEN UNCHANGED unexpected_frags
         ELSE remove_unexpected(p, i)
      /\ req' = [req EXCEPT ![r] =
           [state |-> IF want.type = "RECV" THEN "taken" ELSE "probed",
            want |-> want, seq |-> recv_sequence,
            frag |-> IF want.type \in {"PROBE", "IPROBE"} THEN None ELSE f]]
      /\ IF want.type = "RECV"
         THEN /\ pc' = [pc EXCEPT ![t] = "start"]
              /\ cur' = [cur EXCEPT ![t].req = r]
         ELSE UNCHANGED <<pc, cur>>
      /\ UNCHANGED <<netVars, commVars, seqVars, recvVars>>

StartProgress(t) ==
  /\ pc[t] = "start"
  /\ req' = [req EXCEPT ![cur[t].req].state = "matched"]
  /\ pc' = [pc EXCEPT ![t] = "idle"]
  /\ cur' = [cur EXCEPT ![t] = IdleThread]
  /\ UNCHANGED <<netVars, commVars, seqVars, unexpected_frags, recvVars,
                 countVars>>

\* mca_pml_ob1_imrecv and mca_pml_ob1_mrecv: the request of a matched probe
\* becomes the receive of the fragment it holds.
Mrecv(t, r) ==
  /\ pc[t] = "idle"
  /\ req[r].state = "probed"
  /\ req[r].want.type \in {"MPROBE", "IMPROBE"}
  /\ req' = [req EXCEPT ![r].state = "matched"]
  /\ UNCHANGED <<netVars, commVars, seqVars, unexpected_frags, recvVars,
                 countVars, pc, cur>>

\* Mutation: the request is returned to its pool although it may own a message.
Cancel_mut(t, r) ==
  /\ pc[t] = "idle"
  /\ r \in MayCancel
  /\ req[r].state \in {"posted", "taken"}
  /\ req[r].want.type = "RECV"
  /\ \A u \in Threads : pc[u] = "start" => cur[u].req # r
  /\ IF req[r].want.peer = AnySource
     THEN /\ wild_receives' = wild_receives \ {r}
          /\ UNCHANGED specific_receives
     ELSE /\ specific_receives' =
               [specific_receives EXCEPT ![req[r].want.peer] = @ \ {r}]
          /\ UNCHANGED wild_receives
  /\ req' = [req EXCEPT ![r] = UnusedReq]
  /\ UNCHANGED <<netVars, commVars, seqVars, unexpected_frags, countVars,
                 pc, cur>>

\* mca_pml_ob1_recv_request_cancel of a receive whose start has returned.
\* With req_match_received set it does nothing (no step).
Cancel(t, r) ==
  /\ pc[t] = "idle"
  /\ r \in MayCancel
  /\ req[r].state \in {"posted", "taken"}
  /\ req[r].want.type = "RECV"
  /\ \A u \in Threads : pc[u] = "start" => cur[u].req # r
  /\ IF req[r].want.peer = AnySource
     THEN /\ wild_receives' = wild_receives \ {r}
          /\ UNCHANGED specific_receives
     ELSE /\ specific_receives' =
               [specific_receives EXCEPT ![req[r].want.peer] = @ \ {r}]
          /\ UNCHANGED wild_receives
  /\ req' = [req EXCEPT ![r].state = "cancelled"]
  /\ UNCHANGED <<netVars, commVars, seqVars, unexpected_frags, countVars,
                 pc, cur>>

-----------------------------------------------------------------------------
Arrive(t) ==
  \E p \in Peers : \E f \in net[p] :
     \/ RecvFragNoComm(t, p, f)
     \/ RecvFragOutOfSequence(t, p, f)
     \/ RecvFragInSequence(t, p, f)

Continue(t) ==
  \/ Progress(t)
  \/ CheckCantMatch(t)
  \/ RelockMatch(t)
  \/ RelockNothing(t)
  \/ StartProgress(t)

AddComm(t) ==
  \/ AddCommBegin(t)
  \/ AddCommDrain(t)
  \/ AddCommFrag(t)
  \/ AddCommEnd(t)

Post(t) ==
  \/ \E r \in FreeReq, want \in Wanted : StartNoMatch(t, r, want)
  \/ \E r \in FreeReq, want \in Wanted : StartMatch(t, r, want)
  \/ \E r \in Reqs : Mrecv(t, r)
  \/ \E r \in Reqs : Cancel(t, r)

Next ==
  \/ \E p \in Peers, e \in Envelopes : Send(p, e)
  \/ \E t \in Threads : Arrive(t) \/ Continue(t) \/ AddComm(t) \/ Post(t)

Spec == Init /\ [][Next]_vars

\* The progress engine keeps polling every BTL, a thread inside a handler
\* finishes it, and the communicator is eventually activated.
FairSpec ==
  /\ Spec
  /\ \A t \in Threads : WF_vars(Continue(t)) /\ WF_vars(AddComm(t))
  /\ WF_vars(\E t \in Threads : Arrive(t))

-----------------------------------------------------------------------------
(* Properties.                                                             *)

\* Where a message can be before matching consumes it.
InTransit(p) ==
  net[p] \cup list_frags(frags_cant_match[p])
  \cup { f \in { non_existing_communicator_pending[i] :
                  i \in 1 .. Len(non_existing_communicator_pending) } :
             f.src = p }

\* The state of every variable has its type.
TypeOK ==
  /\ send_sequence \in [Peers -> Nat]
  /\ net \in [Peers -> SUBSET Frags]
  /\ comm_state \in {"none", "adding", "ready"}
  /\ non_existing_communicator_pending \in Seq(Frags)
  /\ expected_sequence \in [Peers -> 0 .. SeqMod - 1]
  /\ frags_cant_match \in [Peers -> Seq(Seq(Frags) \ {<< >>})]
  /\ unexpected_frags \in [Peers -> Seq(Frags)]
  /\ specific_receives \in [Peers -> SUBSET Reqs]
  /\ wild_receives \in SUBSET Reqs
  /\ recv_sequence \in Nat
  /\ last_probed \in Peers
  /\ req \in [Reqs ->
       [state : {"unused", "posted", "taken", "matched", "probed", "nothing",
                 "cancelled"},
        want : Wanted \cup {None}, seq : Nat, frag : Frags \cup {None}]]
  /\ pc \in [Threads ->
       {"idle", "start", "progress", "check", "relock", "add_comm"}]
  /\ cur \in [Threads -> [peer : Peers \cup {None}, req : Reqs \cup {None}]]
  /\ log \in [Peers -> Seq(Nat)]

\* Matching consumes the messages of a peer in the order they were sent,
\* none twice and none skipped, although they arrive in any order, the
\* sequence numbers wrap around and several threads receive at once.
InOrder ==
  ~AllowOvertake =>
    \A p \in Peers : \A i \in 1 .. Len(log[p]) : log[p][i] = i

\* A message that was sent is in one place: in transit, on the unexpected
\* list, or with one request.
ExactlyOnePlace ==
  \A p \in Peers : \A n \in 1 .. send_sequence[p] :
    LET here(f) == f.src = p /\ f.n = n
        moving == { f \in InTransit(p) : here(f) }
        waiting == { i \in 1 .. Len(unexpected_frags[p]) :
                        here(unexpected_frags[p][i]) }
        owners == { r \in Reqs : req[r].frag # None /\ here(req[r].frag) }
    IN  Cardinality(moving) + Cardinality(waiting) + Cardinality(owners) = 1

Fits(want, f) == want.peer \in {AnySource, f.src} /\ TagMatches(want, f)

\* The two searches never pass each other: no posted receive fits a message
\* on the unexpected list.
NoMissedMatch ==
  \A r \in Reqs, p \in Peers : req[r].state = "posted" =>
    \A i \in 1 .. Len(unexpected_frags[p]) :
       ~Fits(req[r].want, unexpected_frags[p][i])

\* MPI's non-overtaking rule: when a request owns a message, no earlier
\* message of the same sender that fits the request is still unmatched.
NonOvertaking ==
  ~AllowOvertake =>
    \A r \in Reqs : req[r].frag # None =>
      LET f == req[r].frag
      IN  \A g \in InTransit(f.src) \cup
               { unexpected_frags[f.src][i] :
                   i \in 1 .. Len(unexpected_frags[f.src]) } :
             g.n < f.n => ~Fits(req[r].want, g)

\* Receives match in the order they were posted, across the wildcard queue
\* and the queue of the peer: when a request owns a message, no request
\* posted earlier that fits the message is still posted.
PostOrder ==
  \A r \in Reqs, s \in Reqs :
    (req[r].frag # None /\ req[s].state = "posted" /\ req[s].seq < req[r].seq)
      => ~Fits(req[s].want, req[r].frag)

\* Safety: both of MPI's rules on the order of matching.
MatchingOrder == NonOvertaking /\ PostOrder

\* No lost wake-up: when the next message of a peer sits on the
\* out-of-sequence list, some thread is still going to look at that list.
\* (cant_match is only checked when another fragment has been matched.)
NoStrandedFragment ==
  \A p \in Peers :
    (\E f \in list_frags(frags_cant_match[p]) :
        hdr_seq(f) = expected_sequence[p])
    => \E t \in Threads :
         cur[t].peer = p /\ pc[t] \in {"progress", "check", "relock", "add_comm"}

\* A request whose cancellation succeeded has not been given a message.
CancelledOwnsNothing ==
  \A r \in Reqs : req[r].state = "cancelled" => req[r].frag = None

\* Every message that was sent has been consumed by matching.
NothingUnderWay == \A p \in Peers : Len(log[p]) = send_sequence[p]

\* The engine implements the matching rule of MpiMatching: the messages in
\* transit are the channels, both receive queues together the waiting
\* requests.
Channel(p) ==
  [i \in 1 .. send_sequence[p] - Len(log[p]) |->
     CHOOSE f \in InTransit(p) : f.n = Len(log[p]) + i]

Status(r) ==
  CASE req[r].state = "posted" -> "waiting"
    [] req[r].state \in {"taken", "matched", "probed", "nothing"} -> "done"
    [] OTHER -> req[r].state

Mpi == INSTANCE MpiMatching WITH
  sent <- send_sequence,
  chan <- [p \in Peers |-> Channel(p)],
  waiting <- unexpected_frags,
  status <- [r \in Reqs |-> Status(r)],
  want <- [r \in Reqs |-> req[r].want],
  stamp <- [r \in Reqs |-> req[r].seq],
  clock <- recv_sequence,
  got <- [r \in Reqs |-> req[r].frag]

ImplementsMpiMatching == Mpi!Spec
=============================================================================
