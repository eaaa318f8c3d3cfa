----------------------------- MODULE Ob1Transfer -----------------------------
(***************************************************************************)
(* The transfer of one matched message by the ob1 point-to-point layer:    *)
(* pml_ob1_sendreq.[ch], pml_ob1_recvreq.[ch] and the ACK, FRAG, PUT and   *)
(* FIN callbacks of pml_ob1_recvfrag.c, in ompi/mca/pml/ob1.               *)
(*                                                                         *)
(* The message is a set of units, the amount one FRAG, one RDMA put or one *)
(* RDMA get carries (btl_max_send_size, btl_rdma_pipeline_frag_size and    *)
(* btl_get_limit are one unit).  The peers are connected by one BTL, which *)
(* loses nothing and orders nothing (every descriptor is MCA_BTL_NO_ORDER).*)
(* A request whose pending work fails for lack of a resource waits on one  *)
(* of the lists of mca_pml_ob1 until some completion runs                  *)
(* MCA_PML_OB1_PROGRESS_PENDING; completions of other requests run it too, *)
(* so a retry is an action that may happen at any time.                    *)
(*                                                                         *)
(* A handler is one step, except for the scheduling loops: a thread inside *)
(* one holds the request with the counter req_lock and other threads run   *)
(* handlers between two iterations.  Where the code calls ompi_rte_abort   *)
(* the job ends, and there is no step.                                     *)
(***************************************************************************)
EXTENDS Integers, FiniteSets

CONSTANTS
  Setups,       \* how the two buffers and the BTL may be, see SetupType
  SendDepth,    \* mca_pml_ob1.send_pipeline_depth
  RecvDepth     \* mca_pml_ob1.recv_pipeline_depth

VARIABLES setup, snd, rcv, net, fails

vars == <<setup, snd, rcv, net, fails>>

Units == 0 .. setup.size - 1

\* Limits of the BTL, in units.
EagerLimit == setup.limits.eager           \* btl_eager_limit
RndvLimit == setup.limits.rndv             \* btl_rndv_eager_limit
SendLength == setup.limits.send_length     \* btl_rdma_pipeline_send_length

\* What may go wrong with this message: the statuses a get and a put may
\* complete with, the operations that may find no resource, and how often.
GetStatus == setup.faults.get
PutStatus == setup.faults.put
Failing == setup.faults.failing
MaxFails == setup.faults.max

\* The units of the message from offset o on.
From(o) == { u \in Units : o <= u }

\* How the request and the buffers are: the length and the mode of the send,
\* whether the buffers are contiguous, what registering the buffers may
\* answer, whether the BTL has get, whether it is an RDMA BTL, and whether
\* btl_send_limit, the btl_min_rdma_pipeline_size of the BTL, is below the
\* length; mca_btl_base_param_verify raises that limit to at least the eager
\* limit and the pipelined length together.
SetupType(s) ==
  /\ DOMAIN s = {"size", "mode", "s_contig", "r_contig", "s_pinned",
                 "r_pinned", "get", "rdma", "pipeline", "limits", "faults"}
  /\ s.size \in Nat
  /\ s.mode \in {"STANDARD", "SYNCHRONOUS", "BUFFERED"}
  /\ s.s_contig \in BOOLEAN /\ s.r_contig \in BOOLEAN
  /\ s.s_pinned \subseteq BOOLEAN /\ s.r_pinned \subseteq BOOLEAN
  /\ s.s_pinned # {} /\ s.r_pinned # {}
  /\ s.get \in BOOLEAN /\ s.rdma \in BOOLEAN /\ s.pipeline \in BOOLEAN
  /\ s.limits \in [eager : Nat, rndv : Nat, send_length : Nat]
  /\ s.limits.rndv <= s.limits.eager
  /\ s.pipeline => s.size > s.limits.eager + s.limits.send_length
  /\ DOMAIN s.faults = {"get", "put", "failing", "max"} /\ s.faults.max \in Nat

ASSUME TransferAssumption ==
  /\ SendDepth \in Nat \ {0} /\ RecvDepth \in Nat \ {0}
  /\ \A s \in Setups : SetupType(s)

\* In this step the operations ops, and no other, lack a resource (a
\* descriptor, a registration, a slot of the network).
Lacking(ops) ==
  /\ ops \subseteq Failing
  /\ Cardinality(ops) <= fails
  /\ fails' = fails - Cardinality(ops)

Init ==
  /\ setup \in Setups
  /\ \E stale \in BOOLEAN :   \* req_throttle_sends is reset by the constructor only
       snd = [req_state |-> 0, throttle |-> stale, depth |-> 0, delivered |-> 0,
              ranges |-> {}, lock |-> 0, loop |-> "NO", checks |-> 0,
              pending |-> "START", lc |-> "NONE", eager |-> {}, frag_lc |-> {},
              put_ops |-> {}, fin_pending |-> {}, rdma_frag |-> FALSE,
              remaining |-> 0, complete |-> FALSE]
  /\ rcv = [matched |-> FALSE, send_offset |-> 0, rdma_offset |-> 0,
            received |-> 0, ack_sent |-> FALSE, depth |-> 0, lock |-> 0,
            loop |-> "NO", checks |-> 0, pending |-> FALSE,
            get_offset |-> setup.size, getting |-> FALSE, gets |-> {},
            got |-> {}, ack_pending |-> {}, fin_pending |-> {},
            rdma_pending |-> {}, complete |-> FALSE]
  /\ net = [first |-> {}, ack |-> {}, put |-> {}, frag |-> {}, finr |-> {},
            fins |-> {}]
  /\ fails = MaxFails

-----------------------------------------------------------------------------
(***************************************************************************)
(* The send request.                                                       *)
(***************************************************************************)

\* Mutation: the events that are still expected are not looked at.
s_complete_check_state_mut(s) ==
  IF s.delivered >= setup.size
  THEN [s EXCEPT !.lock = @ + 1, !.complete = @ \/ s.lock = 0]
  ELSE s

\* send_request_pml_complete_check: the thread that finds nothing expected
\* and all sent, and gets the lock, completes the request and keeps the lock.
s_complete_check(s) ==
  IF s.req_state = 0 /\ s.delivered >= setup.size
  THEN [s EXCEPT !.lock = @ + 1, !.complete = @ \/ s.lock = 0]
  ELSE s

\* mca_pml_ob1_send_request_schedule: enter the loop, or leave the thread
\* that is inside one more round to do.
s_schedule(s) ==
  [s EXCEPT !.lock = @ + 1, !.loop = IF s.lock = 0 THEN "IN" ELSE @]

\* The end of a callback: complete, or else schedule.
s_check_or_schedule(s) ==
  LET t == s_complete_check(s)
  IN  IF t.complete # s.complete THEN t ELSE s_schedule(t)

copy_in_out(s, units) == [s EXCEPT !.ranges = @ \cup units]

\* The first header: a small message as MATCH, the others as RGET or RNDV.
start_btl(pinned) ==
  LET rndv(n, contig, pin) ==
        [type |-> "RNDV", units |-> 0 .. n - 1, contig |-> contig, pin |-> pin]
  IN  IF setup.size <= EagerLimit
      THEN IF setup.mode = "SYNCHRONOUS"
           THEN rndv(setup.size, FALSE, FALSE)
           ELSE [type |-> "MATCH", units |-> Units, contig |-> FALSE, pin |-> FALSE]
      ELSE IF setup.mode = "BUFFERED" \/ ~setup.s_contig
           THEN rndv(RndvLimit, FALSE, FALSE)
           ELSE IF ~pinned
                THEN rndv(RndvLimit, TRUE, FALSE)
                ELSE IF setup.get
                     THEN [type |-> "RGET", units |-> {}, contig |-> TRUE, pin |-> TRUE]
                     ELSE rndv(0, TRUE, TRUE)

\* What the start functions write in the request before they send h.
prepared(s, h) ==
  CASE h.type = "RNDV" -> [s EXCEPT !.req_state = 2, !.eager = h.units]
    [] h.type = "RGET" -> [s EXCEPT !.rdma_frag = TRUE, !.remaining = setup.size]
    [] h.type = "MATCH" -> s

\* mca_pml_ob1_send_request_start_seq and, on later attempts, the START case
\* of the functions that process send_pending.
Start(pinned) ==
  LET h == start_btl(pinned)
      s == prepared(snd, h)
  IN  /\ snd.pending = "START"
      /\ \/ Lacking({"start_alloc"}) /\ UNCHANGED <<snd, net>>
         \/ Lacking({"start_send"}) /\ snd' = s /\ UNCHANGED net
         \/ /\ Lacking({})
            /\ snd' = [s EXCEPT !.pending = "NONE",
                         !.lc = IF h.type = "RGET" THEN "NONE" ELSE h.type]
            /\ net' = [net EXCEPT !.first = {h}]
      /\ UNCHANGED <<setup, rcv>>

\* mca_pml_ob1_match_completion_free
MatchCompletion ==
  /\ snd.lc = "MATCH"
  /\ snd' = [snd EXCEPT !.lc = "NONE", !.complete = TRUE]
  /\ UNCHANGED <<setup, rcv, net, fails>>

\* mca_pml_ob1_rndv_completion
RndvCompletion ==
  /\ snd.lc = "RNDV"
  /\ snd' = s_complete_check([snd EXCEPT !.lc = "NONE", !.req_state = @ - 1,
                                !.delivered = @ + Cardinality(snd.eager)])
  /\ UNCHANGED <<setup, rcv, net, fails>>

\* The message is sent by copy in/out only: no get, and sends are throttled.
only_copies(s) == [s EXCEPT !.throttle = TRUE, !.rdma_frag = FALSE]

\* mca_pml_ob1_recv_frag_callback_ack
RecvAck(a) ==
  LET s == [IF a.nordma THEN only_copies(snd) ELSE snd
              EXCEPT !.req_state = IF @ # 0 THEN @ - 1 ELSE 0]
  IN  /\ a \in net.ack
      /\ net' = [net EXCEPT !.ack = @ \ {a}]
      /\ snd' = s_check_or_schedule(copy_in_out(s, a.units))
      /\ UNCHANGED <<setup, rcv, fails>>

\* mca_pml_ob1_send_fin by the sender, in a step where also ops fail; s is
\* the request after the step, n the network without the FIN.
s_send_fin(s, n, f, ops) ==
  \/ /\ Lacking(ops)
     /\ snd' = s
     /\ net' = [n EXCEPT !.finr = @ \cup {f}]
  \/ /\ Lacking(ops \cup {"fin"})
     /\ snd' = [s EXCEPT !.fin_pending = @ \cup {f}]
     /\ net' = n

\* Mutation: the unit is not queued.
put_frag_failed_mut(s, n, u, ops) ==
  s_send_fin(s_schedule(s), n, [unit |-> u, ok |-> FALSE], ops)

\* mca_pml_ob1_send_request_put_frag_failed: rdma_retries_limit is 0, so the
\* unit is sent by copy in/out at once (req_recv is set: a PUT has come).
put_frag_failed(s, n, u, ops) ==
  s_send_fin(s_schedule(copy_in_out(s, {u})), n, [unit |-> u, ok |-> FALSE], ops)

\* A request that started with RGET expected no acknowledgement.
state_after_put(s, p) ==
  IF s.rdma_frag THEN 0 ELSE IF p.ack THEN s.req_state - 1 ELSE s.req_state

\* mca_pml_ob1_send_request_put: the receiver asks for a put.  A request
\* that started with RGET uses the fragment of the get.
RecvPut(p) ==
  LET s == [snd EXCEPT !.req_state = state_after_put(snd, p), !.rdma_frag = FALSE]
      n == [net EXCEPT !.put = @ \ {p}]
  IN  /\ p \in net.put
      /\ \/ /\ Lacking({})
            /\ snd' = [s EXCEPT !.put_ops = @ \cup {p.unit}]
            /\ net' = n
         \/ put_frag_failed(s, n, p.unit, {"put"})
      /\ UNCHANGED <<setup, rcv>>

\* mca_pml_ob1_put_completion: the data is in place before the FIN is sent.
PutCompletion(u) ==
  LET s == [snd EXCEPT !.put_ops = @ \ {u}]
  IN  /\ u \in snd.put_ops
      /\ \/ /\ "SUCCESS" \in PutStatus
            /\ s_send_fin(s_complete_check([s EXCEPT !.delivered = @ + 1]), net,
                          [unit |-> u, ok |-> TRUE], {})
            /\ rcv' = [rcv EXCEPT !.got = @ \cup {u}]
         \/ /\ "ERROR" \in PutStatus
            /\ put_frag_failed(s, net, u, {})
            /\ UNCHANGED rcv
      /\ UNCHANGED setup

\* Mutation: the first FIN counts for all gets.
frag_done_mut(left) == TRUE

frag_done(left) == left = 0

\* mca_pml_ob1_rget_completion of the sender, on the FIN of a get.
RecvFinGet(u) ==
  LET left == snd.remaining - 1
      s == [snd EXCEPT !.remaining = left,
              !.delivered = IF frag_done(left) THEN @ + setup.size ELSE @,
              !.rdma_frag = @ /\ ~frag_done(left)]
  IN  /\ u \in net.fins
      /\ net' = [net EXCEPT !.fins = @ \ {u}]
      /\ snd' = s_complete_check(s)
      /\ UNCHANGED <<setup, rcv, fails>>

\* mca_pml_ob1_frag_completion
FragCompletion(u) ==
  /\ u \in snd.frag_lc
  /\ snd' = s_check_or_schedule([snd EXCEPT !.frag_lc = @ \ {u}, !.depth = @ - 1,
                                            !.delivered = @ + 1])
  /\ UNCHANGED <<setup, rcv, net, fails>>

\* The condition of the loop of mca_pml_ob1_send_request_schedule_once.
s_may_send(s) == s.ranges # {} /\ (~s.throttle \/ s.depth < SendDepth)

\* One iteration.  Which range is first does not matter: a FRAG says where
\* its data goes.  Without a resource the request is queued still locked.
ScheduleFrag(u) ==
  /\ snd.loop = "IN" /\ s_may_send(snd) /\ u \in snd.ranges
  /\ \/ /\ Lacking({})
        /\ snd' = [snd EXCEPT !.ranges = @ \ {u}, !.frag_lc = @ \cup {u}, !.depth = @ + 1]
        /\ net' = [net EXCEPT !.frag = @ \cup {u}]
     \/ /\ Lacking({"frag"})
        /\ snd' = [snd EXCEPT !.loop = "NO", !.pending = "SCHEDULE"]
        /\ UNCHANGED net
  /\ UNCHANGED <<setup, rcv>>

\* Mutation: the calls that met the lock taken are forgotten.
s_unlock_mut(s) == [s EXCEPT !.lock = 0, !.loop = "NO", !.checks = @ + 1]

\* unlock_send_request: a round for every call that met the lock taken.
s_unlock(s) ==
  IF s.lock = 1
  THEN [s EXCEPT !.lock = 0, !.loop = "NO", !.checks = @ + 1]
  ELSE [s EXCEPT !.lock = @ - 1, !.loop = "IN"]

\* mca_pml_ob1_send_request_schedule_once returns, the request still locked.
ScheduleEnd ==
  /\ snd.loop = "IN" /\ ~s_may_send(snd)
  /\ snd' = [snd EXCEPT !.loop = "OUT"]
  /\ UNCHANGED <<setup, rcv, net, fails>>

ScheduleUnlock ==
  /\ snd.loop = "OUT"
  /\ snd' = s_unlock(snd)
  /\ UNCHANGED <<setup, rcv, net, fails>>

\* The completion check after the loop; the lock is free by then.
ScheduleCheck ==
  /\ snd.checks > 0
  /\ snd' = s_complete_check([snd EXCEPT !.checks = @ - 1])
  /\ UNCHANGED <<setup, rcv, net, fails>>

\* The SCHEDULE case of mca_pml_ob1_send_request_process_pending and of
\* mca_pml_ob1_progress: the lock is held already.
SendProcessPending ==
  /\ snd.pending = "SCHEDULE"
  /\ snd' = [snd EXCEPT !.pending = "NONE", !.loop = "IN"]
  /\ UNCHANGED <<setup, rcv, net, fails>>

\* The FIN case of mca_pml_ob1_process_pending_packets.
SendPendingFin(f) ==
  /\ f \in snd.fin_pending
  /\ snd' = [snd EXCEPT !.fin_pending = @ \ {f}]
  /\ net' = [net EXCEPT !.finr = @ \cup {f}]
  /\ UNCHANGED <<setup, rcv, fails>>

-----------------------------------------------------------------------------
(***************************************************************************)
(* The receive request.                                                    *)
(***************************************************************************)

\* recv_request_pml_complete_check
r_complete_check(r) ==
  IF r.matched /\ r.received >= setup.size
  THEN [r EXCEPT !.lock = @ + 1, !.complete = @ \/ r.lock = 0]
  ELSE r

\* The end of a callback: complete, or schedule the puts that are left
\* (mca_pml_ob1_recv_request_schedule).
r_check_or_schedule(r) ==
  LET t == r_complete_check(r)
  IN  IF t.complete = r.complete /\ t.rdma_offset < t.send_offset
      THEN [t EXCEPT !.lock = @ + 1, !.loop = IF t.lock = 0 THEN "IN" ELSE @]
      ELSE t

\* Where the part of the message that is sent by copy in/out starts; n units
\* came with the header h.
send_offset(h, n, pinned) ==
  LET direct == setup.size > n /\ setup.r_contig /\ h.contig /\ setup.rdma
      rest == setup.size - SendLength
  IN  IF direct /\ h.pin /\ pinned
      THEN setup.size
      ELSE IF direct /\ setup.pipeline
           THEN IF rest < n THEN n ELSE rest
           ELSE n

\* mca_pml_ob1_recv_request_ack_send, in a step where also ops fail; r is
\* the request after the step, n the network without the ACK.  An ACK that
\* has to wait does not record nordma.
ack_send(r, n, a, ops) ==
  \/ /\ Lacking(ops)
     /\ rcv' = r
     /\ net' = [n EXCEPT !.ack = @ \cup {a}]
  \/ /\ Lacking(ops \cup {"ack"})
     /\ rcv' = [r EXCEPT !.ack_pending = @ \cup {a.units}]
     /\ net' = n

\* mca_pml_ob1_recv_request_progress_match
ProgressMatch(h) ==
  /\ h \in net.first /\ h.type = "MATCH"
  /\ rcv' = [rcv EXCEPT !.matched = TRUE, !.received = setup.size, !.got = Units,
                        !.complete = TRUE]
  /\ net' = [net EXCEPT !.first = {}]
  /\ UNCHANGED <<setup, snd, fails>>

\* mca_pml_ob1_recv_request_progress_rndv and mca_pml_ob1_recv_request_ack:
\* no ACK when all the rest is put, the first PUT is one then.
ProgressRndv(h, pinned) ==
  LET n == Cardinality(h.units)
      o == send_offset(h, n, pinned)
      received(acked) ==
        r_check_or_schedule(
          [rcv EXCEPT !.matched = TRUE, !.rdma_offset = n, !.send_offset = o,
                      !.ack_sent = acked, !.got = @ \cup h.units, !.received = @ + n])
      rest == [net EXCEPT !.first = {}]
  IN  /\ h \in net.first /\ h.type = "RNDV"
      /\ IF setup.size > n /\ o = setup.size
         THEN Lacking({}) /\ rcv' = received(FALSE) /\ net' = rest
         ELSE ack_send(received(TRUE), rest, [units |-> From(o), nordma |-> o = n], {})
      /\ UNCHANGED <<setup, snd>>

\* mca_pml_ob1_recv_request_progress_rget: a buffer that is not contiguous
\* is received by copy in/out, into the others the units are read in a loop.
ProgressRget(h) ==
  LET r == [rcv EXCEPT !.matched = TRUE]
      rest == [net EXCEPT !.first = {}]
  IN  /\ h \in net.first /\ h.type = "RGET"
      /\ IF setup.r_contig
         THEN /\ Lacking({})
              /\ rcv' = [r EXCEPT !.getting = TRUE, !.get_offset = 0]
              /\ net' = rest
         ELSE ack_send([r EXCEPT !.ack_sent = TRUE], rest,
                       [units |-> Units, nordma |-> TRUE], {})
      /\ UNCHANGED <<setup, snd>>

\* What mca_pml_ob1_recv_request_get_frag_failed asks for when a get failed
\* (rdma_retries_limit is 0): a copy of the unit.
send_region(u) == [units |-> {u}, nordma |-> FALSE]

\* Mutation: one get too many.
more_gets_mut(o) == o <= setup.size

more_gets(o) == o < setup.size

\* One iteration of the loop of mca_pml_ob1_recv_request_progress_rget.  It
\* is left for good when the ACK of a failed get has to wait.
GetFrag ==
  LET u == rcv.get_offset
      next == [rcv EXCEPT !.get_offset = u + 1, !.getting = more_gets(u + 1)]
  IN  /\ rcv.getting
      /\ \/ /\ Lacking({})
            /\ rcv' = [next EXCEPT !.gets = @ \cup {u}]
            /\ UNCHANGED net
         \/ /\ Lacking({"get"})
            /\ rcv' = next
            /\ net' = [net EXCEPT !.ack = @ \cup {send_region(u)}]
         \/ /\ Lacking({"get", "ack"})
            /\ rcv' = [next EXCEPT !.ack_pending = @ \cup {{u}}, !.getting = FALSE]
            /\ UNCHANGED net
      /\ UNCHANGED <<setup, snd>>

\* mca_pml_ob1_recv_request_put_frag for the fallback of a get: the fragment
\* goes to rdma_pending when the PUT cannot be sent.
put_for_get(r, u) ==
  \/ /\ Lacking({})
     /\ rcv' = [r EXCEPT !.ack_sent = TRUE]
     /\ net' = [net EXCEPT !.put = @ \cup {[unit |-> u, ack |-> ~r.ack_sent]}]
  \/ /\ Lacking({"put_alloc"})
     /\ rcv' = [r EXCEPT !.rdma_pending = @ \cup {u}]
     /\ UNCHANGED net
  \/ /\ Lacking({"put_send"})
     /\ rcv' = [r EXCEPT !.rdma_pending = @ \cup {u}, !.ack_sent = TRUE]
     /\ UNCHANGED net

\* mca_pml_ob1_rget_completion of the receiver (the job is aborted when the
\* ACK of a failed get cannot be sent).
GetCompletion(u) ==
  LET r == [rcv EXCEPT !.gets = @ \ {u}]
      done == r_complete_check([r EXCEPT !.got = @ \cup {u}, !.received = @ + 1])
  IN  /\ u \in rcv.gets
      /\ \/ /\ "SUCCESS" \in GetStatus
            /\ \/ /\ Lacking({})
                  /\ rcv' = done
                  /\ net' = [net EXCEPT !.fins = @ \cup {u}]
               \/ /\ Lacking({"fin"})
                  /\ rcv' = [done EXCEPT !.fin_pending = @ \cup {u}]
                  /\ UNCHANGED net
         \/ "NOT_AVAILABLE" \in GetStatus /\ put_for_get(r, u)
         \/ /\ "ERROR" \in GetStatus
            /\ Lacking({})
            /\ rcv' = r
            /\ net' = [net EXCEPT !.ack = @ \cup {send_region(u)}]
      /\ UNCHANGED <<setup, snd>>

\* mca_pml_ob1_process_pending_rdma: the get is tried again.
RetryGet(u) ==
  LET r == [rcv EXCEPT !.rdma_pending = @ \ {u}]
  IN  /\ u \in rcv.rdma_pending
      /\ \/ Lacking({}) /\ rcv' = [r EXCEPT !.gets = @ \cup {u}] /\ UNCHANGED net
         \/ ack_send(r, net, send_region(u), {"get"})
      /\ UNCHANGED <<setup, snd>>

\* mca_pml_ob1_recv_request_progress_frag
ProgressFrag(u) ==
  /\ u \in net.frag
  /\ net' = [net EXCEPT !.frag = @ \ {u}]
  /\ rcv' = r_check_or_schedule([rcv EXCEPT !.got = @ \cup {u}, !.received = @ + 1])
  /\ UNCHANGED <<setup, snd, fails>>

\* mca_pml_ob1_put_completion of the receiver, on the FIN of a put.
RecvFinPut(f) ==
  LET r == [rcv EXCEPT !.depth = @ - 1]
  IN  /\ f \in net.finr
      /\ net' = [net EXCEPT !.finr = @ \ {f}]
      /\ rcv' = IF f.ok THEN r_check_or_schedule([r EXCEPT !.received = @ + 1]) ELSE r
      /\ UNCHANGED <<setup, snd, fails>>

\* The condition of the loop of mca_pml_ob1_recv_request_schedule_once.
r_may_put(r) == r.rdma_offset < r.send_offset /\ r.depth < RecvDepth

\* The header of the next put (mca_pml_ob1_recv_request_put_frag): it
\* acknowledges the RNDV when nothing has done so.
put_hdr(r) == [unit |-> r.rdma_offset, ack |-> ~r.ack_sent]

\* One iteration.  req_ack_sent is set before the header is sent and stays
\* set when that fails; a request without a resource is queued locked.
SchedulePut ==
  /\ rcv.loop = "IN" /\ r_may_put(rcv)
  /\ \/ /\ Lacking({})
        /\ rcv' = [rcv EXCEPT !.rdma_offset = @ + 1, !.depth = @ + 1, !.ack_sent = TRUE]
        /\ net' = [net EXCEPT !.put = @ \cup {put_hdr(rcv)}]
     \/ /\ Lacking({"put_alloc"})
        /\ rcv' = [rcv EXCEPT !.loop = "NO", !.pending = TRUE]
        /\ UNCHANGED net
     \/ /\ Lacking({"put_send"})
        /\ rcv' = [rcv EXCEPT !.loop = "NO", !.pending = TRUE, !.ack_sent = TRUE]
        /\ UNCHANGED net
  /\ UNCHANGED <<setup, snd>>

\* unlock_recv_request
r_unlock(r) ==
  IF r.lock = 1
  THEN [r EXCEPT !.lock = 0, !.loop = "NO", !.checks = @ + 1]
  ELSE [r EXCEPT !.lock = @ - 1, !.loop = "IN"]

PutEnd ==
  /\ rcv.loop = "IN" /\ ~r_may_put(rcv)
  /\ rcv' = [rcv EXCEPT !.loop = "OUT"]
  /\ UNCHANGED <<setup, snd, net, fails>>

PutUnlock ==
  /\ rcv.loop = "OUT"
  /\ rcv' = r_unlock(rcv)
  /\ UNCHANGED <<setup, snd, net, fails>>

PutCheck ==
  /\ rcv.checks > 0
  /\ rcv' = r_complete_check([rcv EXCEPT !.checks = @ - 1])
  /\ UNCHANGED <<setup, snd, net, fails>>

\* mca_pml_ob1_recv_request_process_pending
RecvProcessPending ==
  /\ rcv.pending
  /\ rcv' = [rcv EXCEPT !.pending = FALSE, !.loop = "IN"]
  /\ UNCHANGED <<setup, snd, net, fails>>

\* The ACK case of mca_pml_ob1_process_pending_packets: the flags of the
\* packet were never written, nordma is whatever the memory held.
RecvPendingAck(units, nordma) ==
  /\ units \in rcv.ack_pending
  /\ rcv' = [rcv EXCEPT !.ack_pending = @ \ {units}]
  /\ net' = [net EXCEPT !.ack = @ \cup {[units |-> units, nordma |-> nordma]}]
  /\ UNCHANGED <<setup, snd, fails>>

RecvPendingFin(u) ==
  /\ u \in rcv.fin_pending
  /\ rcv' = [rcv EXCEPT !.fin_pending = @ \ {u}]
  /\ net' = [net EXCEPT !.fins = @ \cup {u}]
  /\ UNCHANGED <<setup, snd, fails>>

-----------------------------------------------------------------------------
Done == snd.complete /\ rcv.complete

Next ==
  \/ \E pinned \in setup.s_pinned : Start(pinned)
  \/ MatchCompletion \/ RndvCompletion
  \/ ScheduleEnd \/ ScheduleUnlock \/ ScheduleCheck \/ SendProcessPending
  \/ \E a \in net.ack : RecvAck(a)
  \/ \E p \in net.put : RecvPut(p)
  \/ \E f \in snd.fin_pending : SendPendingFin(f)
  \/ \E h \in net.first : ProgressMatch(h)
  \/ \E h \in net.first : ProgressRget(h)
  \/ \E h \in net.first, pinned \in setup.r_pinned : ProgressRndv(h, pinned)
  \/ \E u \in snd.put_ops : PutCompletion(u)
  \/ \E u \in net.fins : RecvFinGet(u)
  \/ \E u \in snd.frag_lc : FragCompletion(u)
  \/ \E u \in snd.ranges : ScheduleFrag(u)
  \/ \E u \in rcv.gets : GetCompletion(u)
  \/ \E u \in rcv.rdma_pending : RetryGet(u)
  \/ \E u \in net.frag : ProgressFrag(u)
  \/ \E u \in rcv.fin_pending : RecvPendingFin(u)
  \/ GetFrag \/ SchedulePut \/ PutEnd \/ PutUnlock \/ PutCheck \/ RecvProcessPending
  \/ \E f \in net.finr : RecvFinPut(f)
  \/ \E units \in rcv.ack_pending, nordma \in BOOLEAN : RecvPendingAck(units, nordma)

Spec == Init /\ [][Next]_vars

\* Fairness: the progress engines of both processes keep running, the BTL
\* delivers what it was given, and a thread inside a loop goes on.
FairSpec == Spec /\ WF_vars(Next)

-----------------------------------------------------------------------------
TypeOK ==
  /\ fails \in 0 .. MaxFails
  /\ snd \in [req_state : Int, throttle : BOOLEAN, depth : Int, delivered : Nat,
              ranges : SUBSET Units, lock : Nat, loop : {"NO", "IN", "OUT"}, checks : Nat,
              pending : {"NONE", "START", "SCHEDULE"}, lc : {"NONE", "MATCH", "RNDV"},
              eager : SUBSET Units, frag_lc : SUBSET Units, put_ops : SUBSET Units,
              fin_pending : SUBSET [unit : Units, ok : BOOLEAN], rdma_frag : BOOLEAN,
              remaining : Int, complete : BOOLEAN]
  /\ rcv \in [matched : BOOLEAN, send_offset : 0 .. setup.size, rdma_offset : 0 .. setup.size,
              received : Nat, ack_sent : BOOLEAN, depth : Int, lock : Nat,
              loop : {"NO", "IN", "OUT"}, checks : Nat, pending : BOOLEAN,
              get_offset : 0 .. setup.size, getting : BOOLEAN, gets : SUBSET Units,
              got : SUBSET Units, ack_pending : SUBSET (SUBSET Units),
              fin_pending : SUBSET Units, rdma_pending : SUBSET Units,
              complete : BOOLEAN]
  /\ net \in [first : SUBSET [type : {"MATCH", "RNDV", "RGET"}, units : SUBSET Units,
                              contig : BOOLEAN, pin : BOOLEAN],
              ack : SUBSET [units : SUBSET Units, nordma : BOOLEAN],
              put : SUBSET [unit : Units, ack : BOOLEAN],
              frag : SUBSET Units,
              finr : SUBSET [unit : Units, ok : BOOLEAN],
              fins : SUBSET Units]

\* The sets that hold the units of a message once its first header has been
\* handled: the loop of gets will come to them, still to be asked for, asked
\* for by an ACK or a PUT, queued for copy in/out, being written, being read,
\* under way, received.
Places ==
  << { u \in Units : rcv.getting /\ u >= rcv.get_offset },
     { u \in Units : rcv.rdma_offset <= u /\ u < rcv.send_offset },
     { u \in Units : \E a \in net.ack : u \in a.units },
     { u \in Units : \E units \in rcv.ack_pending : u \in units },
     { u \in Units : \E p \in net.put : u = p.unit },
     snd.ranges, snd.put_ops, rcv.gets, rcv.rdma_pending, net.frag, rcv.got >>

\* The units the loop of mca_pml_ob1_recv_request_progress_rget never came to
\* because it was left (recvreq.c:787-788).  Nobody asks for them again.
Abandoned == { u \in Units : ~rcv.getting /\ u >= rcv.get_offset }

\* Safety: once the receiver has handled the first header, every unit of the
\* message is in exactly one place, whatever fails and is retried: none is
\* transferred twice, and none is lost but the abandoned ones.  These are in
\* no place, and there are some only if the resources for a get and for the
\* ACK that asks for a copy instead were both lacking.
UnitsConserved ==
  LET places == Places
      PlacesOf(u) == { i \in DOMAIN places : u \in places[i] }
  IN  rcv.matched =>
        /\ \A u \in Units \ Abandoned : Cardinality(PlacesOf(u)) = 1
        /\ \A u \in Abandoned : PlacesOf(u) = {}
        /\ Abandoned # {} => fails + 2 <= MaxFails

\* Safety: a receive request completes only when its buffer holds all of the
\* message, although it only counts bytes.
ReceivedAll == rcv.complete => rcv.got = Units

\* Safety: a send request completes only when its buffer is not needed any
\* more: nothing is queued, being written or being read from it.
SendBufferReusable ==
  snd.complete =>
    /\ snd.ranges = {} /\ snd.put_ops = {} /\ rcv.gets = {} /\ snd.frag_lc = {}
    /\ snd.pending = "NONE" /\ snd.lc = "NONE"

\* Safety: both requests complete only when what they promise is true.
CompleteMeansDone == ReceivedAll /\ SendBufferReusable

\* Safety: no message under way or waiting to be sent names a request that
\* has completed and may have been freed or started again.
NoDanglingReference ==
  /\ snd.complete => net.ack = {} /\ rcv.ack_pending = {} /\ net.put = {} /\ net.fins = {}
  /\ rcv.complete => net.frag = {} /\ net.finr = {} /\ snd.fin_pending = {}

\* Safety: a throttled sender keeps to send_pipeline_depth fragments, and the
\* receiver to recv_pipeline_depth puts.
PipelineBounded ==
  /\ snd.throttle => Cardinality(snd.frag_lc) <= SendDepth
  /\ Cardinality(snd.put_ops) + Cardinality(net.put) <= RecvDepth

\* Liveness: both requests complete.
Completes == <>Done

\* sendreq.h, mca_pml_ob1_send_request_fini: assert( NULL == sendreq->rdma_frag ).
RdmaFragReleased == snd.complete => ~snd.rdma_frag
=============================================================================
