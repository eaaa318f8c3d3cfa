------------------------------- MODULE OscPt2pt -------------------------------
(***************************************************************************)
(* ompi/mca/osc/pt2pt: one-sided communication over two-sided messages.    *)
(*                                                                         *)
(* An origin gathers its operations in fragments, which it holds back      *)
(* until the target has granted the lock or posted the window; long data   *)
(* travel in messages of their own.  Both sides count fragments and long   *)
(* messages: the request that ends an epoch carries the count of the       *)
(* origin, and the target answers when as many have come.                  *)
(*                                                                         *)
(* The component refuses MPI_THREAD_MULTIPLE, so a process is one thread.  *)
(* It makes the calls of its program; a step is what a call does between   *)
(* two waits, or one callback of opal_progress, which may run at any wait  *)
(* (and whenever the process calls MPI: a step of the model ends there).   *)
(* The operators that stand for functions of the code take and return the  *)
(* state of all the processes as a record.                                 *)
(***************************************************************************)
EXTENDS Integers, Sequences, FiniteSets, SequencesExt, FiniteSetsExt

CONSTANTS
  Size,       \* of the communicator
  Room,       \* operations that fit in a fragment (buffer_size)
  Programs    \* what the processes may call, a set of functions of the ranks

Procs == 0..(Size - 1)
\* The target of lock_all, whose object is all_sync, and no object at all
All == -1
Null == -2
NoGroup == {-1}

OscPt2ptAssumption ==
  /\ Size \in Nat \ {0} /\ Room \in Nat \ {0}
  /\ \A prg \in Programs : DOMAIN prg = Procs

VARIABLES
  prog, at, last,   \* per process: calls to make, where it is, the last one made
  win,              \* per process: ompi_osc_pt2pt_module_t with its peers
  wire,             \* wire[p][q]: the messages with OSC_PT2PT_FRAG_TAG from p to q
  moving,           \* the long messages: data of puts, accumulates and gets
  unfinished,       \* operations that are not done at the target, or at the
                    \* origin if it waits for data
  stray             \* <<origin, target>> of operations that met no epoch

vars == <<prog, at, last, win, wire, moving, unfinished, stray>>

NoSync == [type |-> "none", mode |-> "none", check |-> TRUE, expected |-> 0,
           eager |-> FALSE, active |-> FALSE, group |-> {}]
NoPeer == [locked |-> FALSE, eager |-> FALSE, unex |-> FALSE,
           active_frag |-> << >>, queued_frags |-> << >>,
           epoch_outgoing |-> 0, passive_incoming |-> 0]

Init ==
  /\ prog \in Programs
  /\ at = [p \in Procs |-> [pc |-> "idle", key |-> Null, id |-> 0]]
  /\ last = [p \in Procs |-> [call |-> "none"]]
  /\ win = [p \in Procs |->
              [lock_status |-> 0, locks_pending |-> << >>, holders |-> {},
               locks |-> [t \in Procs |-> NoSync], all_sync |-> NoSync,
               passive_target_access_epoch |-> 0, peer |-> [q \in Procs |-> NoPeer],
               outgoing |-> 0, active_incoming |-> 0,
               pw_group |-> NoGroup, num_complete |-> 0, pending_operations |-> << >>,
               accumulate_lock |-> FALSE, pending_acc |-> << >>,
               sums |-> << >>, barriers |-> 0, ops |-> 0, hasty |-> FALSE, left |-> {}]]
  /\ wire = [p \in Procs |-> [q \in Procs |-> << >>]]
  /\ moving = {} /\ unfinished = {} /\ stray = {}

State == [win |-> win, wire |-> wire, moving |-> moving,
          unfinished |-> unfinished, stray |-> stray]
\* F of the state s, which is evaluated once
With(s, F(_)) == CHOOSE r \in {F(x) : x \in {s}} : TRUE
Become(s) ==
  \E x \in {s} :
    /\ win' = x.win /\ wire' = x.wire /\ moving' = x.moving
    /\ unfinished' = x.unfinished /\ stray' = x.stray

Pc(p) == at[p].pc
Call(p) == Head(prog[p])
Calls(p, names) == Pc(p) = "idle" /\ prog[p] # << >> /\ Call(p).call \in names
Return(p) ==
  /\ at' = [at EXCEPT ![p] = [pc |-> "idle", key |-> Null, id |-> 0]]
  /\ last' = [last EXCEPT ![p] = Call(p)]
  /\ prog' = [prog EXCEPT ![p] = Tail(@)]
Wait(p, pc, key, id) ==
  /\ at' = [at EXCEPT ![p] = [pc |-> pc, key |-> key, id |-> id]]
  /\ UNCHANGED <<prog, last>>

-----------------------------------------------------------------------------
(* osc_pt2pt_sync.h and osc_pt2pt.h *)

Sync(s, p, k) == IF k = All THEN s.win[p].all_sync ELSE s.win[p].locks[k]
SetSync(s, p, k, x) ==
  IF k = All THEN [s EXCEPT !.win[p].all_sync = x] ELSE [s EXCEPT !.win[p].locks[k] = x]
Expect(s, p, k) ==
  IF k = All THEN [s EXCEPT !.win[p].all_sync.expected = @ + 1]
  ELSE [s EXCEPT !.win[p].locks[k].expected = @ + 1]

\* ompi_osc_pt2pt_sync_expected: the last answer lets the fragments go, unless
\* the peers are locked one by one.
sync_expected(s, p, k) ==
  LET Answered(x) ==
        [x EXCEPT !.expected = @ - 1,
                  !.eager = @ \/ (x.expected = 1 /\ ~(x.type = "lock" /\ k = All /\ Size > 1))]
  IN IF k = All THEN [s EXCEPT !.win[p].all_sync = Answered(@)]
     ELSE [s EXCEPT !.win[p].locks[k] = Answered(@)]

sync_reset(x) == [x EXCEPT !.type = "none", !.eager = FALSE, !.active = FALSE, !.group = {}]

signal_outgoing(s, p, t) ==
  [s EXCEPT !.win[p].outgoing = @ - 1, !.win[p].peer[t].epoch_outgoing = @ + 1]
mark_outgoing_completion(s, p) == [s EXCEPT !.win[p].outgoing = @ + 1]

Count(s, q, passive, src, n) ==
  IF passive
  THEN [s EXCEPT !.win[q].peer[src].passive_incoming = @ + n]
  ELSE [s EXCEPT !.win[q].active_incoming = @ + n]
mark_incoming_completion(s, q, passive, src) == Count(s, q, passive, src, 1)

Msg(type, key, mode) ==
  [type |-> type, key |-> key, mode |-> mode, ops |-> << >>, passive |-> FALSE]
\* ompi_osc_pt2pt_control_send_unbuffered: small, and sent at once.
control_send_unbuffered(s, p, t, m) == [s EXCEPT !.wire[p][t] = Append(@, m)]

\* ompi_osc_pt2pt_lock_remote
lock_remote(s, p, t, k) ==
  IF s.win[p].peer[t].locked THEN s
  ELSE control_send_unbuffered([Expect(s, p, k) EXCEPT !.win[p].peer[t].locked = TRUE],
         p, t, Msg("lock_req", k, Sync(s, p, k).mode))

\* ompi_osc_pt2pt_module_sync_lookup: the object, and what the look-up does.
LookupKey(s, p, t) ==
  LET x == s.win[p].all_sync
  IN CASE x.type = "none" -> IF s.win[p].locks[t].type = "none" THEN Null ELSE t
       [] x.type = "pscw" -> IF t \in x.group THEN All ELSE Null
       [] OTHER -> All
LookedUp(s, p, t) ==
  LET x == s.win[p].all_sync
      a == [s EXCEPT !.win[p].all_sync.active = TRUE]
  IN CASE x.type = "fence" -> a
       [] x.type = "lock" -> lock_remote(a, p, t, All)
       [] OTHER -> s

-----------------------------------------------------------------------------
(* osc_pt2pt_frag.h and osc_pt2pt_frag.c *)

\* A fragment that is full is longer than the eager limit of the transport: it
\* is sent when the receiver has it, and later messages may come before it.
Big(m) == Len(m.ops) >= Room

frag_send(s, p, t, f) ==
  LET a == [s EXCEPT !.wire[p][t] = Append(@, f)]
  IN IF Big(f) THEN a ELSE mark_outgoing_completion(a, p)

\* ompi_osc_pt2pt_peer_sends_active
sends_active(s, p, t) ==
  LET k == LookupKey(s, p, t)
  IN k # Null /\ (Sync(s, p, k).eager \/ s.win[p].peer[t].eager)

\* Mutation: the fragment does not wait for the epoch.
frag_start_mut(s, p, t, f) ==
  With(signal_outgoing(LookedUp(s, p, t), p, t),
       LAMBDA a : IF a.win[p].peer[t].queued_frags = << >> THEN frag_send(a, p, t, f)
                  ELSE [a EXCEPT !.win[p].peer[t].queued_frags = Append(@, f)])

frag_start(s, p, t, f) ==
  With(signal_outgoing(LookedUp(s, p, t), p, t),
       LAMBDA a : IF sends_active(a, p, t) /\ a.win[p].peer[t].queued_frags = << >>
                  THEN frag_send(a, p, t, f)
                  ELSE [a EXCEPT !.win[p].peer[t].queued_frags = Append(@, f)])

flush_pending(s, p, t) ==
  LET l == s.win[p].peer[t].queued_frags
      Sent[i \in 0..Len(l)] ==
        IF i = 0 THEN [s EXCEPT !.win[p].peer[t].queued_frags = << >>]
        ELSE frag_send(Sent[i - 1], p, t, l[i])
  IN Sent[Len(l)]

flush_active_frag(s, p, t) ==
  LET f == s.win[p].peer[t].active_frag
      a == [s EXCEPT !.win[p].peer[t].active_frag = << >>]
  IN IF f = << >> THEN s ELSE frag_send(signal_outgoing(a, p, t), p, t, f[1])

flush_target(s, p, t) ==
  With(flush_pending(s, p, t), LAMBDA a : flush_active_frag(a, p, t))

\* ompi_osc_pt2pt_frag_flush_all: one rank after the other
frag_flush_all(s, p) ==
  LET Flushed[n \in 0..Size] == IF n = 0 THEN s
                             ELSE With(Flushed[n - 1], LAMBDA a : flush_target(a, p, n - 1))
  IN Flushed[Size]

\* The fragment at hand is finished, which starts it (frag_alloc_non_buffered).
FinishActive(s, p, t) ==
  LET f == s.win[p].peer[t].active_frag
  IN IF f = << >> THEN s
     ELSE frag_start([s EXCEPT !.win[p].peer[t].active_frag = << >>], p, t, f[1])

NewFrag(s, p, ops) ==
  [Msg("frag", Null, "none") EXCEPT !.ops = ops,
     !.passive = s.win[p].passive_target_access_epoch # 0]

\* Mutation: a fragment is full one operation late.
Full_mut(s, p, t) ==
  LET a == s.win[p].peer[t].active_frag IN a # << >> /\ Len(a[1].ops) > Room

Full(s, p, t) ==
  LET a == s.win[p].peer[t].active_frag IN a # << >> /\ Len(a[1].ops) = Room

\* ompi_osc_pt2pt_frag_alloc with a buffered fragment, filled and finished
Buffered(s, p, t, op) ==
  With(IF Full(s, p, t) THEN FinishActive(s, p, t) ELSE s,
       LAMBDA a : [a EXCEPT !.win[p].peer[t].active_frag =
                     IF @ = << >> THEN <<NewFrag(a, p, <<op>>)>>
                     ELSE <<[@[1] EXCEPT !.ops = Append(@, op)]>>])

-----------------------------------------------------------------------------
(* osc_pt2pt_passive_target.c: the target *)

\* Mutation: an exclusive lock looks only for another one.
Free_mut(status, mode) == status >= 0

\* What ompi_osc_pt2pt_lock_try_acquire asks of lock_status
Free(status, mode) == IF mode = "shared" THEN status >= 0 ELSE status = 0

\* It succeeds: activate_lock answers, or tells the process itself.
Acquire(s, q, src, mode, k) ==
  LET a == [s EXCEPT !.win[q].lock_status = IF mode = "shared" THEN @ + 1 ELSE -1,
                     !.win[q].holders = @ \cup {<<src, mode>>}]
  IN IF src = q THEN sync_expected(a, q, k)
     ELSE control_send_unbuffered(a, q, src, Msg("lock_ack", k, "none"))

Queue(s, q, src, mode, k) ==
  [s EXCEPT !.win[q].locks_pending = Append(@, [src |-> src, mode |-> mode, key |-> k])]

\* ompi_osc_pt2pt_activate_next_lock: in the order of the queue, up to the
\* first lock that cannot be had.
RECURSIVE activate_next_lock(_, _)
activate_next_lock(s, q) ==
  LET l == s.win[q].locks_pending
  IN IF l = << >> \/ ~Free(s.win[q].lock_status, l[1].mode) THEN s
     ELSE With([Acquire(s, q, l[1].src, l[1].mode, l[1].key) EXCEPT !.win[q].locks_pending = Tail(@)],
               LAMBDA a : activate_next_lock(a, q))

process_lock(s, q, src, m) ==
  IF Free(s.win[q].lock_status, m.mode) THEN Acquire(s, q, src, m.mode, m.key)
  ELSE Queue(s, q, src, m.mode, m.key)

\* The lock is given back: by the number that hold it, and of which kind.
Release(s, q, src) ==
  LET was == s.win[q].lock_status
      now == IF was = -1 THEN 0 ELSE was - 1
  IN With([s EXCEPT !.win[q].lock_status = now, !.win[q].holders = {h \in @ : h[1] # src}],
          LAMBDA a : IF now = 0 THEN activate_next_lock(a, q) ELSE a)

\* OMPI_ERR_WOULD_BLOCK otherwise
Answerable(s, q, src) == s.win[q].peer[src].passive_incoming = 0

\* ompi_osc_pt2pt_process_unlock and _process_flush, when they do not block
Answer(s, q, src, op) ==
  IF op.kind = "unlock"
  THEN With(control_send_unbuffered(s, q, src, Msg("unlock_ack", op.key, "none")),
            LAMBDA a : Release(a, q, src))
  ELSE control_send_unbuffered(s, q, src, Msg("flush_ack", op.key, "none"))

\* process_unlock and process_flush of osc_pt2pt_data_move.c: the fragment of
\* the request itself is not in its count, and is counted when it is done.
process_request(s, q, src, op) ==
  Count(With(Count(s, q, TRUE, src, -op.count),
             LAMBDA a : IF Answerable(a, q, src) THEN Answer(a, q, src, op)
                        ELSE [a EXCEPT !.win[q].pending_operations =
                                Append(@, [src |-> src, op |-> op])]),
        q, TRUE, src, -1)

-----------------------------------------------------------------------------
(* osc_pt2pt_data_move.c: the target *)

\* The message for a long operation is known to the target: it has posted the
\* receive, or for a get the send.
PostData(s, src, q, op) ==
  [s EXCEPT !.moving = {IF m.p = src /\ m.t = q /\ m.n = op.id THEN [m EXCEPT !.posted = TRUE]
                        ELSE m : m \in @}]
Finish(s, src, q, n) ==
  [s EXCEPT !.unfinished = {o \in @ : ~(o.p = src /\ o.t = q /\ o.n = n)}]

\* ompi_osc_pt2pt_acc_op_queue: what is queued keeps the target waiting.
acc_op_queue(s, q, src, passive, op) ==
  [Count(s, q, passive, src, -1) EXCEPT
     !.win[q].pending_acc = Append(@, [src |-> src, passive |-> passive, op |-> op])]

\* ompi_osc_pt2pt_accumulate_unlock and _progress_pending_acc: the next one,
\* which keeps the lock until its data are there if it is long.
RECURSIVE accumulate_unlock(_, _)
accumulate_unlock(s, q) ==
  LET l == s.win[q].pending_acc
      x == l[1]
      a == [s EXCEPT !.win[q].pending_acc = Tail(@)]
      b == IF x.op.kind = "acc"
           THEN With(Finish(a, x.src, q, x.op.id), LAMBDA c : accumulate_unlock(c, q))
           ELSE PostData([a EXCEPT !.win[q].accumulate_lock = TRUE], x.src, q, x.op)
  IN IF l = << >> THEN [s EXCEPT !.win[q].accumulate_lock = FALSE]
     ELSE mark_incoming_completion(b, q, x.passive, x.src)

\* process_acc, process_acc_long and what they start
process_acc(s, q, src, passive, op) ==
  IF s.win[q].accumulate_lock THEN acc_op_queue(s, q, src, passive, op)
  ELSE LET a == [s EXCEPT !.win[q].accumulate_lock = TRUE]
       IN IF op.kind = "acc" THEN With(Finish(a, src, q, op.id), LAMBDA c : accumulate_unlock(c, q))
          ELSE PostData(a, src, q, op)

\* osc_pt2pt_incoming_complete
incoming_complete(s, q, n) ==
  [s EXCEPT !.win[q].active_incoming = @ - n, !.win[q].num_complete = @ + 1]

\* osc_pt2pt_incoming_post: the post may be for the next epoch.
incoming_post(s, q, src) ==
  IF s.win[q].all_sync.type = "pscw" /\ src \in s.win[q].all_sync.group
  THEN sync_expected(s, q, All)
  ELSE [s EXCEPT !.win[q].peer[src].unex = TRUE]

\* The origin may work on the window of q: it has the lock, or said that it
\* need not be checked, or q has posted, or is past the fence.
Covered(s, q, src, passive) ==
  IF passive
  THEN \/ \E mode \in {"shared", "exclusive"} : <<src, mode>> \in s.win[q].holders
       \/ \E k \in {q, All} : Sync(s, src, k).type = "lock" /\ ~Sync(s, src, k).check
  ELSE src \in s.win[q].pw_group \/ s.win[q].all_sync.type = "fence"

process_op(s, q, src, passive, op) ==
  LET a == IF Covered(s, q, src, passive) THEN s ELSE [s EXCEPT !.stray = @ \cup {<<src, q>>}]
  IN CASE op.kind = "put" -> Finish(a, src, q, op.id)
       [] op.kind \in {"put_long", "get"} -> PostData(a, src, q, op)
       [] op.kind \in {"acc", "acc_long"} -> process_acc(a, q, src, passive, op)
       [] op.kind \in {"unlock", "flush"} -> process_request(s, q, src, op)
       [] op.kind = "complete" -> incoming_complete(s, q, op.count + 1)

process_frag(s, q, src, m) ==
  LET Done[i \in 0..Len(m.ops)] ==
        IF i = 0 THEN s
        ELSE With(Done[i - 1], LAMBDA a : process_op(a, q, src, m.passive, m.ops[i]))
  IN mark_incoming_completion(Done[Len(m.ops)], q, m.passive, src)

\* The answers to the origin; that to a lock request opens the peer and sends
\* what waits for it (ompi_osc_pt2pt_process_lock_ack).
process_lock_ack(s, p, src, m) ==
  With([s EXCEPT !.win[p].peer[src].eager = TRUE],
       LAMBDA a : sync_expected(flush_pending(a, p, src), p, m.key))

\* ompi_osc_pt2pt_process_receive
process_receive(s, q, src, m) ==
  CASE m.type = "frag" -> process_frag(s, q, src, m)
    [] m.type = "lock_req" -> process_lock(s, q, src, m)
    [] m.type = "lock_ack" -> process_lock_ack(s, q, src, m)
    [] m.type \in {"unlock_ack", "flush_ack"} -> sync_expected(s, q, m.key)
    [] m.type = "post" -> incoming_post(s, q, src)

\* component_progress: a message that is there is dealt with.  Only one that is
\* big can be overtaken.
Receive(q) ==
  \E src \in Procs : \E i \in DOMAIN wire[src][q] :
    LET l == wire[src][q]
        a == [State EXCEPT !.wire[src][q] = RemoveAt(@, i)]
    IN /\ \A j \in 1..(i - 1) : Big(l[j])
       /\ Become(With(IF Big(l[i]) THEN mark_outgoing_completion(a, src) ELSE a,
                      LAMBDA b : process_receive(b, q, src, l[i])))
       /\ UNCHANGED <<prog, at, last>>

\* component_progress: a request that would have blocked is tried again.
RetryPending(q) ==
  \E i \in DOMAIN win[q].pending_operations :
    LET x == win[q].pending_operations[i]
    IN /\ Answerable(State, q, x.src)
       /\ Become(Answer([State EXCEPT !.win[q].pending_operations = RemoveAt(@, i)],
                        q, x.src, x.op))
       /\ UNCHANGED <<prog, at, last>>

Both(ms) == {m \in ms : ~(m.at_origin /\ m.at_target)}

\* The long message is done at the origin: ompi_osc_pt2pt_comm_complete; the
\* data of a put may be sent before the target asks for them.
DataAtOrigin(p) ==
  \E m \in moving :
    LET a == [State EXCEPT !.moving = Both((@ \ {m}) \cup {[m EXCEPT !.at_origin = TRUE]})]
    IN /\ m.p = p /\ ~m.at_origin /\ (m.kind = "get" => m.posted)
       /\ Become(mark_outgoing_completion(IF m.kind = "get" THEN Finish(a, p, m.t, m.n) ELSE a, p))
       /\ UNCHANGED <<prog, at, last>>

\* It is done at the target: osc_pt2pt_incoming_req_complete, get_post_send_cb
\* or accumulate_cb.
DataAtTarget(q) ==
  \E m \in moving :
    LET a == [State EXCEPT !.moving = Both((@ \ {m}) \cup {[m EXCEPT !.at_target = TRUE]})]
        b == CASE m.kind = "get" -> a
               [] m.kind = "put_long" -> Finish(a, m.p, q, m.n)
               [] m.kind = "acc_long" -> accumulate_unlock(Finish(a, m.p, q, m.n), q)
    IN /\ m.t = q /\ m.posted /\ ~m.at_target
       /\ Become(mark_incoming_completion(b, q, m.passive, m.p))
       /\ UNCHANGED <<prog, at, last>>

Progress(p) == Receive(p) \/ RetryPending(p) \/ DataAtOrigin(p) \/ DataAtTarget(p)

-----------------------------------------------------------------------------
(* osc_pt2pt_passive_target.c: the origin *)

Key(p) == IF Call(p).call \in {"lock_all", "unlock_all"} THEN All ELSE Call(p).target
Op(kind, id) == [kind |-> kind, id |-> id, key |-> Null, count |-> 0]
Request(kind, k, n) == [kind |-> kind, id |-> 0, key |-> k, count |-> n]

\* OMPI_ERR_RMA_SYNC, and OMPI_ERR_RMA_CONFLICT
LockRefused(p) ==
  LET x == win[p].all_sync
  IN \/ x.active \/ (x.type = "lock" /\ (Call(p).mode = "exclusive" \/ Key(p) = All))
     \/ Key(p) # All /\ win[p].locks[Key(p)].type # "none"

RefuseLock(p) ==
  /\ Calls(p, {"lock", "lock_all"}) /\ LockRefused(p)
  /\ Return(p) /\ UNCHANGED <<win, wire, moving, unfinished, stray>>

\* ompi_osc_pt2pt_lock_internal up to lock_internal_execute.  A fence that saw no
\* operation ends; eager of all_sync stays as the fence has left it.  The field
\* hasty notes that the process may send before the target has agreed.
Locking(p) ==
  LET k == Key(p)
      c == Call(p)
      old == IF k = All THEN win[p].all_sync ELSE NoSync
      a == [State EXCEPT !.win[p].passive_target_access_epoch = @ + 1,
              !.win[p].all_sync.type = IF @ = "fence" THEN "none" ELSE @,
              !.win[p].hasty = @ \/ (old.eager /\ c.check)]
  IN SetSync(a, p, k, [old EXCEPT !.type = "lock", !.mode = c.mode, !.check = c.check,
                                  !.expected = 0, !.eager = @ \/ ~c.check])

SelfIsLocked(s, p) == [s EXCEPT !.win[p].peer[p].locked = TRUE, !.win[p].peer[p].eager = TRUE]

\* MPI_Win_lock and MPI_Win_lock_all return at once, but for the process itself,
\* whose lock they wait for (ompi_osc_pt2pt_lock_self).  The others are locked
\* when there is an operation for them.
Lock(p) ==
  /\ Calls(p, {"lock", "lock_all"}) /\ ~LockRefused(p)
  /\ LET k == Key(p)
         a == Locking(p)
         b == Expect(a, p, k)
         mode == Call(p).mode
     IN \/ /\ ~Call(p).check
           /\ Become(a) /\ Return(p)
        \/ /\ Call(p).check /\ k \notin {p, All}
           /\ Become(lock_remote(a, p, k, k)) /\ Return(p)
        \/ /\ Call(p).check /\ k \in {p, All} /\ Free(win[p].lock_status, mode)
           /\ Become(SelfIsLocked(Acquire(b, p, p, mode, k), p)) /\ Return(p)
        \/ /\ Call(p).check /\ k \in {p, All} /\ ~Free(win[p].lock_status, mode)
           /\ Become(Queue(b, p, p, mode, k)) /\ Wait(p, "lock", k, 0)

SelfLocked(p) ==
  /\ Pc(p) = "lock" /\ Sync(State, p, at[p].key).expected = 0
  /\ Become(SelfIsLocked(State, p)) /\ Return(p)

\* The request that asks t for an answer goes with the fragment at hand, or in
\* one more that the count includes.
SendRequest(s, p, t, k, kind) ==
  LET n == s.win[p].peer[t].epoch_outgoing
      more == IF Full(s, p, t) THEN 1 ELSE 0
      a == [Expect(s, p, k) EXCEPT !.win[p].peer[t].epoch_outgoing = -1 - more]
  IN With(a, LAMBDA b : Buffered(b, p, t, Request(kind, k, n + more)))

unlock_remote(s, p, t, k) ==
  With([SendRequest(s, p, t, k, "unlock") EXCEPT
          !.win[p].peer[t].locked = FALSE, !.win[p].peer[t].eager = FALSE,
          !.win[p].left = @ \ {t}],
       LAMBDA a : flush_target(a, p, t))
flush_remote(s, p, t, k) ==
  With(SendRequest(s, p, t, k, "flush"), LAMBDA a : flush_target(a, p, t))

unlock_self(s, p) ==
  [Release(s, p, p) EXCEPT !.win[p].peer[p].locked = FALSE, !.win[p].peer[p].eager = FALSE]

\* ompi_osc_pt2pt_flush_lock
flush_lock(s, p, t, k) ==
  LET Asked[n \in 0..Size] ==
        IF n = 0 THEN s
        ELSE IF n - 1 = p THEN Asked[n - 1] ELSE With(Asked[n - 1], LAMBDA a : flush_remote(a, p, n - 1, k))
  IN IF t = All THEN Asked[Size] ELSE flush_remote(s, p, t, k)

\* The end of ompi_osc_pt2pt_unlock_internal.  A lock_all that is not checked asks
\* for the locks of the peers it has operations for, but does not give them
\* back: the field left notes them.
EndLock(s, p, k) ==
  [SetSync(s, p, k, IF k = All THEN sync_reset(Sync(s, p, k)) ELSE NoSync)
     EXCEPT !.win[p].passive_target_access_epoch = @ - 1,
            !.win[p].left = IF k = All THEN {t \in Procs : s.win[p].peer[t].locked} ELSE @]

\* The peers that were locked on demand are unlocked, then the process itself.
UnlockAll(s, p) ==
  LET Asked[n \in 0..Size] ==
        IF n = 0 THEN s
        ELSE IF n - 1 = p \/ ~s.win[p].peer[n - 1].locked THEN Asked[n - 1]
        ELSE With(Asked[n - 1], LAMBDA a : unlock_remote(a, p, n - 1, All))
  IN With(Asked[Size], LAMBDA a : unlock_self(a, p))

\* OMPI_ERR_RMA_SYNC: there is no such lock.
RefuseUnlock(p) ==
  /\ Calls(p, {"unlock", "unlock_all"}) /\ Sync(State, p, Key(p)).type # "lock"
  /\ Return(p) /\ UNCHANGED <<win, wire, moving, unfinished, stray>>

\* ompi_osc_pt2pt_unlock_internal; what was not checked is only flushed.
Unlock(p) ==
  /\ Calls(p, {"unlock", "unlock_all"})
  /\ LET k == Key(p)
         x == Sync(State, p, k)
     IN /\ x.type = "lock" /\ x.expected = 0
        /\ \/ /\ ~x.check
              /\ Become(flush_lock(State, p, k, k)) /\ Wait(p, "unlock unchecked", k, 0)
           \/ /\ x.check /\ k = All
              /\ Become(UnlockAll(State, p)) /\ Wait(p, "unlock", k, 0)
           \/ /\ x.check /\ k = p
              /\ Become(EndLock(unlock_self(State, p), p, k)) /\ Return(p)
           \/ /\ x.check /\ k \notin {p, All}
              /\ Become(unlock_remote(State, p, k, k)) /\ Wait(p, "unlock", k, 0)

\* Mutation: data that are still under way are not waited for.
Unlocked_mut(p) ==
  /\ Pc(p) \in {"unlock", "unlock unchecked"}
  /\ Sync(State, p, at[p].key).expected = 0
  /\ Become(EndLock(State, p, at[p].key)) /\ Return(p)

\* The answers are there, and everything that was sent or asked for.
Unlocked(p) ==
  /\ Pc(p) \in {"unlock", "unlock unchecked"}
  /\ Sync(State, p, at[p].key).expected = 0
  /\ Pc(p) = "unlock" => win[p].outgoing >= 0
  /\ Become(EndLock(State, p, at[p].key)) /\ Return(p)

\* The lock that a flush is about.  ompi_osc_pt2pt_flush_all is modelled for one
\* outstanding lock.
FlushKey(p) ==
  LET held == {t \in Procs : win[p].locks[t].type # "none"}
  IN IF Call(p).call = "flush" /\ Call(p).target \in held THEN Call(p).target
     ELSE IF win[p].all_sync.type = "lock" THEN All
     ELSE IF Call(p).call = "flush_all" THEN CHOOSE t \in held : TRUE
     ELSE Null

\* OMPI_ERR_RMA_SYNC, or nothing to flush
FlushNothing(p) ==
  /\ Calls(p, {"flush", "flush_all"})
  /\ \/ win[p].passive_target_access_epoch = 0
     \/ Call(p).call = "flush" /\ (Call(p).target = p \/ FlushKey(p) = Null)
  /\ Return(p) /\ UNCHANGED <<win, wire, moving, unfinished, stray>>

Flush(p) ==
  /\ Calls(p, {"flush", "flush_all"}) /\ win[p].passive_target_access_epoch > 0
  /\ Call(p).call = "flush" => Call(p).target # p
  /\ LET k == FlushKey(p)
     IN /\ k # Null /\ Sync(State, p, k).expected = 0
        /\ Become(flush_lock(State, p, IF Call(p).call = "flush" THEN Call(p).target ELSE k, k))
        /\ Wait(p, "flush", k, 0)

Flushed(p) ==
  /\ Pc(p) = "flush" /\ Sync(State, p, at[p].key).expected = 0
  /\ Return(p) /\ UNCHANGED <<win, wire, moving, unfinished, stray>>

\* ompi_osc_pt2pt_flush_local and _flush_local_all: everything goes, granted or not.
FlushLocal(p) ==
  /\ Calls(p, {"flush_local", "flush_local_all"})
  /\ IF win[p].passive_target_access_epoch = 0
     THEN Return(p) /\ UNCHANGED <<win, wire, moving, unfinished, stray>>
     ELSE LET to == IF Call(p).call = "flush_local" THEN {Call(p).target} ELSE Procs
              ahead == {t \in to : /\ ~sends_active(State, p, t)
                                   /\ win[p].peer[t].queued_frags \o win[p].peer[t].active_frag # << >>}
              a == [State EXCEPT !.win[p].hasty = @ \/ ahead # {}]
          IN /\ Become(IF Call(p).call = "flush_local" THEN flush_target(a, p, Call(p).target)
                       ELSE frag_flush_all(a, p))
             /\ Wait(p, "outgoing", Null, 0)

\* What is sent is waited for: the end of flush_local and of complete.
Sent(p) ==
  /\ Pc(p) = "outgoing" /\ win[p].outgoing >= 0
  /\ Return(p) /\ UNCHANGED <<win, wire, moving, unfinished, stray>>

Passive(p) ==
  \/ RefuseLock(p) \/ Lock(p) \/ SelfLocked(p) \/ RefuseUnlock(p) \/ Unlock(p) \/ Unlocked(p)
  \/ FlushNothing(p) \/ Flush(p) \/ Flushed(p) \/ FlushLocal(p) \/ Sent(p)

-----------------------------------------------------------------------------
(* osc_pt2pt_comm.c: the operations *)

Short == {"put", "acc", "get"}
Long == {"put_long", "acc_long"}

\* A new operation of p for t, in the epoch that the object k stands for
Issue(s, p, t, k, kind) ==
  LET n == s.win[p].ops + 1
  IN [s EXCEPT !.win[p].ops = n,
       !.unfinished = @ \cup {[p |-> p, t |-> t, n |-> n, kind |-> kind,
                               sync |-> Sync(s, p, k).type, check |-> Sync(s, p, k).check,
                               fence |-> s.win[p].barriers]}]
Move(s, p, t, n, kind) ==
  [s EXCEPT !.moving = @ \cup {[p |-> p, t |-> t, n |-> n, kind |-> kind, posted |-> FALSE,
                                at_origin |-> FALSE, at_target |-> FALSE,
                                passive |-> s.win[p].passive_target_access_epoch # 0]}]

\* OMPI_ERR_RMA_SYNC: no epoch for the target
RefuseOperation(p) ==
  /\ Calls(p, Short \cup Long) /\ LookupKey(State, p, Call(p).target) = Null
  /\ Return(p) /\ UNCHANGED <<win, wire, moving, unfinished, stray>>

\* An operation of the process on its own window waits for the epoch, and an
\* accumulate for those that are under way (put_self, get_self, acc_self).
OperateSelf(p) ==
  \/ /\ Calls(p, Short \cup Long) /\ Call(p).target = p /\ LookupKey(State, p, p) # Null
     /\ Become(LookedUp(State, p, p)) /\ Wait(p, "self", LookupKey(State, p, p), 0)
  \/ /\ Pc(p) = "self" /\ Sync(State, p, at[p].key).expected = 0
     /\ Call(p).call \in {"acc", "acc_long"} => ~win[p].accumulate_lock
     /\ Return(p) /\ UNCHANGED <<win, wire, moving, unfinished, stray>>

\* What fits in a fragment is put there; a get counts the data it asks for.
Operate(p) ==
  /\ Calls(p, Short)
  /\ LET t == Call(p).target
         kind == Call(p).call
         k == LookupKey(State, p, t)
         n == win[p].ops + 1
         a == With(With(LookedUp(State, p, t), LAMBDA b : Issue(b, p, t, k, kind)),
                   LAMBDA b : Buffered(b, p, t, Op(kind, n)))
     IN /\ t # p /\ k # Null
        /\ Become(IF kind = "get" THEN Move(signal_outgoing(a, p, t), p, t, n, kind) ELSE a)
        /\ Return(p)

\* What a long operation waits for
Ready(s, p, t, k) ==
  IF Sync(s, p, k).type = "lock" THEN s.win[p].peer[t].eager ELSE Sync(s, p, k).expected = 0

\* A long operation has its header in a fragment, and waits for the epoch before
\* it sends the data.  That of a put is a fragment of its own.
BeginLong(p) ==
  /\ Calls(p, Long)
  /\ LET t == Call(p).target
         kind == Call(p).call
         k == LookupKey(State, p, t)
         n == win[p].ops + 1
         a == With(LookedUp(State, p, t), LAMBDA b : Issue(b, p, t, k, kind))
     IN /\ t # p /\ k # Null
        /\ Become(With(a, LAMBDA b : IF kind = "put_long" THEN FinishActive(b, p, t)
                                     ELSE Buffered(b, p, t, Op(kind, n))))
        /\ Wait(p, IF Ready(State, p, t, k) THEN "long" ELSE "long asleep", k, n)

\* It is woken only when all the answers that it may expect are there.
SendLong(p) ==
  /\ Pc(p) \in {"long", "long asleep"}
  /\ LET t == Call(p).target
         kind == Call(p).call
         x == Sync(State, p, at[p].key)
         a == Move(signal_outgoing(State, p, t), p, t, at[p].id, kind)
     IN /\ Ready(State, p, t, at[p].key) /\ (Pc(p) = "long asleep" => x.expected = 0)
        /\ Become(IF kind = "put_long"
                  THEN With(a, LAMBDA b : frag_start(b, p, t, NewFrag(b, p, <<Op(kind, at[p].id)>>)))
                  ELSE a)
        /\ Return(p)

Operations(p) ==
  RefuseOperation(p) \/ OperateSelf(p) \/ Operate(p) \/ BeginLong(p) \/ SendLong(p)

-----------------------------------------------------------------------------
(* osc_pt2pt_active_target.c *)

RefuseEpoch(p) ==
  /\ \/ Calls(p, {"fence"}) /\ win[p].passive_target_access_epoch # 0
     \/ Calls(p, {"start"}) /\ (win[p].all_sync.active \/ win[p].passive_target_access_epoch # 0)
     \/ Calls(p, {"complete"}) /\ win[p].all_sync.type # "pscw"
     \/ Calls(p, {"post"}) /\ win[p].pw_group # NoGroup
     \/ Calls(p, {"wait", "test"}) /\ win[p].pw_group = NoGroup
  /\ Return(p) /\ UNCHANGED <<win, wire, moving, unfinished, stray>>

EnterBarrier(s, p) == [s EXCEPT !.win[p].barriers = @ + 1]

\* ompi_osc_pt2pt_fence up to the collective call
Fence(p) ==
  /\ Calls(p, {"fence"}) /\ win[p].passive_target_access_epoch = 0
  /\ LET c == Call(p)
         a == IF c.succeed
              THEN [State EXCEPT !.win[p].all_sync.type = "fence", !.win[p].all_sync.eager = TRUE]
              ELSE State
     IN IF c.precede
        THEN /\ Become(With(With(a, LAMBDA b : frag_flush_all(b, p)),
                  LAMBDA b : [b EXCEPT !.win[p].sums =
                                Append(@, [q \in Procs |-> b.win[p].peer[q].epoch_outgoing])]))
             /\ Wait(p, "reduce", Null, 0)
        ELSE Become(EnterBarrier(a, p)) /\ Wait(p, "barrier", Null, 0)

\* coll_reduce_scatter_block returns how many are coming, of all processes.
Reduced(p) ==
  LET n == Len(win[p].sums)
      incoming == FoldSet(LAMBDA q, i : i + win[q].sums[n][p], 0, Procs)
  IN /\ Pc(p) = "reduce" /\ \A q \in Procs : Len(win[q].sums) >= n
     /\ Become([State EXCEPT !.win[p].active_incoming = @ - incoming,
                  !.win[p].peer = [q \in Procs |-> [@[q] EXCEPT !.epoch_outgoing = 0]]])
     /\ Wait(p, "fence", Null, 0)

Counted(p) ==
  /\ Pc(p) = "fence" /\ win[p].outgoing >= 0 /\ win[p].active_incoming >= 0
  /\ LET x == win[p].all_sync
     IN Become(EnterBarrier([State EXCEPT !.win[p].all_sync =
                  IF Call(p).succeed THEN [x EXCEPT !.active = FALSE] ELSE sync_reset(x)], p))
  /\ Wait(p, "barrier", Null, 0)

LeaveFence(p) ==
  /\ Pc(p) = "barrier" /\ \A q \in Procs : win[q].barriers >= win[p].barriers
  /\ Return(p) /\ UNCHANGED <<win, wire, moving, unfinished, stray>>

\* ompi_osc_pt2pt_start: the posts that came before it are taken.
Start(p) ==
  /\ Calls(p, {"start"}) /\ ~win[p].all_sync.active /\ win[p].passive_target_access_epoch = 0
  /\ LET g == Call(p).group
         early == IF Call(p).check THEN {t \in g : win[p].peer[t].unex} ELSE {}
         missing == IF Call(p).check THEN Cardinality(g \ early) ELSE 0
     IN Become([State EXCEPT
          !.win[p].all_sync = [NoSync EXCEPT !.type = "pscw", !.group = g, !.active = TRUE,
                                             !.expected = missing, !.eager = missing = 0],
          !.win[p].peer = [t \in Procs |-> [@[t] EXCEPT !.unex = @ /\ t \notin early]]])
  /\ Return(p)

\* ompi_osc_pt2pt_complete for one rank of the group
CompleteTarget(s, p, t) ==
  LET n == s.win[p].peer[t].epoch_outgoing + (IF Full(s, p, t) THEN 1 ELSE 0)
  IN IF t = p THEN incoming_complete(s, p, 0)
     ELSE [With(Buffered(s, p, t, Request("complete", Null, n)), LAMBDA a : flush_target(a, p, t))
             EXCEPT !.win[p].peer[t].epoch_outgoing = 0]

Complete(p) ==
  /\ Calls(p, {"complete"}) /\ win[p].all_sync.type = "pscw" /\ win[p].all_sync.eager
  /\ LET Told[n \in 0..Size] ==
           IF n = 0 THEN [State EXCEPT !.win[p].all_sync = sync_reset(@)]
           ELSE IF n - 1 \in win[p].all_sync.group 
           THEN With(Told[n - 1], LAMBDA a : CompleteTarget(a, p, n - 1))
           ELSE Told[n - 1]
     IN Become(Told[Size])
  /\ Wait(p, "outgoing", Null, 0)

\* ompi_osc_pt2pt_post
Post(p) ==
  /\ Calls(p, {"post"}) /\ win[p].pw_group = NoGroup
  /\ LET g == Call(p).group
         told == IF Call(p).check THEN g ELSE {}
         a == [State EXCEPT !.win[p].pw_group = g, !.win[p].num_complete = -Cardinality(g),
                 !.wire[p] = [t \in Procs |-> IF t \in told \ {p}
                                              THEN Append(@[t], Msg("post", Null, "none")) ELSE @[t]]]
     IN Become(IF p \in told THEN incoming_post(a, p, p) ELSE a)
  /\ Return(p)

AllCompleted(p) == win[p].num_complete = 0 /\ win[p].active_incoming >= 0

\* ompi_osc_pt2pt_wait, and an ompi_osc_pt2pt_test that returns true
ExposureEnds(p) ==
  /\ Calls(p, {"wait", "test"}) /\ win[p].pw_group # NoGroup /\ AllCompleted(p)
  /\ Become([State EXCEPT !.win[p].pw_group = NoGroup]) /\ Return(p)

TestFails(p) ==
  /\ Calls(p, {"test"}) /\ win[p].pw_group # NoGroup /\ ~AllCompleted(p)
  /\ Return(p) /\ UNCHANGED <<win, wire, moving, unfinished, stray>>

Active(p) ==
  \/ RefuseEpoch(p) \/ Fence(p) \/ Reduced(p) \/ Counted(p) \/ LeaveFence(p)
  \/ Start(p) \/ Complete(p) \/ Post(p) \/ ExposureEnds(p) \/ TestFails(p)

Step(p) == Passive(p) \/ Operations(p) \/ Active(p) \/ Progress(p)

Next == \E p \in Procs : Step(p)

-----------------------------------------------------------------------------

\* Type invariant, with the bounds of the counters: outgoing_frag_count never
\* passes zero, a fragment has an operation and room for it, and a lock object
\* expects no negative number of answers.
TypeOK ==
  \A p \in Procs :
    /\ win[p].lock_status \in -1..Size /\ win[p].outgoing <= 0
    /\ win[p].passive_target_access_epoch \in Nat /\ win[p].pw_group \in SUBSET Procs \cup {NoGroup}
    /\ \A k \in Procs \cup {All} : Sync(State, p, k).expected \in Nat
    /\ \A t \in Procs :
         LET x == win[p].peer[t]
         IN /\ Len(x.active_frag) <= 1
            /\ \A f \in ToSet(x.active_frag \o x.queued_frags) : Len(f.ops) \in 1..Room

Has(p, t) == win[p].peer[t].locked /\ win[p].peer[t].eager

\* Safety: an exclusive lock of a window excludes every other, and an origin
\* that sends its fragments freely is one of those the target has given the
\* lock to, in the mode it has asked for: no lock is counted twice, given back
\* for another or lost.  The exception is a lock that an unchecked lock_all has
\* left behind: a later one finds the peer locked and asks for nothing
\* (osc_pt2pt_passive_target.c:126).
WindowLocksExclude ==
  \A t \in Procs :
    /\ \A h \in win[t].holders : h[2] = "exclusive" => win[t].holders = {h}
    /\ win[t].lock_status = IF \E h \in win[t].holders : h[2] = "exclusive" THEN -1
                            ELSE Cardinality(win[t].holders)
    /\ \A p \in Procs : Has(p, t) =>
         \E h \in win[t].holders :
           /\ h[1] = p
           /\ win[p].locks[t].mode = "exclusive" => h[2] = "exclusive" \/ t \in win[p].left

\* Safety: no operation reaches a window that the origin has not locked, or
\* that is not exposed to it.  The exceptions are a flush_local that comes
\* before the answer to the lock request, and a lock_all after a fence.
OperationsAreCovered == \A x \in stray : win[x[1]].hasty

\* The epoch of an operation
Open(o) ==
  CASE o.sync = "lock" -> Sync(State, o.p, o.t).type = "lock" \/ win[o.p].all_sync.type = "lock"
    [] o.sync = "fence" -> win[IF o.kind = "get" THEN o.p ELSE o.t].barriers <= o.fence
    [] o.sync = "pscw" -> \/ win[o.p].all_sync.type = "pscw" \/ Pc(o.p) = "outgoing"
                          \/ o.kind # "get" /\ o.p \in win[o.t].pw_group

\* The data of a get have left the target and are not yet with the origin.
Arriving(o) ==
  o.kind = "get" /\ \E m \in moving : m.p = o.p /\ m.t = o.t /\ m.n = o.n /\ m.at_target

\* Safety: when unlock, fence or wait returns, the operations of the epoch are
\* done in the window of the target, and the data of a get are with the origin
\* when its own call returns.  The exception is the unlock of a lock that was
\* not checked, which only flushes and does not wait for the data of a get
\* (osc_pt2pt_passive_target.c:441).
EpochsComplete ==
  \A o \in unfinished : Open(o) \/ (o.sync = "lock" /\ ~o.check /\ Arriving(o))

\* What MPI_Win_unlock says, without that exception.
UnlockCompletes == \A o \in unfinished : o.sync = "lock" => Open(o)

\* Safety: after a flush the operations before it are done in the window of the
\* target; the exception is that the data of a get may still be on their way
\* (osc_pt2pt_passive_target.c:521).
FlushCompletes ==
  \A p \in Procs :
    (Pc(p) = "idle" /\ last[p].call \in {"flush", "flush_all"} /\ win[p].passive_target_access_epoch > 0) =>
      \A o \in unfinished :
        (o.p = p /\ (last[p].call = "flush" => o.t = last[p].target)) => Arriving(o)

\* Safety: an origin without an epoch has nothing counted, nor its targets for
\* it, and nothing in hand: the next epoch starts from zero, but for the data
\* that an unlock has not waited for.
CountsSettle ==
  \A p \in Procs :
    (Pc(p) = "idle" /\ win[p].all_sync.type = "none" /\ win[p].passive_target_access_epoch = 0) =>
      /\ win[p].outgoing = -Cardinality({o \in unfinished : o.p = p /\ o.sync = "lock"})
      /\ \A t \in Procs :
           /\ win[p].peer[t].epoch_outgoing = 0 /\ win[t].peer[p].passive_incoming = 0
           /\ win[p].peer[t].active_frag = << >> /\ win[p].peer[t].queued_frags = << >>

\* A long operation in an epoch of MPI_Win_lock with MPI_MODE_NOCHECK waits for a
\* flag of the peer that only the answer to a lock request sets.
StuckUnchecked(p) ==
  Pc(p) = "long asleep" /\ at[p].key # All /\ ~Sync(State, p, at[p].key).check

\* A process waits in the queue for a lock that an unchecked lock_all of another
\* has left behind.
KeptOut(p) ==
  \E t, q \in Procs : t \in win[q].left /\ \E l \in ToSet(win[t].locks_pending) : l.src = p

\* Every call has returned, but for those.
AllReturned == \A p \in Procs : prog[p] = << >> \/ StuckUnchecked(p) \/ KeptOut(p)
=============================================================================
