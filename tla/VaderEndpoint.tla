---------------------------- MODULE VaderEndpoint ----------------------------
(***************************************************************************)
(* Sending to one peer with btl vader: mca_btl_vader_send and _sendi, the  *)
(* moment at which vader_fifo_write_ep moves from the peer's FIFO to a     *)
(* fast box, the list of fragments that wait for room in the fast box, and *)
(* the progress function that drains it, for several threads at once.      *)
(*                                                                         *)
(* The FIFO and the fast box are the queues that VaderFifo and VaderFbox   *)
(* show them to be.                                                        *)
(***************************************************************************)
EXTENDS Integers, Sequences

CONSTANTS
  Threads, NoThread,
  FboxThreshold,      \* mca_btl_vader_component.fbox_threshold
  Room,               \* messages the fast box has room for
  Sends               \* bound: messages each thread sends

EndpointAssumption ==
  /\ NoThread \notin Threads /\ {FboxThreshold, Room} \subseteq Nat \ {0}
  /\ Sends \in [Threads -> Nat]

VARIABLES
  fifo, fbox,             \* messages on their way: [msg, setup]
  fbox_out, send_count,   \* of the endpoint: has it a fast box; sends without one
  setter,                 \* the thread that set the fast box up
  fbox_in,                \* the peer polls the fast box
  pending_frags, waiting, \* of the endpoint
  listed,                 \* times the endpoint is in pending_endpoints
  pending_frags_lock, component_lock, progress_lock,
  pc, op, sends, delivered

channels == <<fifo, fbox, fbox_in, delivered>>
setupVars == <<fbox_out, send_count, setter>>
pendingVars == <<pending_frags, waiting, listed>>
locks == <<pending_frags_lock, component_lock, progress_lock>>
vars == <<channels, setupVars, pendingVars, locks, pc, op, sends>>

NoOp == [call |-> "none", msg |-> <<NoThread, 0>>, setup |-> FALSE]

Init ==
  /\ fifo = << >> /\ fbox = << >> /\ fbox_in = FALSE /\ delivered = << >>
  /\ fbox_out = FALSE /\ send_count = 0 /\ setter = NoThread
  /\ pending_frags = << >> /\ waiting = FALSE /\ listed = 0
  /\ pending_frags_lock = NoThread /\ component_lock = NoThread /\ progress_lock = NoThread
  /\ pc = [t \in Threads |-> "idle"]
  /\ op = [t \in Threads |-> NoOp]
  /\ sends = [t \in Threads |-> 0]

Goto(t, l) == pc' = [pc EXCEPT ![t] = l]
Return(t) == Goto(t, "idle") /\ op' = [op EXCEPT ![t] = NoOp]

-----------------------------------------------------------------------------
(* mca_btl_vader_send and mca_btl_vader_sendi *)

Call(t) ==
  /\ pc[t] = "idle" /\ sends[t] < Sends[t]
  /\ sends' = [sends EXCEPT ![t] = @ + 1]
  /\ \E call \in {"send", "sendi"} :
       op' = [op EXCEPT ![t] = [NoOp EXCEPT !.call = call, !.msg = <<t, sends[t] + 1>>]]
  /\ Goto(t, "check")
  /\ UNCHANGED <<channels, setupVars, pendingVars, locks>>

\* A sendi that has failed; the pml sends the same message with send.
SendiFails(t) == op' = [op EXCEPT ![t].call = "send"] /\ Goto(t, "check")

CheckPending(t) ==
  /\ pc[t] = "check"
  /\ IF pending_frags = << >>
     THEN Goto(t, IF op[t].call = "send" THEN "write" ELSE "inline") /\ UNCHANGED op
     ELSE IF op[t].call = "send" THEN Goto(t, "append") /\ UNCHANGED op
     ELSE SendiFails(t)
  /\ UNCHANGED <<channels, setupVars, pendingVars, locks, sends>>

HasRoom == fbox_out /\ Len(fbox) < Room
Message(t) == [msg |-> op[t].msg, setup |-> op[t].setup]

\* the first attempt of sendi: the message itself goes into the fast box
Inline(t) ==
  /\ pc[t] = "inline"
  /\ \/ /\ HasRoom
        /\ fbox' = Append(fbox, Message(t))
        /\ Return(t)
     \/ /\ Goto(t, "write")      \* no fast box, no room, or not contiguous
        /\ UNCHANGED <<fbox, op>>
  /\ UNCHANGED <<fifo, fbox_in, delivered, setupVars, pendingVars, locks, sends>>

AppendPending(t) ==
  /\ pc[t] = "append"
  /\ pending_frags_lock = NoThread
  /\ pending_frags' = Append(pending_frags, op[t].msg)
  /\ IF waiting
     THEN Return(t) /\ UNCHANGED pending_frags_lock
     ELSE Goto(t, "list") /\ pending_frags_lock' = t /\ UNCHANGED op
  /\ UNCHANGED <<channels, setupVars, waiting, listed, component_lock, progress_lock, sends>>

\* with the lock of the pending fragments still held
ListEndpoint(t) ==
  /\ pc[t] = "list"
  /\ component_lock = NoThread
  /\ listed' = listed + 1
  /\ waiting' = TRUE
  /\ pending_frags_lock' = NoThread
  /\ Return(t)
  /\ UNCHANGED <<channels, setupVars, pending_frags, component_lock, progress_lock, sends>>

-----------------------------------------------------------------------------
(* mca_btl_vader_component_progress, mca_btl_vader_progress_endpoints and *)
(* _waiting                                                                *)

Progress(t) ==
  /\ pc[t] = "idle"
  /\ progress_lock = NoThread
  /\ listed > 0
  /\ progress_lock' = t
  /\ Goto(t, "component")
  /\ UNCHANGED <<channels, setupVars, pendingVars, pending_frags_lock, component_lock, op, sends>>

\* Nobody but the thread in progress takes the endpoint off the list.
ProgressEndpoints(t) ==
  /\ pc[t] = "component"
  /\ component_lock = NoThread
  /\ component_lock' = t
  /\ Goto(t, "pending")
  /\ UNCHANGED <<channels, setupVars, pendingVars, pending_frags_lock, progress_lock, op, sends>>

ProgressWaiting(t) ==
  /\ pc[t] = "pending"
  /\ pending_frags_lock = NoThread
  /\ pending_frags_lock' = t
  /\ Goto(t, "drain")
  /\ UNCHANGED <<channels, setupVars, pendingVars, component_lock, progress_lock, op, sends>>

LeaveProgress(t) ==
  /\ pending_frags_lock' = NoThread
  /\ component_lock' = NoThread
  /\ progress_lock' = NoThread
  /\ Return(t)

Unlist == listed' = listed - 1 /\ waiting' = FALSE

Drain(t) ==
  /\ pc[t] = "drain"
  /\ IF pending_frags = << >>
     THEN Unlist /\ LeaveProgress(t)
     ELSE /\ op' = [op EXCEPT ![t] = [NoOp EXCEPT !.call = "drain", !.msg = Head(pending_frags)]]
          /\ Goto(t, "write")
          /\ UNCHANGED <<waiting, listed, locks>>
  /\ UNCHANGED <<channels, setupVars, pending_frags, sends>>

RemoveFirst(t) ==
  /\ pc[t] = "remove"
  /\ pending_frags' = Tail(pending_frags)
  /\ Goto(t, "drain")
  /\ UNCHANGED <<channels, setupVars, waiting, listed, locks, op, sends>>

-----------------------------------------------------------------------------
(* vader_fifo_write_ep and mca_btl_vader_try_fbox_setup, from all three *)

Written(t) ==
  IF op[t].call = "drain" THEN Goto(t, "remove") /\ UNCHANGED op ELSE Return(t)

WriteFails(t) ==
  CASE op[t].call = "drain" -> LeaveProgress(t)
    [] op[t].call = "send"  -> Goto(t, "append") /\ UNCHANGED <<op, locks>>
    [] op[t].call = "sendi" -> SendiFails(t) /\ UNCHANGED locks

WriteFbox(t) ==
  /\ pc[t] = "write"
  /\ CASE HasRoom -> fbox' = Append(fbox, Message(t)) /\ Written(t) /\ UNCHANGED locks
       [] fbox_out /\ ~HasRoom -> WriteFails(t) /\ UNCHANGED fbox
       [] ~fbox_out -> Goto(t, "setup") /\ UNCHANGED <<fbox, op, locks>>
  /\ UNCHANGED <<fifo, fbox_in, delivered, setupVars, pendingVars, sends>>

TryFboxSetup(t) ==
  /\ pc[t] = "setup"
  /\ send_count' = IF fbox_out THEN send_count ELSE send_count + 1
  /\ Goto(t, IF ~fbox_out /\ send_count + 1 = FboxThreshold THEN "setup_lock" ELSE "fifo")
  /\ UNCHANGED <<channels, fbox_out, setter, pendingVars, locks, op, sends>>

\* Mutation: the fragment does not tell the peer of the fast box.
FboxSetup_mut(t) ==
  /\ pc[t] = "setup_lock"
  /\ component_lock = NoThread
  /\ \/ fbox_out' = TRUE /\ setter' = t
     \/ UNCHANGED <<fbox_out, setter>>
  /\ Goto(t, "fifo")
  /\ UNCHANGED <<channels, send_count, pendingVars, locks, op, sends>>

\* under the component lock: the peer may have no fast box left
FboxSetup(t) ==
  /\ pc[t] = "setup_lock"
  /\ component_lock = NoThread
  /\ \/ /\ fbox_out' = TRUE
        /\ setter' = t
        /\ op' = [op EXCEPT ![t].setup = TRUE]
     \/ UNCHANGED <<fbox_out, setter, op>>
  /\ Goto(t, "fifo")
  /\ UNCHANGED <<channels, send_count, pendingVars, locks, sends>>

WriteFifo(t) ==
  /\ pc[t] = "fifo"
  /\ fifo' = Append(fifo, Message(t))
  /\ Written(t)
  /\ UNCHANGED <<fbox, fbox_in, delivered, setupVars, pendingVars, locks, sends>>

-----------------------------------------------------------------------------
(* the peer *)

CheckFboxes ==
  /\ fbox_in /\ fbox # << >>
  /\ delivered' = Append(delivered, [msg |-> Head(fbox).msg, path |-> "fbox"])
  /\ fbox' = Tail(fbox)
  /\ UNCHANGED <<fifo, fbox_in, setupVars, pendingVars, locks, pc, op, sends>>

PollFifo ==
  /\ fifo # << >>
  /\ delivered' = Append(delivered, [msg |-> Head(fifo).msg, path |-> "fifo"])
  /\ fbox_in' = (fbox_in \/ Head(fifo).setup)
  /\ fifo' = Tail(fifo)
  /\ UNCHANGED <<fbox, setupVars, pendingVars, locks, pc, op, sends>>

Step(t) ==
  \/ CheckPending(t) \/ Inline(t) \/ AppendPending(t) \/ ListEndpoint(t)
  \/ Progress(t) \/ ProgressEndpoints(t) \/ ProgressWaiting(t) \/ Drain(t) \/ RemoveFirst(t)
  \/ WriteFbox(t) \/ TryFboxSetup(t) \/ FboxSetup(t) \/ WriteFifo(t)

Next == (\E t \in Threads : Call(t) \/ Step(t)) \/ CheckFboxes \/ PollFifo

Spec == Init /\ [][Next]_vars

\* Threads go on with their calls and call progress; the peer polls.
Fairness == (\A t \in Threads : WF_vars(Step(t))) /\ WF_vars(CheckFboxes \/ PollFifo)
FairSpec == Spec /\ Fairness

-----------------------------------------------------------------------------
(* Properties *)

\* Safety: two messages of one thread overtake each other only where the
\* first went through the FIFO while another thread moved the endpoint to the
\* fast box; no message passes one that waits in pending_frags.
OnlySetupReorders ==
  \A i, j \in DOMAIN delivered :
    LET a == delivered[i]  b == delivered[j] IN
    i < j /\ a.msg[1] = b.msg[1] /\ a.msg[2] > b.msg[2] =>
      a.path = "fbox" /\ b.path = "fifo" /\ setter # a.msg[1]

\* Every message a thread has sent has reached the peer.
AllDelivered ==
  \A t \in Threads : \A k \in 1 .. sends[t] :
    \E i \in DOMAIN delivered : delivered[i].msg = <<t, k>>
=============================================================================
