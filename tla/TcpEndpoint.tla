----------------------------- MODULE TcpEndpoint -----------------------------
(***************************************************************************)
(* The connection of two processes by btl tcp (btl_tcp_endpoint.c,         *)
(* btl_tcp_proc.c, btl_tcp_component.c): a process connects when it has    *)
(* something to send, so both may connect at once, and the order of their  *)
(* names decides which of the two connections stays.  What is sent before  *)
(* the connection stands waits in the queue of the endpoint.               *)
(*                                                                         *)
(* Each process has one thread: the handlers of the event library and the  *)
(* calls of endpoint_send exclude each other.  The network (external) keeps *)
(* what is written in order and loses no connection; an end that was       *)
(* closed is read as the end of the stream once the rest has been read.    *)
(***************************************************************************)
EXTENDS Integers, Sequences

CONSTANTS
  Sends,       \* for each process the number of fragments it sends
  NoFrag, NoSocket

\* The processes, by the order of their names.
Procs == 1..2
Peer(p) == 3 - p

TcpAssumption == Sends \in [Procs -> Nat]

\* A connection is named after the process that opened it.  An abort ends the
\* run before the same process opens a second one.
Sockets == Procs

VARIABLES
  ep,          \* the endpoint of each process for its peer
  net,         \* what is under way on each connection, towards each end
  open,        \* the ends of each connection that are open
  unread,      \* for each process, the accepted sockets that await their first message
  next_frag,   \* the number of the fragments each process has sent so far
  called_back, \* the fragments whose callback was called, in order
  received,    \* the fragments each process has received
  aborted      \* the process that was told of a fatal error

vars == <<ep, net, open, unread, next_frag, called_back, received, aborted>>

hs_msg == 0  \* the magic string and the name; fragments are 1, 2, ...

Endpoints ==
  [state : {"CLOSED", "CONNECTING", "CONNECT_ACK", "CONNECTED"},
   sd : Sockets \cup {NoSocket}, sd_next : Sockets \cup {NoSocket},
   send_frag : Nat \cup {NoFrag}, frags : Seq(Nat),
   recv_event : BOOLEAN, send_event : BOOLEAN]

\* What the variables may hold.
TypeOK ==
  /\ ep \in [Procs -> Endpoints]
  /\ net \in [Sockets -> [Procs -> Seq(Nat)]]
  /\ open \in [Sockets -> SUBSET Procs]
  /\ unread \in [Procs -> SUBSET Sockets]
  /\ next_frag \in [Procs -> Nat]
  /\ called_back \in [Procs -> Seq(Nat)] /\ received \in [Procs -> Seq(Nat)]
  /\ aborted \in SUBSET Procs

Closed ==
  [state |-> "CLOSED", sd |-> NoSocket, sd_next |-> NoSocket, send_frag |-> NoFrag,
   frags |-> <<>>, recv_event |-> FALSE, send_event |-> FALSE]

Init ==
  /\ ep = [p \in Procs |-> Closed]
  /\ net = [c \in Sockets |-> [p \in Procs |-> <<>>]]
  /\ open = [c \in Sockets |-> {}]
  /\ unread = [p \in Procs |-> {}]
  /\ next_frag = [p \in Procs |-> 0]
  /\ called_back = [p \in Procs |-> <<>>]
  /\ received = [p \in Procs |-> <<>>]
  /\ aborted = {}

-----------------------------------------------------------------------------
(* The network *)

\* p writes m to connection c.
Write(c, p, m) == net' = [net EXCEPT ![c][Peer(p)] = Append(@, m)]

Readable(c, p) == net[c][p] # <<>>
EndOfStream(c, p) == net[c][p] = <<>> /\ Peer(p) \notin open[c]
ReadFrom(c, p) == net' = [net EXCEPT ![c][p] = Tail(@)]

-----------------------------------------------------------------------------
(* The functions that the handlers share *)

\* mca_btl_tcp_endpoint_close of an endpoint that has not failed.
endpoint_close(e) ==
  IF e.sd = NoSocket THEN e
  ELSE [e EXCEPT !.recv_event = FALSE, !.send_event = FALSE, !.sd = NoSocket, !.state = "CLOSED"]

\* mca_btl_tcp_endpoint_connected: the first of the queue becomes the current one.
endpoint_connected(e) ==
  [e EXCEPT !.state = "CONNECTED",
            !.send_frag = IF e.frags # <<>> /\ @ = NoFrag THEN Head(e.frags) ELSE @,
            !.frags = IF @ # <<>> /\ e.send_frag = NoFrag THEN Tail(@) ELSE @,
            !.send_event = @ \/ e.frags # <<>>]

-----------------------------------------------------------------------------
(* Sending, by mca_btl_tcp_endpoint_send *)

Frag(p) == next_frag[p] + 1
NewFrag(p) ==
  /\ aborted = {}
  /\ next_frag[p] < Sends[p]
  /\ next_frag' = [next_frag EXCEPT ![p] = @ + 1]

\* There is no connection yet: the fragment is queued.
SendQueued(p) ==
  /\ NewFrag(p)
  /\ ep[p].state \in {"CONNECTING", "CONNECT_ACK"}
  /\ ep' = [ep EXCEPT ![p].frags = Append(@, Frag(p))]
  /\ UNCHANGED <<net, open, unread, called_back, received, aborted>>

\* mca_btl_tcp_endpoint_start_connect: the socket p is opened, and the peer
\* has it in its backlog.
Opened(p) ==
  /\ ep[p].state = "CLOSED"
  /\ open' = [open EXCEPT ![p] = Procs]
  /\ unread' = [unread EXCEPT ![Peer(p)] = @ \cup {p}]

\* The connection stands at once: the name is sent.
SendConnects(p) ==
  /\ NewFrag(p) /\ Opened(p)
  /\ ep' = [ep EXCEPT ![p] = [@ EXCEPT !.frags = Append(@, Frag(p)), !.sd = p,
                                       !.state = "CONNECT_ACK", !.recv_event = TRUE]]
  /\ Write(p, p, hs_msg)
  /\ UNCHANGED <<called_back, received, aborted>>

\* The connection is under way (EINPROGRESS): the send event will tell.
SendConnecting(p) ==
  /\ NewFrag(p) /\ Opened(p)
  /\ ep' = [ep EXCEPT ![p] = [@ EXCEPT !.frags = Append(@, Frag(p)), !.sd = p,
                                       !.state = "CONNECTING", !.send_event = TRUE]]
  /\ UNCHANGED <<net, called_back, received, aborted>>

\* A fragment of high priority that the socket takes whole is sent at once.
SendNow(p) ==
  /\ NewFrag(p)
  /\ ep[p].state = "CONNECTED" /\ ep[p].send_frag = NoFrag
  /\ Write(ep[p].sd, p, Frag(p))
  /\ called_back' = [called_back EXCEPT ![p] = Append(@, Frag(p))]
  /\ UNCHANGED <<ep, open, unread, received, aborted>>

\* Another one becomes the current one, or waits behind it.
SendLater(p) ==
  /\ NewFrag(p)
  /\ ep[p].state = "CONNECTED"
  /\ ep' = [ep EXCEPT ![p] =
       IF @.send_frag = NoFrag THEN [@ EXCEPT !.send_frag = Frag(p), !.send_event = TRUE]
                               ELSE [@ EXCEPT !.frags = Append(@, Frag(p))]]
  /\ UNCHANGED <<net, open, unread, called_back, received, aborted>>

-----------------------------------------------------------------------------
(* The handler of the send event *)

SendEvent(p) == aborted = {} /\ ep[p].send_event

\* mca_btl_tcp_endpoint_complete_connect: the connection stands now.
CompleteConnect(p) ==
  /\ SendEvent(p)
  /\ ep[p].state = "CONNECTING"
  /\ ep' = [ep EXCEPT ![p] = [@ EXCEPT !.send_event = FALSE, !.state = "CONNECT_ACK",
                                       !.recv_event = TRUE]]
  /\ Write(ep[p].sd, p, hs_msg)
  /\ UNCHANGED <<open, unread, next_frag, called_back, received, aborted>>

\* The current fragment is sent, and the next one of the queue takes its place.
SendFrag(p) ==
  /\ SendEvent(p)
  /\ ep[p].state = "CONNECTED" /\ ep[p].send_frag # NoFrag
  /\ Write(ep[p].sd, p, ep[p].send_frag)
  /\ ep' = [ep EXCEPT ![p] =
       IF @.frags = <<>> THEN [@ EXCEPT !.send_frag = NoFrag]
                         ELSE [@ EXCEPT !.send_frag = Head(ep[p].frags), !.frags = Tail(@)]]
  /\ called_back' = [called_back EXCEPT ![p] = Append(@, ep[p].send_frag)]
  /\ UNCHANGED <<open, unread, next_frag, received, aborted>>

NothingToSend(p) ==
  /\ SendEvent(p)
  /\ ep[p].state = "CONNECTED" /\ ep[p].send_frag = NoFrag
  /\ ep' = [ep EXCEPT ![p].send_event = FALSE]
  /\ UNCHANGED <<net, open, unread, next_frag, called_back, received, aborted>>

-----------------------------------------------------------------------------
(* An incoming connection *)

\* mca_btl_tcp_component_recv_handler reads the name, mca_btl_tcp_proc_accept
\* finds the endpoint, and mca_btl_tcp_endpoint_accept has it decided later.
ProcAccept(p, c) ==
  /\ aborted = {}
  /\ c \in unread[p] /\ Readable(c, p)
  /\ ReadFrom(c, p)
  /\ unread' = [unread EXCEPT ![p] = @ \ {c}]
  /\ ep' = [ep EXCEPT ![p] = [@ EXCEPT !.sd_next = c,
                                       !.state = IF @ = "CLOSED" THEN "CONNECTING" ELSE @]]
  /\ UNCHANGED <<open, next_frag, called_back, received, aborted>>

\* The peer closed it before it sent its name.
ClosedUnread(p, c) ==
  /\ aborted = {}
  /\ c \in unread[p] /\ EndOfStream(c, p)
  /\ unread' = [unread EXCEPT ![p] = @ \ {c}]
  /\ open' = [open EXCEPT ![c] = @ \ {p}]
  /\ UNCHANGED <<ep, net, next_frag, called_back, received, aborted>>

\* What mca_btl_tcp_endpoint_complete_accept decides.
\* Mutation: the names are not compared.
Accepts_mut(p) == ep[p].sd = NoSocket \/ ep[p].state # "CONNECTED"
Accepts(p) == ep[p].sd = NoSocket \/ (ep[p].state # "CONNECTED" /\ Peer(p) < p)

\* It gives up its own connection, if it has one, and answers on the other.
CompleteAccept(p) ==
  LET c == ep[p].sd_next IN
  /\ aborted = {}
  /\ c # NoSocket /\ Accepts(p)
  /\ open' = [s \in Sockets |-> IF s = ep[p].sd THEN open[s] \ {p} ELSE open[s]]
  /\ Write(c, p, hs_msg)
  /\ ep' = [ep EXCEPT ![p] = endpoint_connected(
       [endpoint_close(@) EXCEPT !.sd = c, !.sd_next = NoSocket, !.recv_event = TRUE])]
  /\ UNCHANGED <<unread, next_frag, called_back, received, aborted>>

\* It keeps its own connection, and closes the other.
RefuseAccept(p) ==
  LET c == ep[p].sd_next IN
  /\ aborted = {}
  /\ c # NoSocket /\ ~Accepts(p)
  /\ open' = [open EXCEPT ![c] = @ \ {p}]
  /\ ep' = [ep EXCEPT ![p].sd_next = NoSocket]
  /\ UNCHANGED <<net, unread, next_frag, called_back, received, aborted>>

-----------------------------------------------------------------------------
(* The handler of the receive event *)

RecvEvent(p) == aborted = {} /\ ep[p].recv_event

\* mca_btl_tcp_endpoint_recv_connect_ack: the peer answers with its name.
RecvConnectAck(p) ==
  /\ RecvEvent(p)
  /\ ep[p].state = "CONNECT_ACK" /\ Readable(ep[p].sd, p)
  /\ ReadFrom(ep[p].sd, p)
  /\ ep' = [ep EXCEPT ![p] = endpoint_connected(@)]
  /\ UNCHANGED <<open, unread, next_frag, called_back, received, aborted>>

\* The peer has closed the socket: it is closed here too, and the error goes
\* to the PML as fatal, where mca_pml_ob1_error_handler ends the job.
RecvRefused(p) ==
  /\ RecvEvent(p)
  /\ ep[p].state = "CONNECT_ACK" /\ EndOfStream(ep[p].sd, p)
  /\ open' = [open EXCEPT ![ep[p].sd] = @ \ {p}]
  /\ ep' = [ep EXCEPT ![p] = endpoint_close(@)]
  /\ aborted' = aborted \cup {p}
  /\ UNCHANGED <<net, unread, next_frag, called_back, received>>

\* A fragment arrives.
RecvFrag(p) ==
  /\ RecvEvent(p)
  /\ ep[p].state = "CONNECTED" /\ Readable(ep[p].sd, p)
  /\ ReadFrom(ep[p].sd, p)
  /\ received' = [received EXCEPT ![p] = Append(@, Head(net[ep[p].sd][p]))]
  /\ UNCHANGED <<ep, open, unread, next_frag, called_back, aborted>>

-----------------------------------------------------------------------------

Send(p) ==
  SendQueued(p) \/ SendConnects(p) \/ SendConnecting(p) \/ SendNow(p) \/ SendLater(p)

\* The event loop of p runs a handler.
Handler(p) ==
  \/ CompleteConnect(p) \/ SendFrag(p) \/ NothingToSend(p)
  \/ \E c \in Sockets : ProcAccept(p, c) \/ ClosedUnread(p, c)
  \/ CompleteAccept(p) \/ RefuseAccept(p)
  \/ RecvConnectAck(p) \/ RecvRefused(p) \/ RecvFrag(p)

\* A process goes on with its program and runs its event loop.
Step(p) == Send(p) \/ Handler(p)

Next == \E p \in Procs : Step(p)

FairSpec == Init /\ [][Next]_vars /\ \A p \in Procs : WF_vars(Step(p))

-----------------------------------------------------------------------------

\* Safety: two processes that both have a connection have the same one, open
\* at both ends, whoever connected first: neither reads the end of the stream
\* there, and neither gives up a connection the other has settled for.
SameConnection ==
  \A p \in Procs :
    ep[p].state = "CONNECTED" =>
      /\ open[ep[p].sd] = Procs
      /\ ep[Peer(p)].state = "CONNECTED" => ep[Peer(p)].sd = ep[p].sd

\* Safety: fragments arrive in the order they were sent, each once, although
\* the first ones wait in the queue of an endpoint that may change its
\* connection meanwhile; and none is called back before those sent before it.
FragsInOrder ==
  \A p \in Procs :
    /\ \A i \in 1..Len(received[p]) : received[p][i] = i
    /\ \A i \in 1..Len(called_back[p]) : called_back[p][i] = i
    /\ Len(received[p]) <= Len(called_back[Peer(p)])

\* Safety: the assertions of btl_tcp_endpoint.c hold: no second connection
\* comes in while the first is undecided (497), a connection is opened only
\* where there is none (684), no endpoint becomes connected twice (562), and
\* the handlers meet no state they call invalid (1005 and 1065).
HandlersMeetTheirState ==
  \A p \in Procs :
    /\ ep[p].sd_next # NoSocket => \A c \in unread[p] : ~Readable(c, p)
    /\ ep[p].state = "CLOSED" => ep[p].sd = NoSocket
    /\ ep[p].recv_event => ep[p].state \in {"CONNECT_ACK", "CONNECTED"}
    /\ ep[p].send_event => ep[p].state \in {"CONNECTING", "CONNECTED"} /\ ep[p].sd # NoSocket

\* Safety: the fatal error that ends the job has one cause: both connected at
\* once, the peer kept its own connection as the order of the names demands,
\* and its refusal was read before its connection was.  That is the case the
\* comments of btl_tcp_component.c:1401 and btl_tcp_endpoint.c:598 expect.
OnlyCrossingAborts ==
  \A p \in aborted :
    /\ Peer(p) < p
    /\ ep[Peer(p)].sd = Peer(p) /\ ep[Peer(p)].state # "CONNECTED"
    /\ Peer(p) \in unread[p] \/ ep[p].sd_next = Peer(p)

\* Every fragment has arrived, unless the job was ended.
AllReceived == aborted # {} \/ \A p \in Procs : Len(received[p]) = Sends[Peer(p)]
=============================================================================
