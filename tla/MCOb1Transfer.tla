---------------------------- MODULE MCOb1Transfer ----------------------------
(* Instances of Ob1Transfer for TLC. *)
EXTENDS Ob1Transfer

Limits(eager, send_length) == [eager |-> eager, rndv |-> eager, send_length |-> send_length]
Faults(get, put, failing, max) == [get |-> get, put |-> put, failing |-> failing, max |-> max]

\* Every combination of buffers and BTL for messages of the given lengths.
AllSetups(sizes, modes, registrations, limits, faults) ==
  { s \in [size : sizes, mode : modes, s_contig : BOOLEAN, r_contig : BOOLEAN,
           s_pinned : registrations, r_pinned : registrations,
           get : BOOLEAN, rdma : BOOLEAN, pipeline : BOOLEAN,
           limits : {limits}, faults : {faults}] :
      /\ s.pipeline => s.rdma /\ s.size > limits.eager + limits.send_length
      /\ s.get => s.rdma
      /\ TRUE \in s.s_pinned \cup s.r_pinned => s.rdma }

\* A message of n units between contiguous buffers over an RDMA BTL.
Direct(n, get, limits, faults) ==
  [size |-> n, mode |-> "STANDARD", s_contig |-> TRUE, r_contig |-> TRUE,
   s_pinned |-> {TRUE}, r_pinned |-> {TRUE}, get |-> get, rdma |-> TRUE,
   pipeline |-> FALSE, limits |-> limits, faults |-> faults]

Fixed == { {TRUE}, {FALSE} }
Retried == { {TRUE, FALSE} }
Modes == {"STANDARD", "SYNCHRONOUS", "BUFFERED"}
Ok == {"SUCCESS"}
OkOrError == {"SUCCESS", "ERROR"}

\* Every protocol, with descriptors and registrations that run out.  The mode
\* makes a difference to a short synchronous send and to a long buffered one.
EveryProtocol ==
  { s \in AllSetups({0, 1, 3}, Modes, Fixed, Limits(1, 1),
                    Faults(Ok, Ok, {"start_alloc", "frag", "fin", "put_alloc"}, 2)) :
      /\ s.mode = "SYNCHRONOUS" => s.size <= 1
      /\ s.mode = "BUFFERED" => s.size > 1 /\ s.s_contig }

\* One get that falls back on a put or on copies.
OneGet ==
  { Direct(1, TRUE, Limits(0, 1),
           Faults({"SUCCESS", "NOT_AVAILABLE", "ERROR"}, OkOrError,
                  {"start_alloc", "frag", "fin", "put_alloc", "put_send", "put", "get", "ack"},
                  3)) }

\* Two units, and any operation may fail.
ShortMessages ==
  { s \in AllSetups({2}, {"STANDARD"}, Retried, Limits(1, 0),
                    Faults(OkOrError, OkOrError,
                           {"start_alloc", "start_send", "frag", "fin", "put_alloc",
                            "put_send", "put", "get", "ack"}, 2)) :
      s.pipeline => s.get }

\* One of two gets may fail; the message that asks for a put may fail once.
TwoGets == { Direct(2, TRUE, Limits(1, 1), Faults(OkOrError, Ok, {}, 0)) }
Puts == { Direct(3, FALSE, Limits(1, 1), Faults(Ok, Ok, {"put_send"}, 1)) }

Everything == EveryProtocol \cup OneGet \cup ShortMessages

\* The BTL completes what it has accepted.
Reliable == GetStatus = Ok /\ PutStatus = Ok

\* Safety: on a reliable BTL no message names a request that has completed,
\* both pipelines keep to their depth, and the rdma_frag is released, which
\* pml_ob1_sendreq.h asserts.  (The FIN of a put that failed may arrive after
\* the copies that replace it have completed the receive.)
ReliableTransfer == Reliable => NoDanglingReference /\ PipelineBounded /\ RdmaFragReleased

\* Liveness: both requests complete, unless any operation may fail (then they
\* may hang, as Puts and TwoGets show).
CompletesUnlessAllFail == "start_send" \notin Failing => Completes
=============================================================================
