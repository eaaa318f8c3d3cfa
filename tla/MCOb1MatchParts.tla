--------------------------- MODULE MCOb1MatchParts ---------------------------
(***************************************************************************)
(* Three instances of Ob1Match for TLC in one run.  A behaviour is one of  *)
(* the instance that the variable part names, which never changes.         *)
(*   order    one peer, three threads, five messages and no receives       *)
(*   wild     two peers, two threads, receives from one of them or any     *)
(*   asserts  a communicator with allow_overtaking and no_any_source       *)
(***************************************************************************)
EXTENDS Integers, Sequences, FiniteSets

CONSTANTS r1, r2, t1, t2, t3, AnySource, AnyTag, None

VARIABLES
  part,
  send_sequence, net, comm_state, non_existing_communicator_pending, expected_sequence,
  frags_cant_match, unexpected_frags, specific_receives, wild_receives, recv_sequence,
  last_probed, req, pc, cur, log

OneEnvelope == { [tag |-> 1, type |-> "MATCH"] }
TwoEnvelopes == OneEnvelope \cup { [tag |-> -1, type |-> "RNDV"] }
Receives ==
  { [type |-> "RECV", peer |-> 0, tag |-> AnyTag],
    [type |-> "RECV", peer |-> AnySource, tag |-> 1] }
Specific == [type : {"RECV", "IMPROBE", "PROBE"}, peer : {0}, tag : {1, AnyTag}]

Order == INSTANCE Ob1Match WITH
  SeqMod <- 8, num_procs <- 1, Envelopes <- OneEnvelope, Wanted <- {}, Reqs <- {},
  Threads <- {t1, t2, t3}, MaxSend <- 5, Window <- 5,
  AllowOvertake <- FALSE, NoAnySource <- FALSE, MayCancel <- {}
Wild == INSTANCE Ob1Match WITH
  SeqMod <- 4, num_procs <- 2, Envelopes <- TwoEnvelopes, Wanted <- Receives, Reqs <- {r1, r2},
  Threads <- {t1, t2}, MaxSend <- 2, Window <- 2,
  AllowOvertake <- FALSE, NoAnySource <- FALSE, MayCancel <- {}
Asserts == INSTANCE Ob1Match WITH
  SeqMod <- 4, num_procs <- 1, Envelopes <- TwoEnvelopes, Wanted <- Specific, Reqs <- {r1, r2},
  Threads <- {t1, t2}, MaxSend <- 3, Window <- 3,
  AllowOvertake <- TRUE, NoAnySource <- TRUE, MayCancel <- {}

vars == <<part, Order!vars>>

Init ==
  \/ part = "order" /\ Order!Init
  \/ part = "wild" /\ Wild!Init
  \/ part = "asserts" /\ Asserts!Init

Next ==
  /\ \/ part = "order" /\ Order!Next
     \/ part = "wild" /\ Wild!Next
     \/ part = "asserts" /\ Asserts!Next
  /\ UNCHANGED part

-----------------------------------------------------------------------------
(* The properties of Ob1Match, each for the parts it is about *)

\* Safety: with five messages and three threads no message is lost or
\* doubled, and none is left on the out-of-sequence list with no thread about
\* to look; on a communicator with both assertions none is lost or doubled
\* either, and no receive and fragment that fit wait for each other.
NothingIsLost ==
  /\ part = "order" => Order!ExactlyOnePlace /\ Order!NoStrandedFragment
  /\ part = "asserts" => Asserts!ExactlyOnePlace /\ Asserts!NoMissedMatch
=============================================================================
