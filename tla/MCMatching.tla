----------------------------- MODULE MCMatching -----------------------------
(***************************************************************************)
(* The instance of Ob1Match that the configuration describes, part "rules" *)
(* and the instances of MCOb1MatchParts, in one run.  A behaviour is one   *)
(* of the instance that the variable part names; the variables of Ob1Match *)
(* do not change in a part of MCOb1MatchParts, which has its own.          *)
(***************************************************************************)
EXTENDS MCOb1Match, TLC

CONSTANT Unused   \* the value of a variable in the parts it is not in

VARIABLES
  part,
  p_send_sequence, p_net, p_comm_state, p_non_existing_communicator_pending,
  p_expected_sequence, p_frags_cant_match, p_unexpected_frags, p_specific_receives,
  p_wild_receives, p_recv_sequence, p_last_probed, p_req, p_pc, p_cur, p_log

partVars ==
  <<p_send_sequence, p_net, p_comm_state, p_non_existing_communicator_pending,
    p_expected_sequence, p_frags_cant_match, p_unexpected_frags, p_specific_receives,
    p_wild_receives, p_recv_sequence, p_last_probed, p_req, p_pc, p_cur, p_log>>
mcVars == <<part, vars, partVars>>

Parts == INSTANCE MCOb1MatchParts WITH
  send_sequence <- p_send_sequence, net <- p_net, comm_state <- p_comm_state,
  non_existing_communicator_pending <- p_non_existing_communicator_pending,
  expected_sequence <- p_expected_sequence, frags_cant_match <- p_frags_cant_match,
  unexpected_frags <- p_unexpected_frags, specific_receives <- p_specific_receives,
  wild_receives <- p_wild_receives, recv_sequence <- p_recv_sequence,
  last_probed <- p_last_probed, req <- p_req, pc <- p_pc, cur <- p_cur, log <- p_log

NoParts ==
  /\ p_send_sequence = Unused /\ p_net = Unused /\ p_comm_state = Unused
  /\ p_non_existing_communicator_pending = Unused /\ p_expected_sequence = Unused
  /\ p_frags_cant_match = Unused /\ p_unexpected_frags = Unused
  /\ p_specific_receives = Unused /\ p_wild_receives = Unused /\ p_recv_sequence = Unused
  /\ p_last_probed = Unused /\ p_req = Unused /\ p_pc = Unused /\ p_cur = Unused
  /\ p_log = Unused

MCInit ==
  /\ Init
  /\ (part = "rules" /\ NoParts) \/ Parts!Init

MCNext ==
  \/ part = "rules" /\ Next /\ UNCHANGED <<part, partVars>>
  \/ Parts!Next /\ UNCHANGED vars

MCSpec == MCInit /\ [][MCNext]_mcVars

\* Threads are interchangeable in every part.
Alike == Permutations({t1, t2})

-----------------------------------------------------------------------------
(* The properties of Ob1Match for the other parts *)

\* Safety: with five messages and three threads no message is lost or
\* doubled, and none is left on the out-of-sequence list with no thread about
\* to look (recvfrag.c:484); on a communicator with both assertions none is
\* lost or doubled either, and no receive and fragment that fit wait for each
\* other.
NothingIsLost == Parts!NothingIsLost

\* Refinement: with two peers and receives from either, the engine of
\* recvfrag.c and recvreq.c implements the matching rule of MpiMatching.
ImplementsMatchingRule ==
  /\ part = "wild" => Parts!Wild!Mpi!Init
  /\ [][part = "wild" => Parts!Wild!Mpi!Step]_mcVars
=============================================================================
