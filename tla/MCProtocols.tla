----------------------------- MODULE MCProtocols -----------------------------
(***************************************************************************)
(* The instances of MCWaiting, those of MCProcesses and one of Ob1Match    *)
(* together, with what they have to reach in the end: no call of a program *)
(* waits for ever, nothing that was sent stays under way.  A behaviour is  *)
(* a behaviour of the instance that the variable part names.               *)
(***************************************************************************)
EXTENDS MCProcesses

CONSTANTS AnySource, AnyTag, None

VARIABLES
  m_net, m_pc, send_sequence, comm_state, non_existing_communicator_pending, expected_sequence,
  frags_cant_match, unexpected_frags, specific_receives, wild_receives, recv_sequence,
  last_probed, req, cur, log

\* Of these only Order: one peer, three threads, five messages, no receives.
Matching == INSTANCE MCOb1MatchParts WITH net <- m_net, pc <- m_pc

orderVars ==
  <<send_sequence, m_net, comm_state, non_existing_communicator_pending, expected_sequence,
    frags_cant_match, unexpected_frags, specific_receives, wild_receives, recv_sequence,
    last_probed, req, m_pc, cur, log>>
allVars == <<vars, processVars, orderVars>>

NoOrder ==
  /\ m_net = Unused /\ m_pc = Unused /\ send_sequence = Unused /\ comm_state = Unused
  /\ non_existing_communicator_pending = Unused /\ expected_sequence = Unused
  /\ frags_cant_match = Unused /\ unexpected_frags = Unused /\ specific_receives = Unused
  /\ wild_receives = Unused /\ recv_sequence = Unused /\ last_probed = Unused
  /\ req = Unused /\ cur = Unused /\ log = Unused

MCInit ==
  \/ Init /\ NoProcesses /\ NoOrder
  \/ NoWaiting /\ ProcessesInit /\ NoOrder
  \/ NoWaiting /\ NoProcesses /\ part = "order" /\ Matching!Order!Init

InWaiting == UNCHANGED <<processVars, orderVars>>
InProcesses ==
  UNCHANGED <<prog, requestVars, engineVars, connectionVars, barrierVars, windowVars, orderVars>>
InOrder == part = "order" /\ UNCHANGED <<vars, processVars>>

MCNext ==
  \/ Next /\ InWaiting
  \/ ProcessesNext /\ InProcesses
  \/ InOrder /\ Matching!Order!Next

\* A thread of Ob1Match goes on with what it does, or takes a fragment.
Matches(t) ==
  /\ part = "order"
  /\ Matching!Order!Continue(t) \/ Matching!Order!AddComm(t) \/ Matching!Order!Arrive(t)

\* The fairness of the modules, each for its part: a thread or process goes on
\* with what it does.
FairSpec ==
  /\ MCInit /\ [][MCNext]_allVars
  /\ WF_vars(First) /\ WF_vars(Second) /\ WF_vars(Third)
  /\ WF_processVars(FirstProcess) /\ WF_processVars(SecondProcess)
  /\ WF_processVars(ThirdProcess)
  /\ \A t \in {t1, t2, t3} : WF_orderVars(Matches(t))

-----------------------------------------------------------------------------
(* The properties of the modules of MCProcesses and of Ob1Match, each for its
   part; those of MCWaiting are checked as they stand. *)

\* Safety: VaderFifo, the reader finds the oldest fragment, a fragment is in
\* one place, and the assertions of btl_vader_fifo.h:137 and 175 hold.
\* VaderFbox, messages come out in order, once, with their own bytes, and both
\* ends stay inside the ring.  VaderEndpoint, only a fast box set up by another
\* thread reorders the messages of a thread.
MessagesInOrder ==
  /\ part = "fifo" => Fifo!OldestFirst
  /\ part = "fast box" => Box!MessagesInOrder /\ Box!InsideRing
  /\ part = "endpoint" => Endpoint!OnlySetupReorders

\* Safety: CommCid, the processes of a communicator agree on its id.
Agreement == part = "cid" => Cid!Agreement

\* Safety: CommCid, an id leads to its communicator in every table, and
\* reservations made on the way are given back.
SlotsAreOwned == part = "cid" => Cid!OwnsSlot /\ Cid!NothingLeaked

\* Safety: CommCid, who may send knows that all can receive (comm_cid.c:463).
NobodyIsEarly == part = "cid" => Cid!NobodyIsEarly

\* Safety: ShmemLock, the holder is the first of those that have a place, so
\* there is one holder and the places are served in order; the copies link the
\* waiting PEs in that order, and nobody subscribes where another stands
\* (shmem_lock.c:758); a lock nobody uses is as it was at the start.
LockIsQueue ==
  part \in Locks =>
    /\ Lock!HolderIsFirst
    /\ Lock!LinkedInOrder
    /\ Lock!CleanAtRest

\* Safety: OscSm, an exclusive lock on a target excludes every other, also
\* when the counters of the lock start again at zero, and the locks are had in
\* the order of the tickets.
LocksExclude ==
  /\ [](part = "shared window" => SharedWindow!MutualExclusion)
  /\ [][part = "shared window" => SharedWindow!NoOvertaking]_allVars

\* Safety: OscSm, an access epoch lies inside the exposure epoch of its target
\* (MPI_Win_wait.3in:56), and the bit that a post adds to a word is clear.
AccessIsExposed ==
  part = "shared window" => SharedWindow!AccessIsExposed /\ SharedWindow!BitIsClear

\* Safety: OscSm, no process leaves a fence before all have entered it.
FenceHolds == part = "shared window" => SharedWindow!FenceHolds

\* Liveness: every fragment of VaderFifo comes back to its owner, although a
\* write may meet a read at an empty FIFO; every message of VaderFbox arrives,
\* although the ring may be full or its end too short, and every one of
\* VaderEndpoint, although it may have to wait; every creation of CommCid ends
\* or fails: creations under way together do not keep refusing each other;
\* every call for the lock of ShmemLock returns, no PE is left uninformed; and
\* every synchronization of OscSm returns, unless completions were left over.
EverythingArrives ==
  []<>CASE part = "fifo" -> Fifo!AllReturned
        [] part = "fast box" -> Box!AllArrived
        [] part = "endpoint" -> Endpoint!AllDelivered
        [] part = "cid" -> Cid!AllEnded
        [] part \in Locks -> Lock!AllOut
        [] part = "shared window" -> SharedWindow!AllReturned
        [] OTHER -> TRUE

\* Liveness: every message of Ob1Match that was sent is consumed by matching,
\* whatever the order in which the fragments arrive and the communicator comes
\* up: the sends are finitely many, and again and again none of them is left.
EverySentIsConsumed == []<>(part = "order" => Matching!Order!NothingUnderWay)
=============================================================================
