----------------------------- MODULE MpiMatching -----------------------------
(***************************************************************************)
(* What message matching promises to the application on one communicator   *)
(* at one process: per sender a FIFO channel; the next message of a        *)
(* channel is given to the earliest posted receive it fits, or waits; a    *)
(* receive that is posted takes the earliest waiting message it fits, or   *)
(* waits.  No sequence numbers, no out-of-sequence list, no locks, no      *)
(* separate queues for wildcard receives.                                  *)
(***************************************************************************)
EXTENDS Integers, Sequences

CONSTANTS Peers, Envelopes, Wanted, Reqs, AnySource, AnyTag, None

VARIABLES
  sent,      \* per peer: messages sent
  chan,      \* per peer: messages sent and not offered to the receives yet
  waiting,   \* per peer: messages no receive has taken
  status,    \* per request: unused | waiting | done | cancelled
  want,      \* per request: type, source and tag asked for
  stamp,     \* per request: when it was posted
  clock,     \* the next stamp
  got        \* per request: the message it took

vars == <<sent, chan, waiting, status, want, stamp, clock, got>>

Init ==
  /\ sent = [p \in Peers |-> 0]
  /\ chan = [p \in Peers |-> << >>]
  /\ waiting = [p \in Peers |-> << >>]
  /\ status = [r \in Reqs |-> "unused"]
  /\ want = [r \in Reqs |-> None]
  /\ stamp = [r \in Reqs |-> 0]
  /\ clock = 0
  /\ got = [r \in Reqs |-> None]

Fits(w, f) ==
  /\ w.peer \in {AnySource, f.src}
  /\ w.tag = f.env.tag \/ (w.tag = AnyTag /\ f.env.tag >= 0)

\* An MPI_Probe or MPI_Iprobe looks at a message and leaves it.
Looks(w) == w.type \in {"PROBE", "IPROBE"}

Send(p, e) ==
  LET f == [src |-> p, n |-> sent[p] + 1, env |-> e]
  IN  /\ sent' = [sent EXCEPT ![p] = @ + 1]
      /\ chan' = [chan EXCEPT ![p] = Append(@, f)]
      /\ UNCHANGED <<waiting, status, want, stamp, clock, got>>

\* The next message of p is offered.  taker is the earliest receive that
\* fits; probes that were posted before it see the message too.
Offer(p) ==
  LET f == Head(chan[p])
      fitting == { r \in Reqs : status[r] = "waiting" /\ Fits(want[r], f) }
      takers == { r \in fitting : ~Looks(want[r]) }
      taker == CHOOSE r \in takers : \A x \in takers : stamp[r] <= stamp[x]
      seers == { r \in fitting : /\ Looks(want[r])
                                 /\ takers # {} => stamp[r] < stamp[taker] }
  IN  /\ chan[p] # << >>
      /\ chan' = [chan EXCEPT ![p] = Tail(@)]
      /\ IF takers = {}
         THEN /\ waiting' = [waiting EXCEPT ![p] = Append(@, f)]
              /\ got' = got
              /\ status' = [r \in Reqs |->
                              IF r \in seers THEN "done" ELSE status[r]]
         ELSE /\ waiting' = waiting
              /\ got' = [got EXCEPT ![taker] = f]
              /\ status' = [r \in Reqs |->
                              IF r \in seers \cup {taker}
                              THEN "done" ELSE status[r]]
      /\ UNCHANGED <<sent, want, stamp, clock>>

\* Positions of the waiting messages of p that fit w.
Hits(w, p) == { i \in 1 .. Len(waiting[p]) : Fits(w, waiting[p][i]) }

PostCommon(r, w) ==
  /\ status[r] = "unused"
  /\ want' = [want EXCEPT ![r] = w]
  /\ stamp' = [stamp EXCEPT ![r] = clock]
  /\ clock' = clock + 1
  /\ UNCHANGED <<sent, chan>>

PostAndWait(r, w) ==
  /\ PostCommon(r, w)
  /\ \A p \in Peers : Hits(w, p) = {}
  /\ status' = [status EXCEPT ![r] =
                  IF w.type \in {"IPROBE", "IMPROBE"} THEN "done"
                                                      ELSE "waiting"]
  /\ UNCHANGED <<waiting, got>>

PostAndTake(r, w, p) ==
  LET i == CHOOSE i \in Hits(w, p) : \A j \in Hits(w, p) : i <= j
  IN  /\ PostCommon(r, w)
      /\ Hits(w, p) # {}
      /\ status' = [status EXCEPT ![r] = "done"]
      /\ IF Looks(w)
         THEN UNCHANGED <<waiting, got>>
         ELSE /\ got' = [got EXCEPT ![r] = waiting[p][i]]
              /\ waiting' = [waiting EXCEPT ![p] =
                   SubSeq(@, 1, i - 1) \o SubSeq(@, i + 1, Len(@))]

\* A receive is cancelled only while it waits.
Cancel(r) ==
  /\ status[r] = "waiting"
  /\ status' = [status EXCEPT ![r] = "cancelled"]
  /\ UNCHANGED <<sent, chan, waiting, want, stamp, clock, got>>

Next ==
  \/ \E p \in Peers, e \in Envelopes : Send(p, e)
  \/ \E p \in Peers : Offer(p)
  \/ \E r \in Reqs, w \in Wanted : PostAndWait(r, w)
  \/ \E r \in Reqs, w \in Wanted, p \in Peers : PostAndTake(r, w, p)
  \/ \E r \in Reqs : Cancel(r)

Step == [Next]_vars
Spec == Init /\ [][Step]_vars
=============================================================================
