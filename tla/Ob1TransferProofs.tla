-------------------------- MODULE Ob1TransferProofs --------------------------
(***************************************************************************)
(* Ob1Transfer for a message of any length between any buffers over any    *)
(* BTL, with any depth of the pipelines and any number of failures: the    *)
(* variables keep their types, every unit of the message is in exactly one *)
(* place, and both requests complete only when what they promise is true.  *)
(***************************************************************************)
EXTENDS Ob1TransferReceiver, FiniteSetTheorems

(* The first header.                                                       *)

\* A unit of a message that has just been matched is in one place.
LEMMA OnlyIn ==
  ASSUME NEW u, u \notin Spots'[1], \A j \in 5 .. 10 : u \notin Spots'[j],
         \/ /\ u \in Spots'[2] /\ u \notin Spots'[3]
            /\ u \notin Spots'[4] /\ u \notin Spots'[11]
         \/ /\ u \notin Spots'[2] /\ u \in Spots'[3]
            /\ u \notin Spots'[4] /\ u \notin Spots'[11]
         \/ /\ u \notin Spots'[2] /\ u \notin Spots'[3]
            /\ u \in Spots'[4] /\ u \notin Spots'[11]
         \/ /\ u \notin Spots'[2] /\ u \notin Spots'[3]
            /\ u \notin Spots'[4] /\ u \in Spots'[11]
  PROVE  \E i \in 1 .. 11 : \A j \in 1 .. 11 : u \in Spots'[j] <=> j = i
<1>1. PICK i \in {2, 3, 4, 11} :
        /\ u \in Spots'[i]
        /\ \A k \in {2, 3, 4, 11} : k # i => u \notin Spots'[k]
  OBVIOUS
<1>2. i \in 1 .. 11 /\ \A j \in 1 .. 11 : u \in Spots'[j] <=> j = i
  BY <1>1
<1> QED BY Zenon, <1>2

\* The state before the first header is handled.
LEMMA FirstFacts ==
  ASSUME Counting, IInv, NEW h \in net.first
  PROVE  /\ ~rcv.matched /\ Idle /\ rcv.got = {} /\ rcv.received = 0 /\ ~rcv.complete
         /\ snd.pending # "START" /\ HeaderOK(h) /\ FirstUnits = h.units /\ Gone = h.units
         /\ h.units \subseteq Units /\ setup.size \in Nat /\ net.first = {h}
         /\ snd.lc = "MATCH" => h.type = "MATCH"
         /\ snd.lc = "RNDV" => h.type = "RNDV"
<1>1. ~rcv.matched /\ snd.pending # "START" /\ HeaderOK(h) /\ net.first = {h}
  BY Zenon DEF IInv, FirstOK
<1>2. Idle /\ rcv.got = {} /\ rcv.received = 0 /\ ~rcv.complete
  BY Zenon, <1>1 DEF IInv, FirstOK
<1>3. FirstUnits = h.units
  BY Zenon, <1>1 DEF FirstUnits
<1>4. Gone = h.units
  BY Zenon, <1>2, <1>3 DEF Gone, Idle
<1>5. h.units \subseteq Units /\ setup.size \in Nat
  BY Zenon, <1>4, InvParts, GoneTypes
<1>6. /\ snd.lc = "MATCH" => h.type = "MATCH"
      /\ snd.lc = "RNDV" => h.type = "RNDV"
  BY Zenon DEF IInv, MatchOK, RndvOK
<1> QED BY Zenon, <1>1, <1>2, <1>3, <1>4, <1>5, <1>6

\* The receiver handles the first header: its data goes to the buffer.
LEMMA FirstHandled ==
  ASSUME Counting, IInv, NEW h \in net.first, setup' = setup, snd' = snd, KeepsTypes,
         rcv'.matched, rcv'.got = h.units, rcv'.received = Cardinality(h.units),
         rcv'.gets = {}, rcv'.rdma_pending = {}, rcv'.fin_pending = {},
         net'.first = {}, net'.put = {}, net'.frag = {}, net'.finr = {}, net'.fins = {},
         rcv'.complete => rcv'.received >= setup.size,
         rcv'.getting => h.type = "RGET" /\ rcv'.get_offset < setup.size,
         h.type = "MATCH" => Idle',
         Conserved', Separate', RndvOK'
  PROVE  IInv'
<1>1. /\ ~rcv.matched /\ Idle /\ rcv.got = {} /\ rcv.received = 0 /\ ~rcv.complete
      /\ snd.pending # "START" /\ HeaderOK(h) /\ FirstUnits = h.units /\ Gone = h.units
      /\ h.units \subseteq Units /\ setup.size \in Nat
      /\ snd.lc = "MATCH" => h.type = "MATCH"
  BY Zenon, FirstFacts
<1>2. Units' = Units /\ Gone' = Gone /\ Eager' = Eager /\ ByGet' = ByGet
  <2>1. FirstUnits' = {}
    BY Zenon DEF FirstUnits
  <2> QED BY Zenon, <1>1, <2>1 DEF Units, Gone, Eager, ByGet
<1>3. snd.frag_lc = {} /\ snd.fin_pending = {} /\ net.fins = {} /\ rcv.fin_pending = {}
  BY Zenon, <1>1 DEF Idle
<1>4. FirstOK'
  BY Zenon, <1>1 DEF FirstOK
<1>5. MatchOK'
  <2> SUFFICES ASSUME snd.lc = "MATCH" PROVE MatchOK'
    BY Zenon DEF MatchOK
  <2>1. Units \subseteq h.units /\ snd.pending = "NONE"
    BY Zenon, <1>1 DEF IInv, MatchOK
  <2> QED BY Zenon, <1>1, <1>2, <2>1 DEF MatchOK
<1>6. CountOK'
  <2>1. Announced' = {}
    BY Zenon, <1>3 DEF Announced
  <2>2. rcv'.got \ Announced' = h.units
    BY Zenon, <2>1
  <2> QED BY Zenon, <1>3, <2>1, <2>2 DEF CountOK
<1>7. GoneOK'
  <2>1. Uncounted' = Uncounted
    BY Zenon, <1>2, <1>3 DEF Uncounted
  <2>2. Getting' => Getting
    BY Zenon DEF Getting
  <2> QED BY Zenon, <1>2, <1>3, <2>1, <2>2, InvParts DEF GoneOK
<1>8. RecvDone'
  <2> SUFFICES ASSUME rcv'.complete PROVE rcv'.got = Units
    BY Zenon, <1>2 DEF RecvDone
  <2> QED BY Zenon, <1>1, AllUnits
<1>9. SendDone'
  <2>1. HeaderHasData' = HeaderHasData
    BY Zenon DEF HeaderHasData, RndvLimit, Failing
  <2> QED BY Zenon, <1>2, <2>1 DEF IInv, SendDone
<1>10. TypeOK'
  BY Zenon, SameTypes
<1> QED BY Zenon, <1>4, <1>5, <1>6, <1>7, <1>8, <1>9, <1>10, InvParts
        DEF IInv, KeepsTypes, SndLocked, RcvLocked

\* Every unit is in one of the places.
LEMMA Placed ==
  ASSUME \A u \in Units' : \E i \in 1 .. 11 : \A j \in 1 .. 11 : u \in Spots'[j] <=> j = i
  PROVE  Conserved'
<1>1. DOMAIN Spots' = 1 .. 11
  BY DEF Spots
<1>2. ASSUME NEW u \in Units'
      PROVE  \E i \in 1 .. 11 : { j \in 1 .. 11 : u \in Spots'[j] } = {i}
  <2>1. PICK i \in 1 .. 11 : \A j \in 1 .. 11 : u \in Spots'[j] <=> j = i
    BY Zenon
  <2>2. { j \in 1 .. 11 : u \in Spots'[j] } = {i}
    BY Zenon, <2>1
  <2> QED BY Zenon, <2>2
<1> QED BY Zenon, <1>1, <1>2 DEF Conserved

\* Right after the first header a unit is in one of five places.
LEMMA PlacesAfter ==
  ASSUME setup' = setup, NEW u \in Units,
         net'.put = {}, snd'.ranges = {}, snd'.put_ops = {}, rcv'.gets = {},
         rcv'.rdma_pending = {}, net'.frag = {}
  PROVE  /\ u \in Spots'[1] <=> u >= rcv'.get_offset
         /\ u \in Spots'[2] <=> rcv'.rdma_offset <= u /\ u < rcv'.send_offset
         /\ u \in Spots'[3] <=> \E a \in net'.ack : u \in a.units
         /\ u \in Spots'[4] <=> \E units \in rcv'.ack_pending : u \in units
         /\ u \in Spots'[11] <=> u \in rcv'.got
         /\ \A j \in 5 .. 10 : u \notin Spots'[j]
<1>1. Units' = Units
  BY Zenon DEF Units
<1>2. /\ u \in Spots'[1] <=> u >= rcv'.get_offset
      /\ u \in Spots'[2] <=> rcv'.rdma_offset <= u /\ u < rcv'.send_offset
      /\ u \in Spots'[3] <=> \E a \in net'.ack : u \in a.units
      /\ u \in Spots'[4] <=> \E units \in rcv'.ack_pending : u \in units
      /\ u \in Spots'[11] <=> u \in rcv'.got
  BY Zenon, <1>1, PlaceNamesNext
<1>3. u \notin Spots'[5]
  BY Zenon, <1>1, PlaceNamesNext
<1>4. /\ u \notin Spots'[6] /\ u \notin Spots'[7] /\ u \notin Spots'[8]
      /\ u \notin Spots'[9] /\ u \notin Spots'[10]
  BY Zenon, PlaceNamesNext
<1>5. \A j \in 5 .. 10 : u \notin Spots'[j]
  BY <1>3, <1>4
<1> QED BY Zenon, <1>2, <1>5

\* mca_pml_ob1_recv_request_progress_match: all of the message is there.
LEMMA ProgressMatchStep ==
  ASSUME Counting, IInv, NEW h \in net.first, ProgressMatch(h)
  PROVE  IInv'
<1>1. /\ setup' = setup /\ snd' = snd /\ fails' = fails /\ h.type = "MATCH"
      /\ rcv' = [rcv EXCEPT !.matched = TRUE, !.received = setup.size, !.got = Units,
                            !.complete = TRUE]
      /\ net' = [net EXCEPT !.first = {}]
  BY Zenon DEF ProgressMatch
<1>2. /\ Idle /\ h.units = Units /\ setup.size \in Nat /\ snd.lc # "RNDV"
  BY FirstFacts, <1>1 DEF HeaderOK
<1>3. /\ rcv' \in RcvType /\ rcv'.matched = TRUE /\ rcv'.received = setup.size
      /\ rcv'.got = Units /\ rcv'.complete = TRUE
  <2>1. Units \in SUBSET Units
    BY Zenon
  <2> QED BY ZenonT(60), <1>1, <1>2, <2>1, InvParts DEF RcvType
<1>4. /\ rcv'.send_offset = rcv.send_offset /\ rcv'.rdma_offset = rcv.rdma_offset
      /\ rcv'.get_offset = rcv.get_offset /\ rcv'.getting = rcv.getting
      /\ rcv'.gets = rcv.gets /\ rcv'.rdma_pending = rcv.rdma_pending
      /\ rcv'.ack_pending = rcv.ack_pending /\ rcv'.fin_pending = rcv.fin_pending
      /\ rcv'.loop = rcv.loop /\ rcv'.pending = rcv.pending /\ rcv'.checks = rcv.checks
      /\ rcv'.lock = rcv.lock
  BY <1>1
<1>5. net' \in NetType /\ net'.first = {}
  BY Zenon, <1>1, InvParts DEF NetType
<1>6. /\ net'.ack = net.ack /\ net'.put = net.put /\ net'.frag = net.frag
      /\ net'.finr = net.finr /\ net'.fins = net.fins
  BY <1>1
<1>7. Idle'
  BY Zenon, <1>1, <1>2, <1>4, <1>6 DEF Idle
<1>8. KeepsTypes
  BY Zenon, <1>1, <1>3, <1>4, <1>5, InvParts DEF KeepsTypes, RcvLocked
<1>9. /\ net'.ack = {} /\ net'.put = {} /\ net'.frag = {} /\ net'.finr = {} /\ net'.fins = {}
      /\ rcv'.ack_pending = {} /\ rcv'.gets = {} /\ rcv'.rdma_pending = {}
      /\ rcv'.fin_pending = {} /\ ~rcv'.getting
      /\ rcv'.get_offset = setup.size /\ rcv'.rdma_offset = 0 /\ rcv'.send_offset = 0
      /\ snd'.ranges = {} /\ snd'.put_ops = {}
  BY Zenon, <1>1, <1>7 DEF Idle
<1>10. Conserved'
  <2>1. Units' = Units
    BY Zenon, <1>1 DEF Units
  <2>2. ASSUME NEW u \in Units
        PROVE  \A j \in 1 .. 11 : u \in Spots'[j] <=> j = 11
    <3>1. u \in Int /\ 0 <= u /\ u < setup.size
      BY <1>2 DEF Units
    <3>2. /\ u \notin Spots'[1] /\ u \notin Spots'[2] /\ u \notin Spots'[3]
          /\ u \notin Spots'[4] /\ u \in Spots'[11] /\ \A j \in 5 .. 10 : u \notin Spots'[j]
      BY <1>1, <1>2, <1>3, <1>9, <3>1, PlacesAfter
    <3> QED BY <3>2
  <2>3. 11 \in 1 .. 11
    OBVIOUS
  <2> QED BY Zenon, <2>1, <2>2, <2>3, Placed
<1>11. Separate' /\ RndvOK'
  BY Zenon, <1>1, <1>2, <1>9 DEF Separate, RndvOK
<1>12. rcv'.received = Cardinality(h.units) /\ rcv'.received >= setup.size
  <2>1. Cardinality(Units) = setup.size
    BY Zenon, <1>2, UnitsFinite
  <2> QED BY <1>2, <1>3, <2>1
<1> QED BY Zenon, <1>1, <1>2, <1>3, <1>5, <1>7, <1>8, <1>9, <1>10, <1>11, <1>12, FirstHandled

\* mca_pml_ob1_recv_request_progress_rget, into a contiguous buffer.
LEMMA RgetLoop ==
  ASSUME Counting, IInv, NEW h \in net.first, h.type = "RGET", setup' = setup, snd' = snd,
         Lacking({}), net' = [net EXCEPT !.first = {}],
         rcv' = [rcv EXCEPT !.matched = TRUE, !.getting = TRUE, !.get_offset = 0]
  PROVE  IInv'
<1>1. /\ Idle /\ h.units = {} /\ setup.size \in Nat /\ setup.size > 0 /\ snd.lc # "RNDV"
      /\ rcv.got = {} /\ rcv.received = 0 /\ ~rcv.complete
  <2>1. h.units = {} /\ setup.size > 0 /\ snd.lc # "RNDV"
    BY FirstFacts DEF HeaderOK
  <2> QED BY Zenon, <2>1, FirstFacts
<1>2. fails' \in 0 .. MaxFails
  BY Zenon, InvParts, SetupFacts, EmptyCount, FailsLeft
<1>3. /\ rcv' \in RcvType /\ rcv'.matched = TRUE /\ rcv'.getting = TRUE /\ rcv'.get_offset = 0
  <2>1. 0 \in 0 .. setup.size
    BY <1>1
  <2> QED BY Zenon, <2>1, InvParts DEF RcvType
<1>4. /\ rcv'.send_offset = rcv.send_offset /\ rcv'.rdma_offset = rcv.rdma_offset
      /\ rcv'.gets = rcv.gets /\ rcv'.rdma_pending = rcv.rdma_pending
      /\ rcv'.ack_pending = rcv.ack_pending /\ rcv'.fin_pending = rcv.fin_pending
      /\ SameLoop(rcv, rcv') /\ rcv'.got = rcv.got /\ rcv'.received = rcv.received
  BY DEF SameLoop
<1>5. net' \in NetType /\ net'.first = {}
  BY Zenon, InvParts DEF NetType
<1>6. /\ net'.ack = net.ack /\ net'.put = net.put /\ net'.frag = net.frag
      /\ net'.finr = net.finr /\ net'.fins = net.fins
  OBVIOUS
<1>7. KeepsTypes
  BY Zenon, <1>2, <1>3, <1>4, <1>5, InvParts DEF KeepsTypes, RcvLocked, SameLoop
<1>8. /\ net'.ack = {} /\ net'.put = {} /\ net'.frag = {} /\ net'.finr = {} /\ net'.fins = {}
      /\ rcv'.ack_pending = {} /\ rcv'.gets = {} /\ rcv'.rdma_pending = {}
      /\ rcv'.fin_pending = {} /\ rcv'.rdma_offset = 0 /\ rcv'.send_offset = 0
      /\ snd'.ranges = {} /\ snd'.put_ops = {} /\ rcv'.got = {} /\ ~rcv'.complete
  BY Zenon, <1>1, <1>4, <1>6 DEF Idle, SameLoop
<1>9. Conserved'
  <2>1. Units' = Units
    BY Zenon DEF Units
  <2>2. ASSUME NEW u \in Units
        PROVE  \A j \in 1 .. 11 : u \in Spots'[j] <=> j = 1
    <3>1. u \in Int /\ 0 <= u /\ u < setup.size
      BY <1>1 DEF Units
    <3>2. /\ u \in Spots'[1] /\ u \notin Spots'[2] /\ u \notin Spots'[3]
          /\ u \notin Spots'[4] /\ u \notin Spots'[11] /\ \A j \in 5 .. 10 : u \notin Spots'[j]
      BY <1>3, <1>8, <3>1, PlacesAfter
    <3> QED BY <3>2
  <2>3. 1 \in 1 .. 11
    OBVIOUS
  <2> QED BY Zenon, <2>1, <2>2, <2>3, Placed
<1>10. Separate' /\ RndvOK'
  BY Zenon, <1>1, <1>8 DEF Separate, RndvOK
<1>11. rcv'.received = Cardinality(h.units)
  BY Zenon, <1>1, <1>4, EmptyCount
<1>12. rcv'.get_offset < setup.size /\ h.type # "MATCH"
  BY <1>1, <1>3
<1> QED BY Zenon, <1>1, <1>3, <1>5, <1>7, <1>8, <1>9, <1>10, <1>11, <1>12, FirstHandled

\* And into another one: all of the message is asked for by an ACK.
NetButFirst(n, m) ==
  /\ m \in NetType /\ m.first = {} /\ m.ack = n.ack /\ m.put = n.put /\ m.frag = n.frag
  /\ m.finr = n.finr /\ m.fins = n.fins

RcvButFirst(r, t) ==
  /\ t \in RcvType /\ t.matched = TRUE /\ t.get_offset = r.get_offset
  /\ t.getting = r.getting /\ t.rdma_offset = r.rdma_offset /\ t.send_offset = r.send_offset
  /\ t.ack_pending = r.ack_pending /\ SameGets(r, t) /\ SameLoop(r, t)
  /\ t.got = r.got /\ t.received = r.received

\* The receiver of an RGET header asks for all of the message by copies.
LEMMA RgetCopies ==
  ASSUME Counting, IInv, NEW h \in net.first, h.type = "RGET", setup' = setup, snd' = snd,
         NEW r, RcvButFirst(rcv, r), NEW n, NetButFirst(net, n),
         NEW a, a.units = Units, Asks(r, n, a)
  PROVE  IInv'
<1>1. /\ Idle /\ h.units = {} /\ setup.size \in Nat /\ snd.lc # "RNDV"
      /\ rcv.got = {} /\ rcv.received = 0 /\ ~rcv.complete
  <2>1. h.units = {} /\ snd.lc # "RNDV"
    BY FirstFacts DEF HeaderOK
  <2> QED BY Zenon, <2>1, FirstFacts
<1>8. /\ fails' \in 0 .. MaxFails /\ rcv' \in RcvType /\ net' \in NetType
      /\ rcv'.matched = TRUE /\ SameLoop(rcv, rcv') /\ net'.first = {}
      /\ rcv'.get_offset = rcv.get_offset /\ rcv'.rdma_offset = rcv.rdma_offset
      /\ rcv'.send_offset = rcv.send_offset /\ rcv'.getting = rcv.getting
      /\ rcv'.gets = rcv.gets /\ rcv'.rdma_pending = rcv.rdma_pending
      /\ rcv'.fin_pending = rcv.fin_pending /\ rcv'.got = rcv.got
      /\ rcv'.received = rcv.received
      /\ net'.put = net.put /\ net'.frag = net.frag /\ net'.finr = net.finr
      /\ net'.fins = net.fins
  BY Zenon DEF Asks, RcvButAck, NetButAck, SamePlan, SameGets, SameLoop,
     RcvButFirst, NetButFirst
<1>9. KeepsTypes
  BY Zenon, <1>8, InvParts DEF KeepsTypes, RcvLocked, SameLoop
<1>10. /\ net'.put = {} /\ net'.frag = {} /\ net'.finr = {} /\ net'.fins = {}
       /\ rcv'.gets = {} /\ rcv'.rdma_pending = {} /\ rcv'.get_offset = setup.size
       /\ rcv'.fin_pending = {} /\ rcv'.rdma_offset = 0 /\ rcv'.send_offset = 0
       /\ snd'.ranges = {} /\ snd'.put_ops = {} /\ rcv'.got = {} /\ ~rcv'.complete
       /\ ~rcv'.getting
  BY Zenon, <1>1, <1>8 DEF Idle, SameLoop
<1>11. \/ net'.ack = {a} /\ rcv'.ack_pending = {}
       \/ net'.ack = {} /\ rcv'.ack_pending = {Units}
  BY Zenon, <1>1 DEF Asks, Idle, RcvButFirst, NetButFirst
<1>12. Conserved'
  <2>1. Units' = Units
    BY Zenon DEF Units
  <2>2. ASSUME NEW u \in Units
        PROVE  \E i \in 1 .. 11 : \A j \in 1 .. 11 : u \in Spots'[j] <=> j = i
    <3>1. u \in Int /\ 0 <= u /\ u < setup.size
      BY <1>1 DEF Units
    <3>2. /\ u \notin Spots'[1] /\ u \notin Spots'[2]
          /\ u \notin Spots'[11] /\ \A j \in 5 .. 10 : u \notin Spots'[j]
      <4>1. /\ u \in Spots'[1] <=> u >= rcv'.get_offset
            /\ u \in Spots'[2] <=> rcv'.rdma_offset <= u /\ u < rcv'.send_offset
            /\ u \in Spots'[11] <=> u \in rcv'.got
            /\ \A j \in 5 .. 10 : u \notin Spots'[j]
        BY ZenonT(60), <1>10, PlacesAfter
      <4>2. ~(u >= rcv'.get_offset) /\ ~(u < rcv'.send_offset)
        BY <1>1, <1>10, <3>1
      <4> QED BY Zenon, <1>10, <4>1, <4>2
    <3>3. u \in Spots'[3] <=> u \notin Spots'[4]
      BY Zenon, <1>10, <1>11, PlacesAfter
    <3> QED BY Zenon, <3>2, <3>3, OnlyIn
  <2> QED BY Zenon, <2>1, <2>2, Placed
<1>13. Separate' /\ RndvOK'
  BY Zenon, <1>1, <1>10, <1>11 DEF Separate, RndvOK
<1>14. rcv'.received = Cardinality(h.units) /\ h.type # "MATCH"
  <2>1. rcv'.received = Cardinality(h.units)
    BY Zenon, <1>1, <1>8, EmptyCount
  <2> QED BY <2>1
<1> QED BY Zenon, <1>1, <1>8, <1>9, <1>10, <1>12, <1>13, <1>14, FirstHandled

\* recv_request_progress_rget: gets are scheduled, or the sender is asked.
LEMMA ProgressRgetStep ==
  ASSUME Counting, IInv, NEW h \in net.first, ProgressRget(h)
  PROVE  IInv'
<1>1. setup' = setup /\ snd' = snd /\ h.type = "RGET"
  BY Zenon DEF ProgressRget
<1>2. CASE setup.r_contig
  <2>1. /\ Lacking({}) /\ net' = [net EXCEPT !.first = {}]
        /\ rcv' = [[rcv EXCEPT !.matched = TRUE] EXCEPT !.getting = TRUE, !.get_offset = 0]
    BY Zenon, <1>2 DEF ProgressRget
  <2>2. rcv' = [rcv EXCEPT !.matched = TRUE, !.getting = TRUE, !.get_offset = 0]
    BY <2>1
  <2> QED BY Zenon, <1>1, <2>1, <2>2, RgetLoop
<1>3. CASE ~setup.r_contig
  <2>1. PICK r : r = [rcv EXCEPT !.matched = TRUE, !.ack_sent = TRUE]
    BY Zenon
  <2>2. PICK n, a : n = [net EXCEPT !.first = {}] /\ a = [units |-> Units, nordma |-> TRUE]
    BY Zenon
  <2>3. r = [[rcv EXCEPT !.matched = TRUE] EXCEPT !.ack_sent = TRUE]
    BY <2>1
  <2>4. ack_send(r, n, a, {})
    BY Zenon, <1>3, <2>2, <2>3 DEF ProgressRget
  <2>5. RcvButFirst(rcv, r)
    <3>1. r \in RcvType /\ r.matched = TRUE
      BY Zenon, <2>1, InvParts DEF RcvType
    <3> QED BY <2>1, <3>1 DEF RcvButFirst, SameGets, SameLoop
  <2>6. NetButFirst(net, n)
    <3>1. n \in NetType /\ n.first = {}
      BY Zenon, <2>2, InvParts DEF NetType
    <3> QED BY <2>2, <3>1 DEF NetButFirst
  <2>7. a \in [units : SUBSET Units, nordma : BOOLEAN] /\ a.units = Units
    BY <2>2
  <2>8. r \in RcvType /\ n \in NetType
    BY Zenon, <2>5, <2>6 DEF RcvButFirst, NetButFirst
  <2>9. Asks(r, n, a)
    BY Zenon, <2>4, <2>7, <2>8, InvParts, EmptyCount, AckSend
  <2> QED BY Zenon, <1>1, <2>5, <2>6, <2>7, <2>9, RgetCopies
<1> QED BY Zenon, <1>2, <1>3

\* Where the part that is sent by copy in/out starts.
LEMMA SendOffset ==
  ASSUME setup \in Setups, NEW h, NEW n \in 0 .. setup.size, NEW pinned
  PROVE  send_offset(h, n, pinned) \in n .. setup.size
<1>1. /\ setup.size \in Nat /\ EagerLimit \in Nat /\ SendLength \in Nat
      /\ setup.pipeline => setup.size > EagerLimit + SendLength
  BY Zenon, SetupFacts
<1>2. PICK o : o = send_offset(h, n, pinned)
  BY Zenon
<1>3. \/ o = setup.size \/ o = n
      \/ setup.pipeline /\ ~(setup.size - SendLength < n) /\ o = setup.size - SendLength
  BY Zenon, <1>2 DEF send_offset
<1>4. o \in n .. setup.size
  BY <1>1, <1>3
<1> QED BY Zenon, <1>2, <1>4

\* The receive request after a RNDV header with n units.
RcvRndv(t, h, n, o, acked) ==
  /\ t \in RcvType /\ RcvLocked(t) /\ t.matched = TRUE
  /\ t.rdma_offset = n /\ t.send_offset = o /\ t.ack_sent = acked
  /\ t.got = h.units /\ t.received = n /\ (t.complete => n >= setup.size)
  /\ t.get_offset = setup.size /\ ~t.getting
  /\ t.gets = {} /\ t.rdma_pending = {} /\ t.fin_pending = {}

\* What recv_request_progress_rndv makes of the receive request.
LEMMA RndvReceived ==
  ASSUME Counting, IInv, NEW h \in net.first, NEW n \in 0 .. setup.size, NEW o \in 0 .. setup.size,
         NEW acked \in BOOLEAN, NEW r,
         r = [rcv EXCEPT !.matched = TRUE, !.rdma_offset = n, !.send_offset = o,
                         !.ack_sent = acked, !.got = @ \cup h.units, !.received = @ + n]
  PROVE  /\ RcvRndv(r_check_or_schedule(r), h, n, o, acked)
         /\ r_check_or_schedule(r).ack_pending = {}
<1>1. /\ Idle /\ rcv.got = {} /\ rcv.received = 0 /\ ~rcv.complete
      /\ h.units \subseteq Units /\ setup.size \in Nat
  BY Zenon, FirstFacts
<1>2. n \in Nat /\ rcv.received + n = n
  BY <1>1
<1>3. PICK got \in SUBSET Units : got = h.units
  BY Zenon, <1>1
<1>4. rcv.got \cup h.units = got
  BY Zenon, <1>1, <1>3
<1>5. r = [rcv EXCEPT !.matched = TRUE, !.rdma_offset = n, !.send_offset = o,
                      !.ack_sent = acked, !.got = got, !.received = n]
  BY Zenon, <1>2, <1>4
<1>6. PICK v : v = [rcv EXCEPT !.matched = TRUE, !.rdma_offset = n, !.send_offset = o,
                               !.ack_sent = acked, !.got = got, !.received = n]
  BY Zenon
<1>7. v \in RcvType
  BY Zenon, <1>2, <1>6, InvParts DEF RcvType
<1>8. /\ v.matched = TRUE /\ v.rdma_offset = n /\ v.send_offset = o
      /\ v.ack_sent = acked /\ v.got = got /\ v.received = n
  BY Zenon, <1>2, <1>6, InvParts DEF RcvType
<1>9. /\ v.get_offset = rcv.get_offset /\ v.getting = rcv.getting /\ SameGets(rcv, v)
      /\ SameLoop(rcv, v) /\ v.ack_pending = rcv.ack_pending
  <2> HIDE <1>5
  <2> QED BY <1>6 DEF SameGets, SameLoop
<1>10. RcvLocked(v)
  BY Zenon, <1>9, InvParts DEF RcvLocked, SameLoop
<1>11. PICK t : t = r_check_or_schedule(v)
  BY Zenon
<1>12. RcvControl(v, t)
  BY Zenon, <1>7, <1>10, <1>11, RcvCheckOrSchedule
<1>13. /\ v.get_offset = setup.size /\ ~v.getting /\ v.gets = {} /\ v.rdma_pending = {}
       /\ v.fin_pending = {} /\ v.ack_pending = {} /\ ~v.complete
  BY Zenon, <1>1, <1>9 DEF Idle, SameGets, SameLoop
<1>14. RcvRndv(t, h, n, o, acked) /\ t.ack_pending = {}
  BY Zenon, <1>3, <1>8, <1>12, <1>13 DEF RcvRndv, RcvControl, SameRcv
<1> QED BY Zenon, <1>5, <1>6, <1>11, <1>14

\* A RNDV header is handled.
LEMMA RndvHandled ==
  ASSUME Counting, IInv, NEW h \in net.first, h.type = "RNDV", setup' = setup, snd' = snd,
         fails' \in 0 .. MaxFails, NEW n \in 0 .. setup.size, h.units = 0 .. n - 1,
         NEW o \in n .. setup.size, NEW acked \in BOOLEAN, RcvRndv(rcv', h, n, o, acked),
         net' \in NetType, net'.first = {}, net'.put = {}, net'.frag = {}, net'.finr = {},
         net'.fins = {},
         \/ o = setup.size /\ ~acked /\ net'.ack = {} /\ rcv'.ack_pending = {}
         \/ /\ acked /\ rcv'.ack_pending = {}
            /\ \E a : net'.ack = {a} /\ a.units = From(o)
         \/ acked /\ net'.ack = {} /\ rcv'.ack_pending = {From(o)}
  PROVE  IInv'
<1>1. /\ Idle /\ setup.size \in Nat /\ ~rcv.matched
      /\ snd.pending # "START" /\ snd.ranges = {} /\ snd.put_ops = {}
  BY Zenon, FirstFacts DEF Idle
<1>2. KeepsTypes
  BY Zenon, InvParts DEF KeepsTypes, RcvRndv
<1>3. /\ rcv'.matched /\ rcv'.got = h.units /\ rcv'.gets = {} /\ rcv'.rdma_pending = {}
      /\ rcv'.fin_pending = {} /\ ~rcv'.getting /\ rcv'.get_offset = setup.size
      /\ rcv'.rdma_offset = n /\ rcv'.send_offset = o /\ rcv'.ack_sent = acked
      /\ rcv'.received = n /\ (rcv'.complete => rcv'.received >= setup.size)
  BY Zenon DEF RcvRndv
<1>4. rcv'.received = Cardinality(h.units)
  BY Zenon, <1>1, <1>3, UnitsFinite
<1>5. Conserved'
  <2>1. Units' = Units
    BY Zenon DEF Units
  <2>2. ASSUME NEW u \in Units
        PROVE  \E i \in 1 .. 11 : \A j \in 1 .. 11 : u \in Spots'[j] <=> j = i
    <3>1. u \in Int /\ 0 <= u /\ u < setup.size
      BY <1>1 DEF Units
    <3>2. /\ u \in Spots'[1] <=> u >= setup.size
          /\ u \in Spots'[2] <=> n <= u /\ u < o
          /\ u \in Spots'[3] <=> \E a \in net'.ack : u \in a.units
          /\ u \in Spots'[4] <=> \E units \in rcv'.ack_pending : u \in units
          /\ u \in Spots'[11] <=> u \in 0 .. n - 1
          /\ \A j \in 5 .. 10 : u \notin Spots'[j]
      BY Zenon, <1>1, <1>3, PlacesAfter
    <3>3. /\ u \notin Spots'[1] /\ (u \in Spots'[2] <=> n <= u /\ u < o)
          /\ u \in Spots'[11] <=> u < n
      BY <1>1, <3>1, <3>2
    <3>4. u \in From(o) <=> o <= u
      BY Zenon DEF From
    <3>5. \A j \in 5 .. 10 : u \notin Spots'[j]
      BY Zenon, <3>2
    <3>6. CASE u < o
      <4>1. u \notin From(o)
        BY <3>1, <3>4, <3>6
      <4>2. u \notin Spots'[3] /\ u \notin Spots'[4]
        BY Zenon, <3>2, <4>1
      <4>3. u \in Spots'[11] <=> u \notin Spots'[2]
        BY <3>1, <3>3, <3>6
      <4> QED BY Zenon, <3>3, <3>5, <4>2, <4>3, OnlyIn
    <3>7. CASE ~(u < o)
      <4>1. u \in From(o) /\ o # setup.size /\ ~(u < n)
        BY <1>1, <3>1, <3>4, <3>7
      <4>2. u \in Spots'[3] <=> u \notin Spots'[4]
        BY Zenon, <3>2, <4>1
      <4> QED BY Zenon, <3>3, <3>5, <3>7, <4>1, <4>2, OnlyIn
    <3> QED BY ZenonT(60), <3>6, <3>7
  <2> QED BY Zenon, <2>1, <2>2, Placed
<1>6. Separate'
  BY Zenon DEF Separate
<1>7. RndvOK'
  <2> SUFFICES ASSUME snd.lc = "RNDV" PROVE RndvOK'
    BY Zenon DEF RndvOK
  <2>1. HeaderHasData' = HeaderHasData
    BY Zenon DEF HeaderHasData, RndvLimit, Failing
  <2>2. HeaderHasData /\ snd.eager = {} =>
          /\ ~snd.rdma_frag /\ snd.req_state \in {1, 2} /\ snd.req_state = 2
    BY Zenon, <1>1, InvParts DEF RndvOK, AckDue
  <2>3. /\ \A a, b \in net'.ack : a = b
        /\ \A a, b \in rcv'.ack_pending : a = b
        /\ net'.ack # {} => rcv'.ack_pending = {}
        /\ ~acked => net'.ack = {} /\ rcv'.ack_pending = {}
    BY Zenon
  <2> QED BY Zenon, <1>1, <1>3, <2>1, <2>2, <2>3 DEF RndvOK
<1>8. h.type # "MATCH"
  OBVIOUS
<1> QED BY Zenon, <1>2, <1>3, <1>4, <1>5, <1>6, <1>7, <1>8, FirstHandled

\* mca_pml_ob1_recv_request_progress_rndv.
LEMMA ProgressRndvStep ==
  ASSUME Counting, IInv, NEW h \in net.first, NEW pinned, ProgressRndv(h, pinned)
  PROVE  IInv'
<1>1. setup' = setup /\ snd' = snd /\ h.type = "RNDV"
  BY Zenon DEF ProgressRndv
<1>2. PICK n \in 0 .. setup.size : h.units = 0 .. n - 1
  BY <1>1, FirstFacts DEF HeaderOK
<1>3. n = Cardinality(h.units)
  BY Zenon, <1>2, FirstFacts, UnitsFinite
<1>4. PICK o \in n .. setup.size : o = send_offset(h, n, pinned)
  BY Zenon, InvParts, SendOffset
<1>5. o \in 0 .. setup.size
  BY <1>4
<1>6. PICK m : m = [net EXCEPT !.first = {}]
  BY Zenon
<1>7. NetButFirst(net, m)
  <2>1. m \in NetType /\ m.first = {}
    BY Zenon, <1>6, InvParts DEF NetType
  <2> QED BY <1>6, <2>1 DEF NetButFirst
<1>8. /\ m \in NetType /\ m.first = {} /\ m.ack = {} /\ m.put = {} /\ m.frag = {}
      /\ m.finr = {} /\ m.fins = {}
  BY Zenon, <1>7, FirstFacts DEF NetButFirst, Idle
<1>9. CASE setup.size > n /\ o = setup.size
  <2>1. PICK r : r = [rcv EXCEPT !.matched = TRUE, !.rdma_offset = n, !.send_offset = o,
                         !.ack_sent = FALSE, !.got = @ \cup h.units, !.received = @ + n]
    BY Zenon
  <2>2. Lacking({}) /\ rcv' = r_check_or_schedule(r) /\ net' = m
    BY Zenon, <1>3, <1>4, <1>6, <1>9, <2>1 DEF ProgressRndv
  <2>3. fails' \in 0 .. MaxFails
    BY Zenon, <2>2, InvParts, SetupFacts, EmptyCount, FailsLeft
  <2>4. RcvRndv(rcv', h, n, o, FALSE) /\ rcv'.ack_pending = {}
    <3>1. FALSE \in BOOLEAN
      BY Zenon
    <3> QED BY Zenon, <1>5, <2>1, <2>2, <3>1, RndvReceived
  <2> QED BY Zenon, <1>1, <1>2, <1>8, <1>9, <2>2, <2>3, <2>4, RndvHandled
<1>10. CASE ~(setup.size > n /\ o = setup.size)
  <2>1. PICK r : r = [rcv EXCEPT !.matched = TRUE, !.rdma_offset = n, !.send_offset = o,
                         !.ack_sent = TRUE, !.got = @ \cup h.units, !.received = @ + n]
    BY Zenon
  <2>2. PICK t : t = r_check_or_schedule(r)
    BY Zenon
  <2>3. PICK a : a = [units |-> From(o), nordma |-> o = n]
    BY Zenon
  <2>4. ack_send(t, m, a, {})
    BY Zenon, <1>3, <1>4, <1>6, <1>10, <2>1, <2>2, <2>3 DEF ProgressRndv
  <2>5. RcvRndv(t, h, n, o, TRUE) /\ t.ack_pending = {}
    <3>1. TRUE \in BOOLEAN
      BY Zenon
    <3> QED BY Zenon, <1>5, <2>1, <2>2, <3>1, RndvReceived
  <2>6. a \in [units : SUBSET Units, nordma : BOOLEAN] /\ a.units = From(o)
    <3>1. From(o) \subseteq Units
      BY Zenon DEF From
    <3> QED BY <2>3, <3>1
  <2>7. Asks(t, m, a)
    <3>1. t \in RcvType
      BY Zenon, <2>5 DEF RcvRndv
    <3> QED BY Zenon, <1>8, <2>4, <2>6, <3>1, InvParts, EmptyCount, AckSend
  <2>8. RcvRndv(rcv', h, n, o, TRUE)
    BY Zenon, <2>5, <2>7
       DEF RcvRndv, Asks, RcvButAck, SamePlan, SameGets, SameLoop, RcvLocked
  <2>9. /\ fails' \in 0 .. MaxFails /\ net' \in NetType /\ net'.first = {} /\ net'.put = {}
        /\ net'.frag = {} /\ net'.finr = {} /\ net'.fins = {}
    BY Zenon, <1>8, <2>7 DEF Asks, NetButAck
  <2>10. \/ rcv'.ack_pending = {} /\ \E b : net'.ack = {b} /\ b.units = From(o)
         \/ net'.ack = {} /\ rcv'.ack_pending = {From(o)}
    BY Zenon, <1>8, <2>5, <2>6, <2>7 DEF Asks
  <2>11. TRUE \in BOOLEAN
    BY Zenon
  <2> QED BY Zenon, <1>1, <1>2, <2>8, <2>9, <2>10, <2>11, RndvHandled
<1> QED BY Zenon, <1>9, <1>10

------------------------------------------------------------------------------
(* The inductive invariant holds always.                                   *)

\* The hypothesis of the steps.
LEMMA CountingOK == Counting
<1>1. \A S, x : IsFiniteSet(S) =>
        /\ IsFiniteSet(S \cup {x})
        /\ x \notin S => Cardinality(S \cup {x}) = Cardinality(S) + 1
  BY FS_AddElement
<1>2. \A S, T : IsFiniteSet(S) /\ T \subseteq S =>
        /\ IsFiniteSet(T) /\ Cardinality(T) <= Cardinality(S)
        /\ Cardinality(S) = Cardinality(T) => S = T
  BY FS_Subset
<1>3. \A S, T : IsFiniteSet(S) /\ IsFiniteSet(T) =>
        Cardinality(S \cup T) = Cardinality(S) + Cardinality(T) - Cardinality(S \cap T)
  BY FS_Union
<1>4. \A a \in Int, b \in Int :
        /\ IsFiniteSet(a .. b)
        /\ Cardinality(a .. b) = IF a > b THEN 0 ELSE b - a + 1
  BY FS_Interval
<1>5. /\ IsFiniteSet({}) /\ Cardinality({}) = 0
      /\ \A S : IsFiniteSet(S) => Cardinality(S) \in Nat
  BY FS_EmptySet, FS_CardinalityType
<1> QED BY Zenon, <1>1, <1>2, <1>3, <1>4, <1>5 DEF Counting

\* The request is started, nothing else has happened.
LEMMA InitIInv == Init => IInv
<1> SUFFICES ASSUME Init PROVE IInv
  OBVIOUS
<1>1. /\ setup \in Setups /\ setup.size \in Nat /\ MaxFails \in Nat
  BY Zenon, SetupFacts DEF Init
<1>2. /\ snd.req_state = 0 /\ snd.throttle \in BOOLEAN /\ snd.depth = 0
      /\ snd.delivered = 0 /\ snd.ranges = {} /\ snd.lock = 0 /\ snd.loop = "NO"
      /\ snd.checks = 0 /\ snd.pending = "START" /\ snd.lc = "NONE" /\ snd.eager = {}
      /\ snd.frag_lc = {} /\ snd.put_ops = {} /\ snd.fin_pending = {}
      /\ snd.rdma_frag = FALSE /\ snd.remaining = 0 /\ snd.complete = FALSE
  BY DEF Init
<1>3. /\ rcv.matched = FALSE /\ rcv.send_offset = 0 /\ rcv.rdma_offset = 0
      /\ rcv.received = 0 /\ rcv.lock = 0 /\ rcv.loop = "NO" /\ rcv.checks = 0
      /\ rcv.pending = FALSE /\ rcv.get_offset = setup.size /\ rcv.getting = FALSE
      /\ rcv.gets = {} /\ rcv.got = {} /\ rcv.ack_pending = {} /\ rcv.fin_pending = {}
      /\ rcv.rdma_pending = {} /\ rcv.complete = FALSE
  BY DEF Init
<1>4. /\ net.first = {} /\ net.ack = {} /\ net.put = {} /\ net.frag = {}
      /\ net.finr = {} /\ net.fins = {}
  BY DEF Init
<1>5. TypeOK
  <2>1. 0 \in 0 .. setup.size /\ setup.size \in 0 .. setup.size /\ 0 \in Int /\ 0 \in Nat
        /\ fails \in 0 .. MaxFails
    BY <1>1 DEF Init
  <2>2. snd \in SndType
    BY <2>1 DEF Init, SndType
  <2>3. rcv \in RcvType
    BY Zenon, <2>1 DEF Init, RcvType
  <2>4. net \in NetType
    BY Zenon DEF Init, NetType
  <2> QED BY Zenon, <2>1, <2>2, <2>3, <2>4, TypeParts
<1>6. SndLocked(snd) /\ RcvLocked(rcv) /\ Idle
  BY Zenon, <1>2, <1>3, <1>4 DEF SndLocked, RcvLocked, Idle
<1>7. FirstOK /\ MatchOK /\ RndvOK
  <2>1. snd.lc # "MATCH" /\ snd.lc # "RNDV" /\ snd.remaining \in {0, setup.size}
    BY <1>2
  <2> QED BY Zenon, <1>2, <1>3, <1>4, <1>6, <2>1 DEF FirstOK, MatchOK, RndvOK
<1>8. Conserved /\ Separate /\ RecvDone /\ SendDone
  BY Zenon, <1>2, <1>3, <1>4 DEF Conserved, Separate, RecvDone, SendDone
<1>9. CountOK
  <2>1. Announced = {} /\ rcv.got \ Announced = {}
    BY Zenon, <1>2, <1>3, <1>4 DEF Announced
  <2> QED BY Zenon, <1>2, <1>3, <2>1, FS_EmptySet DEF CountOK
<1>10. GoneOK
  <2>1. Eager = {} /\ Gone = {} /\ Uncounted = {}
    BY Zenon, <1>2, <1>3, <1>4 DEF Eager, Gone, FirstUnits, Uncounted
  <2>2. Cardinality(Gone \ Uncounted) = 0
    <3>1. Gone \ Uncounted = {}
      BY Zenon, <2>1
    <3> QED BY Zenon, <3>1, FS_EmptySet
  <2>3. snd.delivered + ByGet <= Cardinality(Gone \ Uncounted) /\ snd.remaining \in 0 .. setup.size
    <3>1. snd.delivered = 0 /\ ByGet = 0 /\ snd.remaining \in {0, setup.size}
      BY Zenon, <1>2 DEF ByGet
    <3> QED BY <1>1, <2>2, <3>1
  <2>4. ~Getting /\ snd.lc # "RNDV"
    BY <1>2, <1>3, <1>4 DEF Getting
  <2> QED BY Zenon, <1>2, <1>3, <1>4, <2>1, <2>3, <2>4 DEF GoneOK
<1> QED BY Zenon, <1>1, <1>5, <1>6, <1>7, <1>8, <1>9, <1>10 DEF IInv

\* Every step preserves the inductive invariant.
LEMMA StepIInv == IInv /\ [Next]_vars => IInv'
<1> SUFFICES ASSUME IInv, [Next]_vars PROVE IInv'
  OBVIOUS
<1>1. ASSUME UNCHANGED vars PROVE IInv'
  <2>1. UNCHANGED <<setup, snd, rcv, net>> /\ fails' = fails
    BY <1>1 DEF vars
  <2> QED BY Zenon, <2>1, InvParts, CountingOK, StutterStep
<1>2. ASSUME \E pinned \in setup.s_pinned : Start(pinned) PROVE IInv'
  BY Zenon, <1>2, CountingOK, StartStep
<1>3. ASSUME \/ MatchCompletion \/ RndvCompletion \/ ScheduleEnd \/ ScheduleUnlock
             \/ ScheduleCheck \/ SendProcessPending
      PROVE  IInv'
  BY Zenon, <1>3, CountingOK, MatchCompletionStep, RndvCompletionStep, ScheduleEndStep,
     ScheduleUnlockStep, ScheduleCheckStep, SendProcessPendingStep
<1>4. ASSUME \/ \E a \in net.ack : RecvAck(a)
             \/ \E p \in net.put : RecvPut(p)
             \/ \E f \in snd.fin_pending : SendPendingFin(f)
      PROVE  IInv'
  BY Zenon, <1>4, CountingOK, RecvAckStep, RecvPutStep, SendPendingFinStep
<1>5. ASSUME \/ \E h \in net.first : ProgressMatch(h)
             \/ \E h \in net.first : ProgressRget(h)
             \/ \E h \in net.first, pinned \in setup.r_pinned : ProgressRndv(h, pinned)
      PROVE  IInv'
  BY Zenon, <1>5, CountingOK, ProgressMatchStep, ProgressRgetStep, ProgressRndvStep
<1>6. ASSUME \/ \E u \in snd.put_ops : PutCompletion(u)
             \/ \E u \in net.fins : RecvFinGet(u)
             \/ \E u \in snd.frag_lc : FragCompletion(u)
             \/ \E u \in snd.ranges : ScheduleFrag(u)
      PROVE  IInv'
  BY Zenon, <1>6, CountingOK, PutCompletionStep, RecvFinGetStep, FragCompletionStep, ScheduleFragStep
<1>7. ASSUME \/ \E u \in rcv.gets : GetCompletion(u)
             \/ \E u \in rcv.rdma_pending : RetryGet(u)
             \/ \E u \in net.frag : ProgressFrag(u)
             \/ \E u \in rcv.fin_pending : RecvPendingFin(u)
      PROVE  IInv'
  BY Zenon, <1>7, CountingOK, GetCompletionStep, RetryGetStep, ProgressFragStep, RecvPendingFinStep
<1>8. ASSUME GetFrag \/ SchedulePut \/ PutEnd \/ PutUnlock \/ PutCheck \/ RecvProcessPending
      PROVE  IInv'
  BY Zenon, <1>8, CountingOK, GetFragStep, SchedulePutStep, PutEndStep, PutUnlockStep, PutCheckStep,
     RecvProcessPendingStep
<1>9. ASSUME \/ \E f \in net.finr : RecvFinPut(f)
             \/ \E units \in rcv.ack_pending, nordma \in BOOLEAN : RecvPendingAck(units, nordma)
      PROVE  IInv'
  BY ZenonT(60), <1>9, CountingOK, RecvFinPutStep, RecvPendingAckStep
<1> QED BY Zenon, <1>1, <1>2, <1>3, <1>4, <1>5, <1>6, <1>7, <1>8, <1>9 DEF Next

\* The inductive invariant always holds.
LEMMA AlwaysIInv == Spec => []IInv
BY InitIInv, StepIInv, PTL DEF Spec

------------------------------------------------------------------------------
(* When the loop of gets is left.                                          *)

\* The loop has ended before the last unit only when two operations failed.
LoopLeft ==
  ~rcv.getting /\ rcv.get_offset < setup.size => fails + 2 <= MaxFails

\* The part of a step that is not about the loop.
KeepsLoop ==
  rcv'.getting = rcv.getting /\ rcv'.get_offset = rcv.get_offset

\* The failures that are left never become more.
Falls == fails' \in Nat /\ fails' <= fails

\* Failures use up what is left.
LEMMA LackingFalls ==
  ASSUME Counting, fails \in Nat, NEW ops, IsFiniteSet(ops), Lacking(ops)
  PROVE  Falls /\ fails' = fails - Cardinality(ops)
<1>1. Cardinality(ops) \in Nat
  BY TypeCount
<1> QED BY <1>1 DEF Lacking, Falls

\* The sets of operations that fail together.
LEMMA FewFail ==
  ASSUME Counting
  PROVE  /\ IsFiniteSet({})
         /\ \A x : IsFiniteSet({x})
         /\ \A x, y : IsFiniteSet({x} \cup {y})
         /\ \A x, y : x # y => Cardinality({x} \cup {y}) = 2
<1>1. ASSUME NEW x, NEW y PROVE IsFiniteSet({x} \cup {y})
  BY Zenon, OneCount, AddCount
<1>2. ASSUME NEW x, NEW y, x # y PROVE Cardinality({x} \cup {y}) = 2
  <2>1. Cardinality({x}) = 1
    <3>1. x \notin {} /\ {} \cup {x} = {x}
      BY Zenon
    <3>2. Cardinality({x}) = Cardinality({}) + 1
      BY Zenon, <3>1, EmptyCount, AddCount
    <3> QED BY <3>2, EmptyCount
  <2>2. Cardinality({x} \cup {y}) = Cardinality({x}) + 1
    BY Zenon, <1>2, OneCount, AddCount
  <2> QED BY <2>1, <2>2
<1> QED BY Zenon, <1>1, <1>2, EmptyCount, OneCount

\* A step that keeps the loop as it is.
LEMMA LoopLeftKept ==
  ASSUME LoopLeft, setup' = setup, KeepsLoop, Falls, fails \in Nat, MaxFails \in Nat
  PROVE  LoopLeft'
<1>1. MaxFails' = MaxFails
  BY Zenon DEF MaxFails
<1>2. ASSUME fails + 2 <= MaxFails PROVE fails' + 2 <= MaxFails
  <2>1. \A a, b, c \in Nat : a <= b /\ b + 2 <= c => a + 2 <= c
    OBVIOUS
  <2> QED BY Zenon, <1>2, <2>1 DEF Falls
<1> QED BY Zenon, <1>1, <1>2 DEF LoopLeft, KeepsLoop

\* The steps of the send request do not touch the receive request.
LEMMA SenderKeepsLoop ==
  ASSUME Counting, fails \in Nat,
         \/ \E pinned \in setup.s_pinned : Start(pinned)
         \/ MatchCompletion \/ RndvCompletion
         \/ ScheduleEnd \/ ScheduleUnlock \/ ScheduleCheck \/ SendProcessPending
         \/ \E a \in net.ack : RecvAck(a)
         \/ \E p \in net.put : RecvPut(p)
         \/ \E f \in snd.fin_pending : SendPendingFin(f)
         \/ \E u \in net.fins : RecvFinGet(u)
         \/ \E u \in snd.frag_lc : FragCompletion(u)
         \/ \E u \in snd.ranges : ScheduleFrag(u)
  PROVE  setup' = setup /\ KeepsLoop /\ Falls
<1>1. setup' = setup /\ rcv' = rcv
  BY Zenon DEF Start, MatchCompletion, RndvCompletion, ScheduleEnd, ScheduleUnlock,
     ScheduleCheck, SendProcessPending, RecvAck, RecvPut, SendPendingFin, RecvFinGet,
     FragCompletion, ScheduleFrag
<1>2. ASSUME fails' = fails PROVE Falls
  BY <1>2 DEF Falls
<1>3. ASSUME \E pinned \in setup.s_pinned : Start(pinned) PROVE Falls
  <2>1. Lacking({}) \/ \E x : Lacking({x})
    BY Zenon, <1>3 DEF Start
  <2> QED BY Zenon, <2>1, FewFail, LackingFalls
<1>4. ASSUME NEW p, RecvPut(p) PROVE Falls
  <2>1. Lacking({}) \/ Lacking({"put"}) \/ Lacking({"put"} \cup {"fin"})
    BY Zenon, <1>4 DEF RecvPut, put_frag_failed, s_send_fin
  <2> QED BY Zenon, <2>1, FewFail, LackingFalls
<1>5. ASSUME NEW u, ScheduleFrag(u) PROVE Falls
  <2>1. Lacking({}) \/ Lacking({"frag"})
    BY Zenon, <1>5 DEF ScheduleFrag
  <2> QED BY Zenon, <2>1, FewFail, LackingFalls
<1>6. Falls
  BY Zenon, <1>2, <1>3, <1>4, <1>5
     DEF MatchCompletion, RndvCompletion, ScheduleEnd, ScheduleUnlock, ScheduleCheck,
         SendProcessPending, RecvAck, SendPendingFin, RecvFinGet, FragCompletion
<1> QED BY Zenon, <1>1, <1>6 DEF KeepsLoop

\* The completion check and the scheduling of puts do not touch the loop.
LEMMA ChecksKeepLoop ==
  ASSUME NEW r
  PROVE  /\ r_complete_check(r).getting = r.getting
         /\ r_complete_check(r).get_offset = r.get_offset
         /\ r_check_or_schedule(r).getting = r.getting
         /\ r_check_or_schedule(r).get_offset = r.get_offset
<1>1. \A t : /\ r_complete_check(t).getting = t.getting
             /\ r_complete_check(t).get_offset = t.get_offset
  BY DEF r_complete_check
<1>2. PICK t : t = r_complete_check(r)
  BY Zenon
<1>3. PICK v : v = r_check_or_schedule(r)
  BY Zenon
<1>4. v = t \/ \E k, l : v = [t EXCEPT !.lock = k, !.loop = l]
  BY Zenon, <1>2, <1>3 DEF r_check_or_schedule
<1>5. ASSUME NEW k, NEW l, v = [t EXCEPT !.lock = k, !.loop = l]
      PROVE  v.getting = t.getting /\ v.get_offset = t.get_offset
  BY <1>5
<1> QED BY Zenon, <1>1, <1>2, <1>3, <1>4, <1>5

\* An ACK that has to wait does not either.
LEMMA AckKeepsLoop ==
  ASSUME Counting, fails \in Nat, NEW r, NEW n, NEW a, NEW ops,
         \/ ops = {} \/ \E x : ops = {x},
         r.getting = rcv.getting, r.get_offset = rcv.get_offset, ack_send(r, n, a, ops)
  PROVE  KeepsLoop /\ Falls
<1>1. rcv' = r \/ \E q : rcv' = [r EXCEPT !.ack_pending = q]
  BY Zenon DEF ack_send
<1>2. ASSUME NEW q, rcv' = [r EXCEPT !.ack_pending = q]
      PROVE  rcv'.getting = r.getting /\ rcv'.get_offset = r.get_offset
  BY <1>2
<1>3. IsFiniteSet(ops) /\ IsFiniteSet(ops \cup {"ack"})
  BY Zenon, FewFail, AddCount
<1>4. Falls
  BY Zenon, <1>3, LackingFalls DEF ack_send
<1> QED BY Zenon, <1>1, <1>2, <1>4 DEF KeepsLoop

\* The steps of the receive request that do not touch the loop.
LEMMA ReceiverKeepsLoop ==
  ASSUME Counting, fails \in Nat,
         \/ \E h \in net.first : ProgressMatch(h)
         \/ \E h \in net.first, pinned \in setup.r_pinned : ProgressRndv(h, pinned)
         \/ \E u \in net.frag : ProgressFrag(u)
         \/ \E f \in net.finr : RecvFinPut(f)
         \/ PutEnd \/ PutUnlock \/ PutCheck \/ RecvProcessPending
         \/ \E units \in rcv.ack_pending, nordma \in BOOLEAN : RecvPendingAck(units, nordma)
         \/ \E u \in rcv.fin_pending : RecvPendingFin(u)
  PROVE  setup' = setup /\ KeepsLoop /\ Falls
<1>1. ASSUME fails' = fails PROVE Falls
  BY <1>1 DEF Falls
<1>2. ASSUME NEW h, ProgressMatch(h) PROVE setup' = setup /\ KeepsLoop /\ Falls
  <2>1. KeepsLoop
    BY <1>2 DEF ProgressMatch, KeepsLoop
  <2> QED BY Zenon, <1>1, <1>2, <2>1 DEF ProgressMatch
<1>3. ASSUME NEW h, NEW pinned, ProgressRndv(h, pinned)
      PROVE  setup' = setup /\ KeepsLoop /\ Falls
  <2>1. PICK n : n = Cardinality(h.units)
    BY Zenon
  <2>2. PICK o : o = send_offset(h, n, pinned)
    BY Zenon
  <2>3. ASSUME NEW acked, NEW r,
               r = [rcv EXCEPT !.matched = TRUE, !.rdma_offset = n, !.send_offset = o,
                      !.ack_sent = acked, !.got = @ \cup h.units, !.received = @ + n]
        PROVE  /\ r_check_or_schedule(r).getting = rcv.getting
               /\ r_check_or_schedule(r).get_offset = rcv.get_offset
    <3>1. r.getting = rcv.getting /\ r.get_offset = rcv.get_offset
      BY <2>3
    <3> QED BY Zenon, <3>1, ChecksKeepLoop
  <2>4. PICK r : r = [rcv EXCEPT !.matched = TRUE, !.rdma_offset = n, !.send_offset = o,
                        !.ack_sent = FALSE, !.got = @ \cup h.units, !.received = @ + n]
    BY Zenon
  <2>5. PICK v : v = [rcv EXCEPT !.matched = TRUE, !.rdma_offset = n, !.send_offset = o,
                        !.ack_sent = TRUE, !.got = @ \cup h.units, !.received = @ + n]
    BY Zenon
  <2>6. \/ Lacking({}) /\ rcv' = r_check_or_schedule(r)
        \/ \E m, a : ack_send(r_check_or_schedule(v), m, a, {})
    BY Zenon, <1>3, <2>1, <2>2, <2>4, <2>5 DEF ProgressRndv
  <2>7. CASE Lacking({}) /\ rcv' = r_check_or_schedule(r)
    <3>1. Falls
      BY Zenon, <2>7, FewFail, LackingFalls
    <3> QED BY Zenon, <1>3, <2>3, <2>4, <2>7, <3>1 DEF KeepsLoop, ProgressRndv
  <2>8. CASE \E m, a : ack_send(r_check_or_schedule(v), m, a, {})
    BY Zenon, <1>3, <2>3, <2>5, <2>8, AckKeepsLoop DEF ProgressRndv
  <2> QED BY Zenon, <2>6, <2>7, <2>8
<1>4. ASSUME NEW u, ProgressFrag(u) PROVE setup' = setup /\ KeepsLoop /\ Falls
  <2>1. PICK r : r = [rcv EXCEPT !.got = @ \cup {u}, !.received = @ + 1]
    BY Zenon
  <2>2. r.getting = rcv.getting /\ r.get_offset = rcv.get_offset
    BY <2>1
  <2> QED BY Zenon, <1>1, <1>4, <2>1, <2>2, ChecksKeepLoop DEF ProgressFrag, KeepsLoop
<1>5. ASSUME NEW f, RecvFinPut(f) PROVE setup' = setup /\ KeepsLoop /\ Falls
  <2>1. PICK r : r = [rcv EXCEPT !.depth = @ - 1]
    BY Zenon
  <2>2. PICK v : v = [r EXCEPT !.received = @ + 1]
    BY Zenon
  <2>3. r.getting = rcv.getting /\ r.get_offset = rcv.get_offset
    BY <2>1
  <2>4. v.getting = r.getting /\ v.get_offset = r.get_offset
    BY <2>2
  <2>5. rcv' = r \/ rcv' = r_check_or_schedule(v)
    BY Zenon, <1>5, <2>1, <2>2 DEF RecvFinPut
  <2> QED BY Zenon, <1>1, <1>5, <2>3, <2>4, <2>5, ChecksKeepLoop DEF RecvFinPut, KeepsLoop
<1>6. ASSUME PutEnd \/ PutUnlock \/ RecvProcessPending
      PROVE  setup' = setup /\ KeepsLoop /\ Falls
  <2>1. KeepsLoop
    <3>1. ASSUME PutEnd PROVE KeepsLoop
      BY <3>1 DEF PutEnd, KeepsLoop
    <3>2. ASSUME PutUnlock PROVE KeepsLoop
      <4>1. ASSUME NEW k, NEW l, NEW c,
                   rcv' = [rcv EXCEPT !.lock = k, !.loop = l, !.checks = c]
            PROVE  KeepsLoop
        BY <4>1 DEF KeepsLoop
      <4>2. ASSUME NEW k, NEW l, rcv' = [rcv EXCEPT !.lock = k, !.loop = l]
            PROVE  KeepsLoop
        BY <4>2 DEF KeepsLoop
      <4> QED BY Zenon, <3>2, <4>1, <4>2 DEF PutUnlock, r_unlock
    <3>3. ASSUME RecvProcessPending PROVE KeepsLoop
      BY <3>3 DEF RecvProcessPending, KeepsLoop
    <3> QED BY Zenon, <1>6, <3>1, <3>2, <3>3
  <2> QED BY Zenon, <1>1, <1>6, <2>1 DEF PutEnd, PutUnlock, RecvProcessPending
<1>7. ASSUME PutCheck PROVE setup' = setup /\ KeepsLoop /\ Falls
  <2>1. PICK r : r = [rcv EXCEPT !.checks = @ - 1]
    BY Zenon
  <2>2. r.getting = rcv.getting /\ r.get_offset = rcv.get_offset
    BY <2>1
  <2> QED BY Zenon, <1>1, <1>7, <2>1, <2>2, ChecksKeepLoop DEF PutCheck, KeepsLoop
<1>8. ASSUME \/ \E units, nordma : RecvPendingAck(units, nordma)
             \/ \E u : RecvPendingFin(u)
      PROVE  setup' = setup /\ KeepsLoop /\ Falls
  <2>1. KeepsLoop
    <3>1. ASSUME NEW q, rcv' = [rcv EXCEPT !.ack_pending = q] PROVE KeepsLoop
      BY <3>1 DEF KeepsLoop
    <3>2. ASSUME NEW q, rcv' = [rcv EXCEPT !.fin_pending = q] PROVE KeepsLoop
      BY <3>2 DEF KeepsLoop
    <3> QED BY Zenon, <1>8, <3>1, <3>2 DEF RecvPendingAck, RecvPendingFin
  <2> QED BY Zenon, <1>1, <1>8, <2>1 DEF RecvPendingAck, RecvPendingFin
<1> QED BY Zenon, <1>2, <1>3, <1>4, <1>5, <1>6, <1>7, <1>8

\* Nor do the puts and the completions of gets.
LEMMA TransfersKeepLoop ==
  ASSUME Counting, fails \in Nat,
         \/ \E u \in snd.put_ops : PutCompletion(u)
         \/ SchedulePut
         \/ \E u \in rcv.gets : GetCompletion(u)
         \/ \E u \in rcv.rdma_pending : RetryGet(u)
  PROVE  setup' = setup /\ KeepsLoop /\ Falls
<1>1. ASSUME NEW u, PutCompletion(u) PROVE setup' = setup /\ KeepsLoop /\ Falls
  <2>1. ASSUME rcv' = [rcv EXCEPT !.got = @ \cup {u}] PROVE KeepsLoop
    BY <2>1 DEF KeepsLoop
  <2>2. KeepsLoop
    BY Zenon, <1>1, <2>1 DEF PutCompletion, KeepsLoop
  <2>3. Lacking({}) \/ Lacking({} \cup {"fin"})
    BY Zenon, <1>1 DEF PutCompletion, put_frag_failed, s_send_fin
  <2>4. {} \cup {"fin"} = {"fin"}
    BY Zenon
  <2> QED BY Zenon, <1>1, <2>2, <2>3, <2>4, FewFail, LackingFalls DEF PutCompletion
<1>2. ASSUME SchedulePut PROVE setup' = setup /\ KeepsLoop /\ Falls
  <2>1. ASSUME NEW o, NEW d, rcv' = [rcv EXCEPT !.rdma_offset = o, !.depth = d, !.ack_sent = TRUE]
        PROVE  KeepsLoop
    BY <2>1 DEF KeepsLoop
  <2>2. ASSUME rcv' = [rcv EXCEPT !.loop = "NO", !.pending = TRUE] PROVE KeepsLoop
    BY <2>2 DEF KeepsLoop
  <2>3. ASSUME rcv' = [rcv EXCEPT !.loop = "NO", !.pending = TRUE, !.ack_sent = TRUE]
        PROVE  KeepsLoop
    BY <2>3 DEF KeepsLoop
  <2>4. KeepsLoop
    BY Zenon, <1>2, <2>1, <2>2, <2>3 DEF SchedulePut
  <2>5. Lacking({}) \/ \E x : Lacking({x})
    BY Zenon, <1>2 DEF SchedulePut
  <2> QED BY Zenon, <1>2, <2>4, <2>5, FewFail, LackingFalls DEF SchedulePut
<1>3. ASSUME NEW u, GetCompletion(u) PROVE setup' = setup /\ KeepsLoop /\ Falls
  <2>1. PICK r : r = [rcv EXCEPT !.gets = @ \ {u}]
    BY Zenon
  <2>2. PICK v : v = [r EXCEPT !.got = @ \cup {u}, !.received = @ + 1]
    BY Zenon
  <2>3. PICK d : d = r_complete_check(v)
    BY Zenon
  <2>4. r.getting = rcv.getting /\ r.get_offset = rcv.get_offset
    BY <2>1
  <2>5. v.getting = r.getting /\ v.get_offset = r.get_offset
    BY <2>2
  <2>6. d.getting = rcv.getting /\ d.get_offset = rcv.get_offset
    BY Zenon, <2>3, <2>4, <2>5, ChecksKeepLoop
  <2>7. /\ rcv' = d \/ (\E q : rcv' = [d EXCEPT !.fin_pending = q]) \/ rcv' = r
           \/ put_for_get(r, u)
        /\ Lacking({}) \/ (\E x : Lacking({x})) \/ put_for_get(r, u)
    BY Zenon, <1>3, <2>1, <2>2, <2>3 DEF GetCompletion
  <2>8. ASSUME NEW q, rcv' = [d EXCEPT !.fin_pending = q]
        PROVE  rcv'.getting = d.getting /\ rcv'.get_offset = d.get_offset
    BY <2>8
  <2>9. ASSUME put_for_get(r, u)
        PROVE  /\ rcv'.getting = r.getting /\ rcv'.get_offset = r.get_offset
               /\ Lacking({}) \/ \E x : Lacking({x})
    <3>1. ASSUME rcv' = [r EXCEPT !.ack_sent = TRUE]
          PROVE  rcv'.getting = r.getting /\ rcv'.get_offset = r.get_offset
      BY <3>1
    <3>2. ASSUME NEW q, rcv' = [r EXCEPT !.rdma_pending = q]
          PROVE  rcv'.getting = r.getting /\ rcv'.get_offset = r.get_offset
      BY <3>2
    <3>3. ASSUME NEW q, rcv' = [r EXCEPT !.rdma_pending = q, !.ack_sent = TRUE]
          PROVE  rcv'.getting = r.getting /\ rcv'.get_offset = r.get_offset
      BY <3>3
    <3> QED BY Zenon, <2>9, <3>1, <3>2, <3>3 DEF put_for_get
  <2>10. KeepsLoop
    BY Zenon, <2>4, <2>6, <2>7, <2>8, <2>9 DEF KeepsLoop
  <2> QED BY Zenon, <1>3, <2>7, <2>9, <2>10, FewFail, LackingFalls DEF GetCompletion
<1>4. ASSUME NEW u, RetryGet(u) PROVE setup' = setup /\ KeepsLoop /\ Falls
  <2>1. PICK r : r = [rcv EXCEPT !.rdma_pending = @ \ {u}]
    BY Zenon
  <2>2. r.getting = rcv.getting /\ r.get_offset = rcv.get_offset
    BY <2>1
  <2>3. ASSUME rcv' = [r EXCEPT !.gets = @ \cup {u}]
        PROVE  rcv'.getting = r.getting /\ rcv'.get_offset = r.get_offset
    BY <2>3
  <2>4. \/ Lacking({}) /\ rcv' = [r EXCEPT !.gets = @ \cup {u}]
        \/ ack_send(r, net, send_region(u), {"get"})
    BY Zenon, <1>4, <2>1 DEF RetryGet
  <2>5. CASE Lacking({}) /\ rcv' = [r EXCEPT !.gets = @ \cup {u}]
    BY Zenon, <1>4, <2>2, <2>3, <2>5, FewFail, LackingFalls DEF RetryGet, KeepsLoop
  <2>6. CASE ack_send(r, net, send_region(u), {"get"})
    BY Zenon, <1>4, <2>2, <2>6, AckKeepsLoop DEF RetryGet
  <2> QED BY Zenon, <2>4, <2>5, <2>6
<1> QED BY Zenon, <1>1, <1>2, <1>3, <1>4

\* A header of a get starts the loop, or asks for copies of all units.
LEMMA RgetLoopLeft ==
  ASSUME Counting, IInv, LoopLeft, NEW h, ProgressRget(h)
  PROVE  LoopLeft'
<1>1. setup' = setup /\ MaxFails' = MaxFails /\ fails \in Nat /\ MaxFails \in Nat
  <2>1. MaxFails \in Nat /\ fails \in 0 .. MaxFails
    BY Zenon, InvParts, SetupFacts
  <2>2. fails \in Nat
    BY <2>1
  <2> QED BY Zenon, <2>1, <2>2 DEF ProgressRget, MaxFails
<1>2. PICK r : r = [rcv EXCEPT !.matched = TRUE]
  BY Zenon
<1>3. PICK v : v = [r EXCEPT !.ack_sent = TRUE]
  BY Zenon
<1>4. \/ rcv' = [r EXCEPT !.getting = TRUE, !.get_offset = 0]
      \/ \E m, a : ack_send(v, m, a, {})
  BY Zenon, <1>2, <1>3 DEF ProgressRget
<1>5. CASE rcv' = [r EXCEPT !.getting = TRUE, !.get_offset = 0]
  <2>1. r \in RcvType
    BY Zenon, <1>2, InvParts DEF RcvType
  <2>2. rcv'.getting = TRUE
    BY <1>5, <2>1 DEF RcvType
  <2> QED BY Zenon, <2>2 DEF LoopLeft
<1>6. CASE \E m, a : ack_send(v, m, a, {})
  <2>1. r.getting = rcv.getting /\ r.get_offset = rcv.get_offset
    BY <1>2
  <2>2. v.getting = r.getting /\ v.get_offset = r.get_offset
    BY <1>3
  <2>3. KeepsLoop /\ Falls
    BY Zenon, <1>1, <1>6, <2>1, <2>2, AckKeepsLoop
  <2> QED BY Zenon, <1>1, <2>3, LoopLeftKept
<1> QED BY Zenon, <1>4, <1>5, <1>6

\* An iteration of the loop ends it at the last unit, or when two operations
\* fail.
LEMMA GetFragLoopLeft ==
  ASSUME Counting, IInv, LoopLeft, GetFrag
  PROVE  LoopLeft'
<1>1. setup' = setup /\ MaxFails' = MaxFails /\ setup.size \in Nat
  BY Zenon, InvParts, SetupFacts DEF GetFrag, MaxFails
<1>2. MaxFails \in Nat /\ fails \in 0 .. MaxFails
  BY Zenon, InvParts, SetupFacts
<1>3. PICK o : o = rcv.get_offset + 1
  BY Zenon
<1>4. PICK g : g = more_gets(o)
  BY Zenon
<1>5. PICK r : r = [rcv EXCEPT !.get_offset = o, !.getting = g]
  BY Zenon
<1>6. \/ \E q : rcv' = [r EXCEPT !.gets = q]
      \/ rcv' = r
      \/ Lacking({"get", "ack"})
  BY Zenon, <1>3, <1>4, <1>5 DEF GetFrag
<1>7. CASE Lacking({"get", "ack"})
  <2>1. IsFiniteSet({"get", "ack"}) /\ Cardinality({"get", "ack"}) = 2
    <3>1. \A x, y : x # y => IsFiniteSet({x} \cup {y}) /\ Cardinality({x} \cup {y}) = 2
      BY Zenon, FewFail
    <3>2. PICK x, y : x = "get" /\ y = "ack"
      BY Zenon
    <3>3. {x, y} = {x} \cup {y} /\ x # y
      BY <3>2
    <3>4. IsFiniteSet({x, y}) /\ Cardinality({x, y}) = 2
      BY Zenon, <3>1, <3>3
    <3> QED BY Zenon, <3>2, <3>4
  <2>2. fails \in Nat
    BY <1>2
  <2>3. fails' = fails - 2
    BY Zenon, <1>7, <2>1, <2>2, LackingFalls
  <2>4. fails' + 2 <= MaxFails
    <3>1. \A a, c \in Nat : a \in 0 .. c => (a - 2) + 2 <= c
      OBVIOUS
    <3> QED BY Zenon, <1>2, <2>2, <2>3, <3>1
  <2> QED BY Zenon, <1>1, <2>4 DEF LoopLeft
<1>8. CASE rcv' = r \/ \E q : rcv' = [r EXCEPT !.gets = q]
  <2>1. r.get_offset = o /\ r.getting = g
    <3>1. rcv \in RcvType
      BY Zenon, InvParts
    <3> QED BY <1>5, <3>1 DEF RcvType
  <2>2. ASSUME NEW q, rcv' = [r EXCEPT !.gets = q]
        PROVE  rcv'.get_offset = r.get_offset /\ rcv'.getting = r.getting
    BY <2>2
  <2>3. rcv'.get_offset = o /\ rcv'.getting = g
    BY Zenon, <1>8, <2>1, <2>2
  <2>4. ~(~rcv'.getting /\ rcv'.get_offset < setup'.size)
    BY Zenon, <1>1, <1>4, <2>3 DEF more_gets
  <2> QED BY Zenon, <2>4 DEF LoopLeft
<1> QED BY Zenon, <1>6, <1>7, <1>8

\* Every step preserves it.
LEMMA StepLoopLeft == IInv /\ LoopLeft /\ [Next]_vars => LoopLeft'
<1> SUFFICES ASSUME IInv, LoopLeft, [Next]_vars PROVE LoopLeft'
  OBVIOUS
<1>1. MaxFails \in Nat /\ fails \in Nat
  <2>1. MaxFails \in Nat /\ fails \in 0 .. MaxFails
    BY Zenon, InvParts, SetupFacts
  <2> QED BY <2>1
<1>2. ASSUME UNCHANGED vars PROVE LoopLeft'
  <2>1. setup' = setup /\ rcv' = rcv /\ fails' = fails
    BY <1>2 DEF vars
  <2> QED BY Zenon, <2>1 DEF LoopLeft, MaxFails
<1>3. ASSUME setup' = setup /\ KeepsLoop /\ Falls PROVE LoopLeft'
  BY Zenon, <1>1, <1>3, LoopLeftKept
<1>4. ASSUME \/ \E pinned \in setup.s_pinned : Start(pinned)
             \/ MatchCompletion \/ RndvCompletion
             \/ ScheduleEnd \/ ScheduleUnlock \/ ScheduleCheck \/ SendProcessPending
             \/ \E a \in net.ack : RecvAck(a)
             \/ \E p \in net.put : RecvPut(p)
             \/ \E f \in snd.fin_pending : SendPendingFin(f)
             \/ \E u \in net.fins : RecvFinGet(u)
             \/ \E u \in snd.frag_lc : FragCompletion(u)
             \/ \E u \in snd.ranges : ScheduleFrag(u)
      PROVE  LoopLeft'
  BY Zenon, <1>1, <1>3, <1>4, CountingOK, SenderKeepsLoop
<1>5. ASSUME \/ \E h \in net.first : ProgressMatch(h)
             \/ \E h \in net.first, pinned \in setup.r_pinned : ProgressRndv(h, pinned)
             \/ \E u \in net.frag : ProgressFrag(u)
             \/ \E f \in net.finr : RecvFinPut(f)
             \/ PutEnd \/ PutUnlock \/ PutCheck \/ RecvProcessPending
             \/ \E units \in rcv.ack_pending, nordma \in BOOLEAN : RecvPendingAck(units, nordma)
             \/ \E u \in rcv.fin_pending : RecvPendingFin(u)
      PROVE  LoopLeft'
  BY Zenon, <1>1, <1>3, <1>5, CountingOK, ReceiverKeepsLoop
<1>6. ASSUME \/ \E u \in snd.put_ops : PutCompletion(u)
             \/ SchedulePut
             \/ \E u \in rcv.gets : GetCompletion(u)
             \/ \E u \in rcv.rdma_pending : RetryGet(u)
      PROVE  LoopLeft'
  BY Zenon, <1>1, <1>3, <1>6, CountingOK, TransfersKeepLoop
<1>7. ASSUME GetFrag \/ \E h \in net.first : ProgressRget(h) PROVE LoopLeft'
  BY Zenon, <1>7, CountingOK, GetFragLoopLeft, RgetLoopLeft
<1> QED BY ZenonT(60), <1>2, <1>4, <1>5, <1>6, <1>7 DEF Next

\* Both invariants always hold.
LEMMA AlwaysLoopLeft == Spec => [](IInv /\ LoopLeft)
<1>1. Init => LoopLeft
  <2> SUFFICES ASSUME Init PROVE LoopLeft
    OBVIOUS
  <2>1. rcv.get_offset = setup.size /\ setup.size \in Nat
    BY Zenon, SetupFacts DEF Init
  <2>2. ~(rcv.get_offset < setup.size)
    BY <2>1
  <2> QED BY Zenon, <2>2 DEF LoopLeft
<1> QED BY <1>1, InitIInv, StepIInv, StepLoopLeft, PTL DEF Spec

------------------------------------------------------------------------------
(* The theorems.                                                           *)

\* The places of a unit that was not abandoned are its spots; one that was
\* is in the first spot only.
LEMMA SpotsAndPlaces ==
  ASSUME IInv, NEW u \in Units
  PROVE  /\ DOMAIN Places = 1 .. 11
         /\ u \notin Abandoned => \A j \in 1 .. 11 : u \in Places[j] <=> u \in Spots[j]
         /\ u \in Abandoned => u \in Spots[1] /\ u \notin Places[1]
         /\ \A j \in 2 .. 11 : Places[j] = Spots[j]
<1>1. DOMAIN Places = 1 .. 11
  BY DEF Places
<1>2. \A j \in 2 .. 11 : Places[j] = Spots[j]
  <2>1. /\ Places[2] = Spots[2] /\ Places[3] = Spots[3] /\ Places[4] = Spots[4]
        /\ Places[5] = Spots[5] /\ Places[6] = Spots[6] /\ Places[7] = Spots[7]
    BY Zenon DEF Places, Spots
  <2>2. /\ Places[8] = Spots[8] /\ Places[9] = Spots[9] /\ Places[10] = Spots[10]
        /\ Places[11] = Spots[11]
    BY Zenon DEF Places, Spots
  <2>3. \A j \in 2 .. 11 : j \in {2, 3, 4, 5, 6, 7} \/ j \in {8, 9, 10, 11}
    OBVIOUS
  <2> SUFFICES ASSUME NEW j \in 2 .. 11 PROVE Places[j] = Spots[j]
    OBVIOUS
  <2>4. CASE j \in {2, 3, 4, 5, 6, 7}
    BY <2>1, <2>4
  <2>5. CASE j \in {8, 9, 10, 11}
    BY <2>2, <2>5
  <2> QED BY Zenon, <2>3, <2>4, <2>5
<1>3. /\ Places[1] = { v \in Units : rcv.getting /\ v >= rcv.get_offset }
      /\ Spots[1] = { v \in Units : v >= rcv.get_offset }
  BY DEF Places, Spots
<1>4. u \notin Abandoned => (u \in Places[1] <=> u \in Spots[1])
  BY Zenon, <1>3 DEF Abandoned
<1>5. u \in Abandoned => u \in Spots[1] /\ u \notin Places[1]
  BY Zenon, <1>3 DEF Abandoned
<1>6. \A j \in 1 .. 11 : j = 1 \/ j \in 2 .. 11
  OBVIOUS
<1> QED BY Zenon, <1>1, <1>2, <1>4, <1>5, <1>6

\* What follows from the invariants: every unit is in one place, or in none
\* when the loop of gets was left before it.
LEMMA InvUnits == IInv /\ LoopLeft => UnitsConserved
<1> SUFFICES ASSUME IInv, LoopLeft, rcv.matched PROVE UnitsConserved
  BY Zenon DEF UnitsConserved
<1>1. ASSUME NEW u \in Units
      PROVE  \E i \in 1 .. 11 : { j \in 1 .. 11 : u \in Spots[j] } = {i}
  BY Zenon, PlacesDomain DEF IInv, Conserved
<1>2. ASSUME NEW u \in Units, u \notin Abandoned
      PROVE  Cardinality({ j \in DOMAIN Places : u \in Places[j] }) = 1
  <2>1. { j \in DOMAIN Places : u \in Places[j] } = { j \in 1 .. 11 : u \in Spots[j] }
    BY Zenon, <1>2, SpotsAndPlaces
  <2>2. PICK i : { j \in DOMAIN Places : u \in Places[j] } = {i}
    BY Zenon, <1>1, <1>2, <2>1
  <2>3. Cardinality({i}) = 1
    BY FS_Singleton
  <2> QED BY Zenon, <2>2, <2>3
<1>3. ASSUME NEW u \in Abandoned
      PROVE  { j \in DOMAIN Places : u \in Places[j] } = {}
  <2>1. u \in Units
    BY Zenon DEF Abandoned
  <2>2. PICK i \in 1 .. 11 : { j \in 1 .. 11 : u \in Spots[j] } = {i}
    BY Zenon, <1>1, <2>1
  <2>3. 1 \in 1 .. 11 /\ \A j \in 1 .. 11 : j = 1 \/ j \in 2 .. 11
    OBVIOUS
  <2>4. u \in Spots[1] /\ u \notin Places[1]
    BY Zenon, <1>3, <2>1, SpotsAndPlaces
  <2>5. i = 1
    BY Zenon, <2>2, <2>3, <2>4
  <2>6. ASSUME NEW j \in 1 .. 11, u \in Places[j] PROVE FALSE
    <3>1. j \in 2 .. 11
      BY Zenon, <2>3, <2>4, <2>6
    <3>2. u \in Spots[j]
      BY Zenon, <2>1, <2>6, <3>1, SpotsAndPlaces
    <3>3. j = 1
      BY Zenon, <2>2, <2>5, <3>2
    <3> QED BY <3>1, <3>3
  <2>7. DOMAIN Places = 1 .. 11
    BY Zenon, <2>1, SpotsAndPlaces
  <2> QED BY Zenon, <2>6, <2>7
<1>4. ASSUME Abandoned # {} PROVE fails + 2 <= MaxFails
  <2>1. PICK u \in Units : ~rcv.getting /\ u >= rcv.get_offset
    BY Zenon, <1>4 DEF Abandoned
  <2>2. rcv.get_offset \in 0 .. setup.size /\ setup.size \in Nat
    BY Zenon, InvParts, SetupFacts DEF RcvType
  <2>3. rcv.get_offset < setup.size
    <3>1. PICK o \in 0 .. setup.size : o = rcv.get_offset
      BY Zenon, <2>2
    <3>2. \A v, c, n \in Nat : v \in 0 .. n - 1 /\ v >= c => c < n
      OBVIOUS
    <3>3. u \in Nat /\ o \in Nat /\ u \in 0 .. setup.size - 1
      BY <2>2 DEF Units
    <3> QED BY Zenon, <2>1, <2>2, <3>1, <3>2, <3>3
  <2> QED BY Zenon, <2>1, <2>3 DEF LoopLeft
<1> QED BY Zenon, <1>2, <1>3, <1>4 DEF UnitsConserved

\* A send request completes only when nothing is queued, being written or
\* being read from its buffer.
DataSent ==
  snd.complete =>
    /\ snd.ranges = {} /\ snd.put_ops = {} /\ rcv.gets = {} /\ snd.frag_lc = {}
    /\ snd.pending = "NONE"

\* A send that has completed has no unit left to be read from its buffer.
LEMMA InvSent == IInv => DataSent
<1> SUFFICES ASSUME IInv, snd.complete
             PROVE  /\ snd.ranges = {} /\ snd.put_ops = {} /\ rcv.gets = {} /\ snd.frag_lc = {}
                    /\ snd.pending = "NONE"
  BY Zenon DEF DataSent
<1>1. snd.frag_lc = {} /\ snd.pending = "NONE" /\ Units \subseteq Gone
  BY Zenon DEF IInv, SendDone
<1>2. CASE ~rcv.matched
  BY Zenon, <1>1, <1>2 DEF IInv, FirstOK, Idle
<1>3. CASE rcv.matched
  <2>1. net.first = {}
    BY Zenon, <1>3 DEF IInv, FirstOK
  <2>2. \A u \in Units : u \in Spots[10] \/ u \in Spots[11]
    BY Zenon, <1>1, <2>1, PlaceNames DEF Gone, FirstUnits
  <2>3. ASSUME NEW u \in Units, u \in Spots[6] \/ u \in Spots[7] \/ u \in Spots[8]
        PROVE  FALSE
    BY <1>3, <2>2, <2>3, InvParts, OnePlace
  <2>4. snd.ranges \subseteq Units /\ snd.put_ops \subseteq Units /\ rcv.gets \subseteq Units
    <3>1. snd.ranges \subseteq Units /\ snd.put_ops \subseteq Units
      BY Zenon, InvParts DEF SndType
    <3>2. rcv.gets \subseteq Units
      BY Zenon, InvParts DEF RcvType
    <3> QED BY Zenon, <3>1, <3>2
  <2> QED BY Zenon, <1>1, <2>3, <2>4, PlaceNames
<1> QED BY Zenon, <1>2, <1>3

\* The variables of the transfer keep their types: in particular no offset of
\* the receiver passes the end of the message and no count is negative.
THEOREM TypeCorrect == Spec => []TypeOK
<1>1. IInv => TypeOK
  BY Zenon DEF IInv
<1> QED BY <1>1, AlwaysIInv, PTL

\* Every unit of a message is in exactly one place, for messages of any
\* length, any protocol the buffers allow, and any number of failures that
\* are retried or fall back from get to put and from put to copies.  The
\* exception are the units the loop of gets abandons, which takes two
\* failures in one iteration.
THEOREM UnitsConservedAlways == Spec => []UnitsConserved
BY InvUnits, AlwaysLoopLeft, PTL

\* Both requests count bytes, but complete only when the data has moved: the
\* receive when its buffer holds all of the message, the send when no unit
\* is left in its buffer to be sent, written or read.
THEOREM DataMovedAlways == Spec => [](ReceivedAll /\ DataSent)
<1>1. IInv => ReceivedAll
  BY Zenon DEF IInv, RecvDone, ReceivedAll
<1> QED BY <1>1, InvSent, AlwaysIInv, PTL

\* No BTL has a btl_rndv_eager_limit of 0 where a header may have to wait
\* after the request was prepared for a get.
DataInHeader ==
  \A s \in Setups : s.limits.rndv = 0 => "start_send" \notin s.faults.failing

\* Both requests complete only when what they promise is true, the buffer of
\* the RNDV header included.
THEOREM CompleteMeansDoneAlways ==
  ASSUME DataInHeader
  PROVE  Spec => []CompleteMeansDone
<1>1. ASSUME IInv PROVE CompleteMeansDone
  <2>1. ReceivedAll
    BY Zenon, <1>1 DEF IInv, RecvDone, ReceivedAll
  <2>2. HeaderHasData
    BY Zenon, <1>1 DEF DataInHeader, HeaderHasData, RndvLimit, Failing, IInv
  <2>3. snd.complete => snd.lc = "NONE"
    BY Zenon, <1>1, <2>2 DEF IInv, SendDone
  <2> QED BY Zenon, <1>1, <2>1, <2>3, InvSent DEF CompleteMeansDone, SendBufferReusable, DataSent
<1>2. IInv => CompleteMeansDone
  BY <1>1
<1> QED BY <1>2, AlwaysIInv, PTL

==============================================================================
