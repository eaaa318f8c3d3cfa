------------------------- MODULE Ob1TransferReceiver -------------------------
(***************************************************************************)
(* The steps of the receive request keep the inductive invariant of        *)
(* Ob1Transfer.                                                            *)
(***************************************************************************)
EXTENDS Ob1TransferSender

(* The helpers of the receive request.                                     *)

\* recv_request_pml_complete_check only touches the lock and the completion.
LEMMA RcvCheck ==
  ASSUME NEW r \in RcvType, RcvLocked(r)
  PROVE  RcvControl(r, r_complete_check(r))
<1>1. r.lock \in Nat /\ r.complete \in BOOLEAN
  BY Zenon DEF RcvType
<1>2. CASE r.matched /\ r.received >= setup.size
  <2>1. PICK c \in BOOLEAN : c = (r.complete \/ r.lock = 0)
    BY Zenon, <1>1
  <2>2. PICK l \in Nat : l = r.lock + 1
    BY <1>1
  <2>3. PICK t : t = [r EXCEPT !.lock = l, !.complete = c]
    BY Zenon
  <2>4. r_complete_check(r) = t
    BY Zenon, <1>2, <2>1, <2>2, <2>3 DEF r_complete_check
  <2>5. t \in RcvType
    BY Zenon, <2>3 DEF RcvType
  <2>6. SameRcv(r, t) /\ t.loop = r.loop
    BY <2>3 DEF SameRcv
  <2>7. t.lock = l
    BY Zenon, <2>3 DEF RcvType
  <2>8. RcvLocked(t)
    BY <1>1, <2>2, <2>6, <2>7 DEF RcvLocked, SameRcv
  <2> QED BY Zenon, <1>2, <2>4, <2>5, <2>6, <2>8 DEF RcvControl
<1>3. CASE ~(r.matched /\ r.received >= setup.size)
  <2>1. r_complete_check(r) = r
    BY Zenon, <1>3 DEF r_complete_check
  <2> QED BY Zenon, <2>1 DEF RcvControl, SameRcv
<1> QED BY Zenon, <1>2, <1>3

\* The completion check, and if it fails the start of the scheduling loop.
LEMMA RcvCheckOrSchedule ==
  ASSUME NEW r \in RcvType, RcvLocked(r)
  PROVE  RcvControl(r, r_check_or_schedule(r))
<1>1. PICK t : t = r_complete_check(r)
  BY Zenon
<1>2. RcvControl(r, t)
  BY Zenon, <1>1, RcvCheck
<1>3. CASE ~(t.complete = r.complete /\ t.rdma_offset < t.send_offset)
  BY Zenon, <1>1, <1>2, <1>3 DEF r_check_or_schedule
<1>4. CASE t.complete = r.complete /\ t.rdma_offset < t.send_offset
  <2>1. t.lock \in Nat /\ t.loop \in {"NO", "IN", "OUT"}
    BY Zenon, <1>2 DEF RcvType, RcvControl
  <2>2. PICK l \in Nat : l = t.lock + 1
    BY <2>1
  <2>3. PICK o \in {"NO", "IN", "OUT"} : o = IF t.lock = 0 THEN "IN" ELSE t.loop
    BY <2>1
  <2>4. PICK v : v = [t EXCEPT !.lock = l, !.loop = o]
    BY Zenon
  <2>5. r_check_or_schedule(r) = v
    BY Zenon, <1>1, <1>4, <2>2, <2>3, <2>4 DEF r_check_or_schedule
  <2>6. v \in RcvType
    BY Zenon, <1>2, <2>4 DEF RcvType, RcvControl
  <2>7. SameRcv(t, v) /\ v.complete = t.complete
    BY <2>4 DEF SameRcv
  <2>8. v.lock = l /\ v.loop = o
    BY Zenon, <1>2, <2>4 DEF RcvType, RcvControl
  <2>9. RcvLocked(v)
    BY <1>2, <2>1, <2>2, <2>3, <2>7, <2>8 DEF RcvLocked, SameRcv, RcvControl
  <2>10. SameRcv(r, v)
    BY Zenon, <1>2, <2>7 DEF RcvControl, SameRcv
  <2> QED BY Zenon, <1>4, <2>5, <2>6, <2>7, <2>9, <2>10 DEF RcvControl
<1> QED BY Zenon, <1>3, <1>4

------------------------------------------------------------------------------
(* The counts of the receive request.                                      *)

\* The receiver counts by sets of units.
LEMMA CountTypes ==
  ASSUME setup \in Setups, rcv \in RcvType
  PROVE  setup.size \in Nat /\ rcv.got \subseteq Units
BY Zenon, SetupFacts DEF RcvType

\* A unit that came with a message is counted at once.
LEMMA CountOne ==
  ASSUME Counting, setup \in Setups, rcv \in RcvType, CountOK, NEW u, u \notin rcv.got,
         rcv'.got = rcv.got \cup {u}, rcv'.received = rcv.received + 1,
         net'.finr = net.finr, snd'.fin_pending = snd.fin_pending
  PROVE  CountOK'
<1>1. Announced' = Announced
  BY Zenon DEF Announced
<1>2. rcv'.got \ Announced' = (rcv.got \ Announced) \cup {u} /\ u \notin rcv.got \ Announced
  BY Zenon, <1>1 DEF CountOK
<1>3. Cardinality(rcv'.got \ Announced') = Cardinality(rcv.got \ Announced) + 1
  <2>1. rcv.got \ Announced \subseteq Units
    BY Zenon, CountTypes
  <2> QED BY Zenon, <1>2, <2>1, CountTypes, OneMore
<1> QED BY Zenon, <1>1, <1>3 DEF CountOK

\* A FIN is handled.
LEMMA CountFin ==
  ASSUME Counting, setup \in Setups, rcv \in RcvType, net \in NetType, snd \in SndType, CountOK,
         NEW f \in net.finr, net'.finr = net.finr \ {f}, snd'.fin_pending = snd.fin_pending,
         rcv'.got = rcv.got,
         f.ok => rcv'.received = rcv.received + 1,
         ~f.ok => rcv'.received = rcv.received
  PROVE  CountOK'
<1>1. CASE ~f.ok
  <2>1. Announced' = Announced
    BY Zenon, <1>1 DEF Announced
  <2> QED BY Zenon, <1>1, <2>1 DEF CountOK
<1>2. CASE f.ok
  <2>1. \A g \in net.finr \cup snd.fin_pending : g.ok /\ g.unit = f.unit => g = f
    <3> SUFFICES ASSUME NEW g \in net.finr \cup snd.fin_pending, g.ok, g.unit = f.unit
                 PROVE  g = f
      OBVIOUS
    <3>1. g \in [unit : Units, ok : BOOLEAN] /\ f \in [unit : Units, ok : BOOLEAN]
      BY Zenon DEF NetType, SndType
    <3> QED BY <1>2, <3>1
  <2>2. f \notin snd.fin_pending
    BY Zenon, <1>2 DEF CountOK
  <2>3. Announced' = Announced \ {f.unit} /\ f.unit \in Announced
    BY Zenon, <1>2, <2>1, <2>2 DEF Announced
  <2>4. rcv'.got \ Announced' = (rcv.got \ Announced) \cup {f.unit}
    BY Zenon, <2>3 DEF CountOK
  <2>5. Cardinality(rcv'.got \ Announced') = Cardinality(rcv.got \ Announced) + 1
    <3>1. rcv.got \ Announced \subseteq Units
      BY Zenon, CountTypes
    <3> QED BY Zenon, <2>3, <2>4, <3>1, CountTypes, OneMore
  <2> QED BY Zenon, <1>2, <2>3, <2>5 DEF CountOK
<1> QED BY Zenon, <1>1, <1>2

\* A fragment arrives.
LEMMA GoneArrived ==
  ASSUME GoneOK, Keeps, KeepsGets, NEW u \in net.frag,
         net'.frag = net.frag \ {u}, rcv'.got = rcv.got \cup {u},
         snd'.frag_lc = snd.frag_lc, net'.fins = net.fins, rcv'.fin_pending = rcv.fin_pending,
         snd'.delivered = snd.delivered, snd'.remaining = snd.remaining
  PROVE  GoneOK' /\ Gone' = Gone
<1>1. Gone' = Gone /\ Eager' = Eager
  BY Zenon DEF Gone, FirstUnits, Eager, Keeps
<1>2. Uncounted' = Uncounted
  BY Zenon, <1>1 DEF Uncounted
<1>3. ByGet' = ByGet /\ Getting' = Getting
  BY Zenon DEF ByGet, Getting, Keeps, KeepsGets
<1> QED BY Zenon, <1>1, <1>2, <1>3 DEF GoneOK, Keeps, KeepsGets

\* The FIN of a get that waited is sent.
LEMMA GoneFinSent ==
  ASSUME GoneOK, Keeps, KeepsGets, NEW u \in rcv.fin_pending,
         net'.fins = net.fins \cup {u}, rcv'.fin_pending = rcv.fin_pending \ {u},
         net'.frag = net.frag, rcv'.got = rcv.got, snd'.frag_lc = snd.frag_lc,
         snd'.delivered = snd.delivered, snd'.remaining = snd.remaining
  PROVE  GoneOK' /\ Gone' = Gone
<1>1. Gone' = Gone /\ Eager' = Eager
  BY Zenon DEF Gone, FirstUnits, Eager, Keeps
<1>2. net'.fins \cup rcv'.fin_pending = net.fins \cup rcv.fin_pending
  BY Zenon
<1>3. Uncounted' = Uncounted
  BY Zenon, <1>1, <1>2 DEF Uncounted
<1>4. ByGet' = ByGet /\ (Getting' => Getting)
  BY Zenon, <1>2 DEF ByGet, Getting, Keeps, KeepsGets
<1>5. /\ snd'.frag_lc \cap (net'.fins \cup rcv'.fin_pending \cup Eager') = {}
      /\ net'.fins \cap (rcv'.fin_pending \cup Eager') = {}
      /\ rcv'.fin_pending \cap Eager' = {}
  BY <1>1 DEF GoneOK
<1> QED BY Zenon, <1>1, <1>3, <1>4, <1>5 DEF GoneOK, Keeps, KeepsGets

------------------------------------------------------------------------------
(* The steps of the receive request.                                       *)

\* A step of the receive request inside or at the end of the loop.
LEMMA RcvLoop ==
  ASSUME Counting, IInv, ~Idle, setup' = setup, snd' = snd, net' = net, fails' \in 0 .. MaxFails,
         rcv' \in RcvType, RcvLocked(rcv'), SamePlan(rcv, rcv'), SameGets(rcv, rcv'),
         rcv'.got = rcv.got, rcv'.received = rcv.received,
         rcv'.ack_pending = rcv.ack_pending, rcv.ack_sent => rcv'.ack_sent,
         rcv'.complete /\ ~rcv.complete => rcv'.received >= setup.size
  PROVE  IInv'
<1>1. Keeps
  BY Zenon, NotIdle DEF Keeps, SamePlan
<1>2. KeepsTypes
  BY Zenon, InvParts DEF KeepsTypes
<1>3. Conserved' /\ Separate'
  BY Zenon, InvParts, SamePlaces DEF KeepsPlaces, SamePlan, SameGets
<1>4. CountOK'
  BY Zenon, InvParts, SameCount DEF KeepsCount
<1>5. KeepsGets
  BY Zenon DEF KeepsGets, SamePlan, SameGets
<1>6. GoneOK' /\ Gone' = Gone
  BY Zenon, <1>1, <1>5, InvParts, SameGone DEF KeepsGone, SameGets
<1>7. RndvOK'
  <2> SUFFICES ASSUME snd.lc = "RNDV" PROVE RndvOK'
    BY Zenon DEF RndvOK
  <2>1. HeaderHasData' = HeaderHasData
    BY Zenon DEF HeaderHasData, RndvLimit, Failing
  <2>2. AckDue' => AckDue
    BY Zenon, <1>1 DEF AckDue, Keeps
  <2> QED BY Zenon, <1>5, <2>1, <2>2, InvParts DEF RndvOK, KeepsGets
<1>8. Completions
  BY Zenon, <1>6, InvParts DEF Completions
<1> QED BY Zenon, <1>1, <1>2, <1>3, <1>4, <1>6, <1>7, <1>8, WorkStep

\* mca_pml_ob1_recv_request_schedule_once returns.
LEMMA PutEndStep == Counting /\ IInv /\ PutEnd => IInv'
<1> SUFFICES ASSUME Counting, IInv, PutEnd PROVE IInv'
  OBVIOUS
<1>1. /\ rcv.loop = "IN" /\ rcv' = [rcv EXCEPT !.loop = "OUT"]
      /\ setup' = setup /\ snd' = snd /\ net' = net /\ fails' = fails
  BY Zenon DEF PutEnd
<1>2. rcv' \in RcvType /\ rcv'.loop = "OUT"
  BY Zenon, <1>1, InvParts DEF RcvType
<1>3. /\ SamePlan(rcv, rcv') /\ SameGets(rcv, rcv') /\ SameAsked(rcv, rcv')
      /\ rcv'.got = rcv.got /\ rcv'.received = rcv.received
      /\ rcv'.pending = rcv.pending /\ rcv'.complete = rcv.complete /\ rcv'.lock = rcv.lock
  BY <1>1 DEF SamePlan, SameGets, SameAsked
<1>4. RcvLocked(rcv')
  BY <1>1, <1>2, <1>3, InvParts DEF RcvLocked
<1>5. ~Idle
  BY Zenon, <1>1 DEF Idle
<1> QED BY Zenon, <1>1, <1>2, <1>3, <1>4, <1>5, InvParts, RcvLoop DEF SameAsked

\* unlock_recv_request.
LEMMA PutUnlockStep == Counting /\ IInv /\ PutUnlock => IInv'
<1> SUFFICES ASSUME Counting, IInv, PutUnlock PROVE IInv'
  OBVIOUS
<1>1. /\ rcv.loop = "OUT" /\ rcv' = r_unlock(rcv)
      /\ setup' = setup /\ snd' = snd /\ net' = net /\ fails' = fails
  BY Zenon DEF PutUnlock
<1>2. ~Idle
  BY <1>1 DEF Idle
<1>3. rcv.lock \in Nat /\ rcv.lock > 0 /\ rcv.checks \in Nat /\ ~rcv.pending
  BY <1>1, InvParts DEF RcvType, RcvLocked
<1>4. CASE rcv.lock = 1
  <2>1. PICK k \in Nat : k = rcv.checks + 1
    BY <1>3
  <2>2. rcv' = [rcv EXCEPT !.lock = 0, !.loop = "NO", !.checks = k]
    BY Zenon, <1>1, <1>4, <2>1 DEF r_unlock
  <2>3. rcv' \in RcvType /\ rcv'.loop = "NO"
    BY Zenon, <2>2, InvParts DEF RcvType
  <2>4. /\ SamePlan(rcv, rcv') /\ SameGets(rcv, rcv') /\ SameAsked(rcv, rcv')
        /\ rcv'.got = rcv.got /\ rcv'.received = rcv.received
        /\ rcv'.pending = rcv.pending /\ rcv'.complete = rcv.complete
    BY <2>2 DEF SamePlan, SameGets, SameAsked
  <2>5. RcvLocked(rcv')
    BY Zenon, <1>3, <2>3, <2>4 DEF RcvLocked
  <2> QED BY Zenon, <1>1, <1>2, <2>3, <2>4, <2>5, InvParts, RcvLoop DEF SameAsked
<1>5. CASE rcv.lock # 1
  <2>1. PICK l \in Nat : l = rcv.lock - 1 /\ l > 0
    BY <1>3, <1>5
  <2>2. rcv' = [rcv EXCEPT !.lock = l, !.loop = "IN"]
    BY Zenon, <1>1, <1>5, <2>1 DEF r_unlock
  <2>3. rcv' \in RcvType /\ rcv'.lock = l
    BY Zenon, <2>2, InvParts DEF RcvType
  <2>4. /\ SamePlan(rcv, rcv') /\ SameGets(rcv, rcv') /\ SameAsked(rcv, rcv')
        /\ rcv'.got = rcv.got /\ rcv'.received = rcv.received
        /\ rcv'.pending = rcv.pending /\ rcv'.complete = rcv.complete
    BY <2>2 DEF SamePlan, SameGets, SameAsked
  <2>5. RcvLocked(rcv')
    BY Zenon, <1>3, <2>1, <2>3, <2>4 DEF RcvLocked
  <2> QED BY Zenon, <1>1, <1>2, <2>3, <2>4, <2>5, InvParts, RcvLoop DEF SameAsked
<1> QED BY Zenon, <1>4, <1>5

\* The completion check after the loop.
LEMMA PutCheckStep == Counting /\ IInv /\ PutCheck => IInv'
<1> SUFFICES ASSUME Counting, IInv, PutCheck PROVE IInv'
  OBVIOUS
<1>1. /\ rcv.checks > 0 /\ setup' = setup /\ snd' = snd /\ net' = net /\ fails' = fails
      /\ rcv' = r_complete_check([rcv EXCEPT !.checks = @ - 1])
  BY Zenon DEF PutCheck
<1>2. ~Idle
  BY <1>1 DEF Idle
<1>3. PICK k \in Nat : k = rcv.checks - 1
  BY <1>1, InvParts DEF RcvType
<1>4. PICK r : r = [rcv EXCEPT !.checks = k]
  BY Zenon
<1>5. r \in RcvType
  BY Zenon, <1>3, <1>4, InvParts DEF RcvType
<1>6. /\ SamePlan(rcv, r) /\ SameGets(rcv, r) /\ SameAsked(rcv, r) /\ SameLoop(rcv, r)
      /\ r.got = rcv.got /\ r.received = rcv.received
  BY <1>4 DEF SamePlan, SameGets, SameAsked, SameLoop
<1>7. RcvControl(r, rcv')
  BY Zenon, <1>1, <1>3, <1>4, <1>5, <1>6, InvParts, RcvCheck DEF RcvLocked, SameLoop
<1>8. /\ SamePlan(rcv, rcv') /\ SameGets(rcv, rcv') /\ SameAsked(rcv, rcv')
      /\ rcv'.got = rcv.got /\ rcv'.received = rcv.received
  BY Zenon, <1>6, <1>7 DEF RcvControl, SameRcv, SamePlan, SameGets, SameAsked
<1>9. rcv' \in RcvType /\ RcvLocked(rcv')
      /\ (rcv'.complete /\ ~rcv.complete => rcv'.received >= setup.size)
  BY Zenon, <1>6, <1>7 DEF RcvControl, SameRcv, SameLoop
<1> QED BY Zenon, <1>1, <1>2, <1>8, <1>9, InvParts, RcvLoop DEF SameAsked

\* mca_pml_ob1_recv_request_process_pending.
LEMMA RecvProcessPendingStep == Counting /\ IInv /\ RecvProcessPending => IInv'
<1> SUFFICES ASSUME Counting, IInv, RecvProcessPending PROVE IInv'
  OBVIOUS
<1>1. /\ rcv.pending /\ rcv' = [rcv EXCEPT !.pending = FALSE, !.loop = "IN"]
      /\ setup' = setup /\ snd' = snd /\ net' = net /\ fails' = fails
  BY Zenon DEF RecvProcessPending
<1>2. rcv' \in RcvType /\ rcv'.loop = "IN" /\ rcv'.pending = FALSE
  BY Zenon, <1>1, InvParts DEF RcvType
<1>3. /\ SamePlan(rcv, rcv') /\ SameGets(rcv, rcv') /\ SameAsked(rcv, rcv')
      /\ rcv'.got = rcv.got /\ rcv'.received = rcv.received
      /\ rcv'.complete = rcv.complete /\ rcv'.lock = rcv.lock
  BY <1>1 DEF SamePlan, SameGets, SameAsked
<1>4. RcvLocked(rcv')
  BY <1>1, <1>2, <1>3, InvParts DEF RcvLocked
<1>5. ~Idle
  BY Zenon, <1>1 DEF Idle
<1> QED BY Zenon, <1>1, <1>2, <1>3, <1>4, <1>5, InvParts, RcvLoop DEF SameAsked

\* An ACK or a PUT is sent, or an ACK waits.
AckGoes(a) == net'.ack = net.ack \cup {a}

AckWaits(units) == rcv'.ack_pending = rcv.ack_pending \cup {units}

PutGoes(p) == net'.put = net.put \cup {p}

\* The units that an ACK, a queued ACK or a PUT asks for.
LEMMA AskedPlaces ==
  ASSUME setup' = setup
  PROVE  /\ \A a : a.units \subseteq Units /\ AckGoes(a) => Spots'[3] = Spots[3] \cup a.units
         /\ \A units : units \subseteq Units /\ AckWaits(units) => Spots'[4] = Spots[4] \cup units
         /\ \A p : p.unit \in Units /\ PutGoes(p) => Spots'[5] = Spots[5] \cup {p.unit}
<1>1. Units' = Units
  BY Zenon DEF Units
<1>2. ASSUME NEW a, a.units \subseteq Units, AckGoes(a)
      PROVE  Spots'[3] = Spots[3] \cup a.units
  <2>1. \A u \in Units : (\E b \in net'.ack : u \in b.units)
                         <=> (\E b \in net.ack : u \in b.units) \/ u \in a.units
    BY Zenon, <1>2 DEF AckGoes
  <2> QED BY <1>1, <1>2, <2>1, PlaceNames, PlaceNamesNext
<1>3. ASSUME NEW units, units \subseteq Units, AckWaits(units)
      PROVE  Spots'[4] = Spots[4] \cup units
  <2>1. \A u \in Units : (\E b \in rcv'.ack_pending : u \in b)
                         <=> (\E b \in rcv.ack_pending : u \in b) \/ u \in units
    BY Zenon, <1>3 DEF AckWaits
  <2> QED BY <1>1, <1>3, <2>1, PlaceNames, PlaceNamesNext
<1>4. ASSUME NEW p, p.unit \in Units, PutGoes(p)
      PROVE  Spots'[5] = Spots[5] \cup {p.unit}
  <2>1. \A u \in Units : (\E q \in net'.put : u = q.unit)
                         <=> (\E q \in net.put : u = q.unit) \/ u = p.unit
    BY Zenon, <1>4 DEF PutGoes
  <2> QED BY <1>1, <1>4, <2>1, PlaceNames, PlaceNamesNext
<1> QED BY Zenon, <1>2, <1>3, <1>4

\* A unit that is asked for by a new message was asked for by no other.
LEMMA SeparateMore ==
  ASSUME Separate, net \in NetType, rcv \in RcvType,
         \/ net'.ack = net.ack
         \/ \E a : AckGoes(a) /\ a.units \cap Spots[3] = {},
         \/ rcv'.ack_pending = rcv.ack_pending
         \/ \E units : AckWaits(units) /\ units \cap Spots[4] = {},
         \/ net'.put = net.put
         \/ \E p : PutGoes(p) /\ p.unit \notin Spots[5]
  PROVE  Separate'
<1>1. \A a \in net.ack : a.units \subseteq Spots[3]
  <2>1. \A a \in net.ack : a.units \subseteq Units
    BY Zenon DEF NetType
  <2> QED BY Zenon, <2>1, PlaceNames
<1>2. \A units \in rcv.ack_pending : units \subseteq Spots[4]
  <2>1. \A units \in rcv.ack_pending : units \subseteq Units
    BY Zenon DEF RcvType
  <2> QED BY Zenon, <2>1, PlaceNames
<1>3. \A p \in net.put : p.unit \in Spots[5]
  <2>1. \A p \in net.put : p.unit \in Units
    BY Zenon DEF NetType
  <2> QED BY Zenon, <2>1, PlaceNames
<1>4. \A a, b \in net'.ack : a # b => a.units \cap b.units = {}
  <2>1. CASE net'.ack = net.ack
    BY Zenon, <2>1 DEF Separate
  <2>2. ASSUME NEW c, AckGoes(c), c.units \cap Spots[3] = {}
        PROVE  \A a, b \in net'.ack : a # b => a.units \cap b.units = {}
    <3>1. \A a \in net.ack : a.units \cap c.units = {} /\ c.units \cap a.units = {}
      BY Zenon, <1>1, <2>2
    <3>2. \A a \in net'.ack : a \in net.ack \/ a = c
      BY Zenon, <2>2 DEF AckGoes
    <3> QED BY Zenon, <3>1, <3>2 DEF Separate
  <2> QED BY Zenon, <2>1, <2>2
<1>5. \A a, b \in rcv'.ack_pending : a # b => a \cap b = {}
  <2>1. CASE rcv'.ack_pending = rcv.ack_pending
    BY Zenon, <2>1 DEF Separate
  <2>2. ASSUME NEW c, AckWaits(c), c \cap Spots[4] = {}
        PROVE  \A a, b \in rcv'.ack_pending : a # b => a \cap b = {}
    <3>1. \A a \in rcv.ack_pending : a \cap c = {} /\ c \cap a = {}
      BY Zenon, <1>2, <2>2
    <3>2. \A a \in rcv'.ack_pending : a \in rcv.ack_pending \/ a = c
      BY Zenon, <2>2 DEF AckWaits
    <3> QED BY Zenon, <3>1, <3>2 DEF Separate
  <2> QED BY Zenon, <2>1, <2>2
<1>6. \A p, q \in net'.put : p.unit = q.unit => p = q
  <2>1. CASE net'.put = net.put
    BY Zenon, <2>1 DEF Separate
  <2>2. ASSUME NEW c, PutGoes(c), c.unit \notin Spots[5]
        PROVE  \A p, q \in net'.put : p.unit = q.unit => p = q
    <3>1. \A p \in net.put : p.unit # c.unit
      BY Zenon, <1>3, <2>2
    <3>2. \A p \in net'.put : p \in net.put \/ p = c
      BY Zenon, <2>2 DEF PutGoes
    <3> QED BY Zenon, <3>1, <3>2 DEF Separate
  <2> QED BY Zenon, <2>1, <2>2
<1> QED BY Zenon, <1>4, <1>5, <1>6 DEF Separate

\* A unit that was to be read by a get goes elsewhere, but not to the buffer.
LEMMA GetMoves ==
  ASSUME Counting, IInv, ~Idle, KeepsTypes, setup' = setup, snd' = snd, snd.lc # "RNDV",
         NEW u, NEW i \in 1 .. 11, NEW j \in 1 .. 11, i # j, Move(i, j, {u}), Separate',
         net'.first = net.first, net'.frag = net.frag, net'.finr = net.finr,
         net'.fins = net.fins, rcv'.matched = rcv.matched, rcv'.got = rcv.got,
         rcv'.received = rcv.received, rcv'.fin_pending = rcv.fin_pending,
         rcv'.complete = rcv.complete,
         Getting, rcv'.getting => rcv'.get_offset < setup.size
  PROVE  IInv'
<1>1. Keeps
  BY Zenon, NotIdle DEF Keeps
<1>2. Conserved'
  BY Zenon, InvParts, Moves
<1>3. CountOK'
  BY Zenon, InvParts, SameCount DEF KeepsCount
<1>4. GoneOK' /\ Gone' = Gone
  <2>1. Gone' = Gone /\ Eager' = Eager
    BY Zenon DEF Gone, FirstUnits, Eager
  <2>2. Uncounted' = Uncounted
    BY Zenon, <2>1 DEF Uncounted
  <2>3. ByGet' = ByGet
    BY Zenon DEF ByGet
  <2> QED BY Zenon, <2>1, <2>2, <2>3, InvParts DEF GoneOK
<1>5. RndvOK'
  BY Zenon DEF RndvOK
<1>6. Completions
  BY Zenon, <1>4, InvParts DEF Completions
<1> QED BY Zenon, <1>1, <1>2, <1>3, <1>4, <1>5, <1>6, WorkStep

\* What sending an ACK leaves alone.
RcvButAck(r, t) ==
  /\ SamePlan(r, t) /\ SameGets(r, t) /\ SameLoop(r, t)
  /\ t.got = r.got /\ t.received = r.received /\ t.ack_sent = r.ack_sent

NetButAck(n, m) ==
  /\ m.first = n.first /\ m.put = n.put /\ m.frag = n.frag /\ m.finr = n.finr /\ m.fins = n.fins

\* An ACK is sent or waits.
Asks(r, n, a) ==
  /\ fails' \in 0 .. MaxFails /\ rcv' \in RcvType /\ net' \in NetType
  /\ RcvButAck(r, rcv') /\ NetButAck(n, net')
  /\ \/ net'.ack = n.ack \cup {a} /\ rcv'.ack_pending = r.ack_pending
     \/ net'.ack = n.ack /\ rcv'.ack_pending = r.ack_pending \cup {a.units}

\* mca_pml_ob1_recv_request_ack_send.
LEMMA AckSend ==
  ASSUME Counting, setup \in Setups, fails \in 0 .. MaxFails,
         NEW r \in RcvType, NEW n \in NetType,
         NEW a \in [units : SUBSET Units, nordma : BOOLEAN],
         NEW ops, IsFiniteSet(ops), ack_send(r, n, a, ops)
  PROVE  Asks(r, n, a)
<1>1. MaxFails \in Nat
  BY Zenon, SetupFacts
<1>2. ASSUME Lacking(ops), rcv' = r, net' = [n EXCEPT !.ack = @ \cup {a}]
      PROVE  Asks(r, n, a)
  <2>1. fails' \in 0 .. MaxFails
    BY Zenon, <1>1, <1>2, FailsLeft
  <2>2. net' \in NetType /\ net'.ack = n.ack \cup {a}
    BY Zenon, <1>2 DEF NetType
  <2>3. NetButAck(n, net')
    BY <1>2 DEF NetButAck
  <2> QED BY Zenon, <1>2, <2>1, <2>2, <2>3 DEF Asks, RcvButAck, SamePlan, SameGets, SameLoop
<1>3. ASSUME Lacking(ops \cup {"ack"}), net' = n,
             rcv' = [r EXCEPT !.ack_pending = @ \cup {a.units}]
      PROVE  Asks(r, n, a)
  <2>1. IsFiniteSet(ops \cup {"ack"})
    BY Zenon, AddCount
  <2>2. fails' \in 0 .. MaxFails
    BY Zenon, <1>1, <1>3, <2>1, FailsLeft
  <2>3. rcv' \in RcvType /\ rcv'.ack_pending = r.ack_pending \cup {a.units}
    BY Zenon, <1>3 DEF RcvType
  <2>4. RcvButAck(r, rcv')
    BY <1>3 DEF RcvButAck, SamePlan, SameGets, SameLoop
  <2> QED BY Zenon, <1>3, <2>2, <2>3, <2>4 DEF Asks, NetButAck
<1> QED BY Zenon, <1>2, <1>3 DEF ack_send

\* The request for a copy of one unit.
LEMMA Region ==
  ASSUME NEW u \in Units
  PROVE  /\ send_region(u) \in [units : SUBSET Units, nordma : BOOLEAN]
         /\ send_region(u).units = {u}
BY DEF send_region

\* A copy of a unit that was to be read by a get is asked for.
LEMMA GetAsks ==
  ASSUME Counting, IInv, ~Idle, KeepsTypes, setup' = setup, snd' = snd, snd.lc # "RNDV", rcv.matched,
         NEW u \in Units, NEW i \in {1, 8, 9}, u \in Spots[i], Spots'[i] = Spots[i] \ {u},
         \A k \in {1, 8, 9} : k # i => Spots'[k] = Spots[k],
         \/ AckGoes(send_region(u)) /\ rcv'.ack_pending = rcv.ack_pending
         \/ net'.ack = net.ack /\ AckWaits({u}),
         NetButAck(net, net'), rcv'.rdma_offset = rcv.rdma_offset,
         rcv'.send_offset = rcv.send_offset, rcv'.matched = rcv.matched, rcv'.got = rcv.got,
         rcv'.received = rcv.received, rcv'.fin_pending = rcv.fin_pending,
         rcv'.complete = rcv.complete,
         Getting, rcv'.getting => rcv'.get_offset < setup.size
  PROVE  IInv'
<1>1. u \notin Spots[3] /\ u \notin Spots[4]
  <2>1. i \in 1 .. 11 /\ i # 3 /\ i # 4
    OBVIOUS
  <2> QED BY <2>1, InvParts, OnePlace
<1>2. PICK a : a = send_region(u)
  BY Zenon
<1>3. a.units = {u} /\ {u} \subseteq Units
  BY Zenon, <1>2, Region
<1>4. Separate'
  <2>1. a.units \cap Spots[3] = {} /\ {u} \cap Spots[4] = {}
    BY Zenon, <1>1, <1>3
  <2> QED BY Zenon, <1>2, <2>1, InvParts, SeparateMore DEF NetButAck
<1>5. \/ Spots'[3] = Spots[3] \cup {u} /\ Spots'[4] = Spots[4]
      \/ Spots'[4] = Spots[4] \cup {u} /\ Spots'[3] = Spots[3]
  <2>1. CASE AckGoes(a) /\ rcv'.ack_pending = rcv.ack_pending
    <3>1. Spots'[3] = Spots[3] \cup a.units
      BY Zenon, <1>3, <2>1, AskedPlaces
    <3> QED BY Zenon, <1>3, <2>1, <3>1, SamePlace
  <2>2. CASE net'.ack = net.ack /\ AckWaits({u})
    BY Zenon, <1>3, <2>2, AskedPlaces, SamePlace
  <2> QED BY Zenon, <1>2, <2>1, <2>2
<1>6. PICK j \in {3, 4} : Move(i, j, {u})
  <2>1. \A k \in {2, 5, 6, 7, 10, 11} : Spots'[k] = Spots[k]
    BY SamePlace DEF NetButAck
  <2>2. Move(i, 3, {u}) \/ Move(i, 4, {u})
    BY <1>5, <2>1 DEF Move
  <2> QED BY <2>2
<1>7. i \in 1 .. 11 /\ j \in 1 .. 11 /\ i # j
  OBVIOUS
<1> QED BY Zenon, <1>4, <1>6, <1>7, GetMoves DEF NetButAck

\* A get is tried again.
LEMMA RetryGetStep ==
  ASSUME Counting, IInv, NEW u \in rcv.rdma_pending, RetryGet(u)
  PROVE  IInv'
<1>1. setup' = setup /\ snd' = snd
  BY Zenon DEF RetryGet
<1>2. ~Idle /\ u \in Units /\ Getting /\ snd.lc # "RNDV"
  BY Zenon, InvParts DEF Idle, RcvType, Getting, RndvOK
<1>3. rcv.matched
  BY Zenon, <1>2, NotIdle
<1>4. u \in Spots[9] /\ u \notin Spots[3] /\ u \notin Spots[4]
  <2>1. u \in Spots[9]
    BY Zenon, PlaceNames
  <2> QED BY <1>2, <1>3, <2>1, InvParts, OnePlace
<1>5. PICK r : r = [rcv EXCEPT !.rdma_pending = @ \ {u}]
  BY Zenon
<1>6. r \in RcvType /\ r.rdma_pending = rcv.rdma_pending \ {u}
  BY Zenon, <1>5, InvParts DEF RcvType
<1>7. /\ SamePlan(rcv, r) /\ SameAsked(rcv, r) /\ SameLoop(rcv, r) /\ r.got = rcv.got
      /\ r.received = rcv.received /\ r.fin_pending = rcv.fin_pending /\ r.gets = rcv.gets
  BY <1>5 DEF SamePlan, SameAsked, SameLoop
<1>8. ASSUME Lacking({}), rcv' = [r EXCEPT !.gets = @ \cup {u}], net' = net
      PROVE  IInv'
  <2>1. fails' \in 0 .. MaxFails
    BY Zenon, <1>8, InvParts, SetupFacts, EmptyCount, FailsLeft
  <2>2. rcv' \in RcvType /\ rcv'.gets = r.gets \cup {u}
    BY Zenon, <1>2, <1>6, <1>8 DEF RcvType
  <2>3. /\ SamePlan(r, rcv') /\ SameAsked(r, rcv') /\ SameLoop(r, rcv') /\ rcv'.got = r.got
        /\ rcv'.received = r.received /\ rcv'.fin_pending = r.fin_pending
        /\ rcv'.rdma_pending = r.rdma_pending
    BY <1>8 DEF SamePlan, SameAsked, SameLoop
  <2>4. /\ SamePlan(rcv, rcv') /\ SameAsked(rcv, rcv') /\ SameLoop(rcv, rcv') /\ rcv'.got = rcv.got
        /\ rcv'.received = rcv.received /\ rcv'.fin_pending = rcv.fin_pending
        /\ rcv'.rdma_pending = rcv.rdma_pending \ {u} /\ rcv'.gets = rcv.gets \cup {u}
    BY Zenon, <1>6, <1>7, <2>2, <2>3 DEF SamePlan, SameAsked, SameLoop
  <2>5. KeepsTypes
    BY Zenon, <1>1, <1>8, <2>1, <2>2, <2>4, InvParts DEF KeepsTypes, RcvLocked, SameLoop
  <2>6. Move(9, 8, {u})
    <3>1. {u} \subseteq Spots[9] /\ Spots'[9] = Spots[9] \ {u} /\ Spots'[8] = Spots[8] \cup {u}
      BY Zenon, <1>4, <2>4, PlaceNames, PlaceNamesNext
    <3> QED BY <1>1, <1>8, <2>4, <3>1, SamePlace DEF Move, SamePlan, SameAsked
  <2>7. Separate'
    BY Zenon, <1>8, <2>4, InvParts DEF Separate, SameAsked
  <2>8. rcv'.getting => rcv'.get_offset < setup.size
    BY Zenon, <2>4, InvParts DEF SamePlan, GoneOK
  <2>9. 9 \in 1 .. 11 /\ 8 \in 1 .. 11 /\ 9 # 8
    OBVIOUS
  <2> QED BY Zenon, <1>1, <1>2, <1>8, <2>4, <2>5, <2>6, <2>7, <2>8, <2>9, GetMoves DEF SamePlan, SameLoop
<1>9. ASSUME ack_send(r, net, send_region(u), {"get"})
      PROVE  IInv'
  <2>1. IsFiniteSet({"get"})
    BY Zenon, OneCount
  <2>2. PICK a : a = send_region(u)
    BY Zenon
  <2>3. a \in [units : SUBSET Units, nordma : BOOLEAN] /\ a.units = {u}
    BY Zenon, <1>2, <2>2, Region
  <2>4. Asks(r, net, a)
    BY Zenon, <1>6, <1>9, <2>1, <2>2, <2>3, InvParts, AckSend
  <2>5. /\ SamePlan(rcv, rcv') /\ SameLoop(rcv, rcv') /\ rcv'.got = rcv.got
        /\ rcv'.received = rcv.received /\ rcv'.fin_pending = rcv.fin_pending
        /\ rcv'.rdma_pending = rcv.rdma_pending \ {u} /\ rcv'.gets = rcv.gets
    BY Zenon, <1>6, <1>7, <2>4 DEF Asks, RcvButAck, SamePlan, SameGets, SameLoop
  <2>6. \/ AckGoes(a) /\ rcv'.ack_pending = rcv.ack_pending
        \/ net'.ack = net.ack /\ AckWaits({u})
    BY Zenon, <1>7, <2>3, <2>4 DEF Asks, SameAsked, AckGoes, AckWaits
  <2>7. NetButAck(net, net')
    BY Zenon, <2>4 DEF Asks
  <2>8. KeepsTypes
    BY Zenon, <1>1, <2>4, <2>5, InvParts DEF KeepsTypes, Asks, RcvLocked, SameLoop
  <2>9. Spots'[9] = Spots[9] \ {u} /\ Spots'[1] = Spots[1] /\ Spots'[8] = Spots[8]
    BY Zenon, <1>1, <2>5, PlaceNames, PlaceNamesNext, SamePlace DEF SamePlan
  <2>10. \A k \in {1, 8, 9} : k # 9 => Spots'[k] = Spots[k]
    BY <2>9
  <2>11. rcv'.getting => rcv'.get_offset < setup.size
    BY Zenon, <2>5, InvParts DEF SamePlan, GoneOK
  <2>12. 9 \in {1, 8, 9}
    OBVIOUS
  <2> QED BY Zenon, <1>1, <1>2, <1>3, <1>4, <2>2, <2>5, <2>6, <2>7, <2>8, <2>9, <2>10, <2>11, <2>12,
             GetAsks DEF SamePlan, SameLoop
<1> QED BY Zenon, <1>5, <1>8, <1>9 DEF RetryGet

\* One iteration of the loop of mca_pml_ob1_recv_request_progress_rget.
LEMMA GetFragStep == Counting /\ IInv /\ GetFrag => IInv'
<1> SUFFICES ASSUME Counting, IInv, GetFrag PROVE IInv'
  OBVIOUS
<1>1. setup' = setup /\ snd' = snd /\ rcv.getting
  BY Zenon DEF GetFrag
<1>2. ~Idle /\ Getting /\ snd.lc # "RNDV"
  BY Zenon, <1>1, InvParts DEF Idle, Getting, RndvOK
<1>3. rcv.matched
  BY Zenon, <1>2, NotIdle
<1>4. PICK u : u = rcv.get_offset
  BY Zenon
<1>5. u \in Units /\ u + 1 \in 0 .. setup.size /\ u \in Nat /\ setup.size \in Nat
  <2>1. rcv.get_offset \in 0 .. setup.size /\ rcv.get_offset < setup.size
    BY Zenon, <1>1, InvParts DEF RcvType, GoneOK
  <2>2. setup.size \in Nat
    BY Zenon, InvParts, GoneTypes
  <2> QED BY <1>4, <2>1, <2>2 DEF Units
<1>6. PICK o \in 0 .. setup.size : o = u + 1
  BY Zenon, <1>5
<1>7. PICK g \in BOOLEAN : g = more_gets(o)
  <2>1. more_gets(o) \in BOOLEAN
    BY <1>5, <1>6 DEF more_gets
  <2> QED BY Zenon, <2>1
<1>8. PICK r : r = [rcv EXCEPT !.get_offset = o, !.getting = g]
  BY Zenon
<1>9. r \in RcvType /\ r.get_offset = o /\ r.getting = g
  BY Zenon, <1>6, <1>7, <1>8, InvParts DEF RcvType
<1>10. /\ r.matched = rcv.matched /\ r.rdma_offset = rcv.rdma_offset /\ r.send_offset = rcv.send_offset
       /\ SameAsked(rcv, r) /\ SameLoop(rcv, r) /\ SameGets(rcv, r)
       /\ r.got = rcv.got /\ r.received = rcv.received
  BY <1>8 DEF SameAsked, SameLoop, SameGets
<1>11. g => o < setup.size
  BY Zenon, <1>7 DEF more_gets
<1>12. ASSUME rcv'.get_offset = o
       PROVE  u \in Spots[1] /\ Spots'[1] = Spots[1] \ {u}
  <2>1. Units' = Units
    BY Zenon, <1>1 DEF Units
  <2>2. \A v \in Units : (v >= o <=> v >= u /\ v # u) /\ u >= u
    BY <1>5, <1>6 DEF Units
  <2> QED BY <1>4, <1>5, <1>12, <2>1, <2>2, PlaceNames, PlaceNamesNext
<1>13. ASSUME Lacking({}), rcv' = [r EXCEPT !.gets = @ \cup {u}], net' = net
       PROVE  IInv'
  <2>1. fails' \in 0 .. MaxFails
    BY Zenon, <1>13, InvParts, SetupFacts, EmptyCount, FailsLeft
  <2>2. rcv' \in RcvType /\ rcv'.gets = r.gets \cup {u}
    BY Zenon, <1>5, <1>9, <1>13 DEF RcvType
  <2>3. /\ SamePlan(r, rcv') /\ SameAsked(r, rcv') /\ SameLoop(r, rcv') /\ rcv'.got = r.got
        /\ rcv'.received = r.received /\ rcv'.fin_pending = r.fin_pending
        /\ rcv'.rdma_pending = r.rdma_pending
    BY <1>13 DEF SamePlan, SameAsked, SameLoop
  <2>4. /\ rcv'.matched = rcv.matched /\ rcv'.rdma_offset = rcv.rdma_offset
        /\ rcv'.send_offset = rcv.send_offset /\ rcv'.get_offset = o /\ rcv'.getting = g
        /\ SameAsked(rcv, rcv') /\ SameLoop(rcv, rcv') /\ rcv'.got = rcv.got
        /\ rcv'.received = rcv.received /\ rcv'.fin_pending = rcv.fin_pending
        /\ rcv'.rdma_pending = rcv.rdma_pending /\ rcv'.gets = rcv.gets \cup {u}
    BY Zenon, <1>9, <1>10, <2>2, <2>3 DEF SamePlan, SameAsked, SameLoop, SameGets
  <2>5. KeepsTypes
    BY Zenon, <1>1, <1>13, <2>1, <2>2, <2>4, InvParts DEF KeepsTypes, RcvLocked, SameLoop
  <2>6. Move(1, 8, {u})
    <3>1. {u} \subseteq Spots[1] /\ Spots'[1] = Spots[1] \ {u} /\ Spots'[8] = Spots[8] \cup {u}
      BY Zenon, <1>12, <2>4, PlaceNames, PlaceNamesNext
    <3> QED BY <1>1, <1>13, <2>4, <3>1, SamePlace DEF Move, SameAsked
  <2>7. Separate'
    BY Zenon, <1>13, <2>4, InvParts DEF Separate, SameAsked
  <2>8. 1 \in 1 .. 11 /\ 8 \in 1 .. 11 /\ 1 # 8
    OBVIOUS
  <2> QED BY Zenon, <1>1, <1>2, <1>11, <1>13, <2>4, <2>5, <2>6, <2>7, <2>8, GetMoves DEF SameLoop
<1>14. ASSUME fails' \in 0 .. MaxFails, NEW h \in BOOLEAN, h => g,
              rcv' \in RcvType, net' \in NetType, rcv'.get_offset = o, rcv'.getting = h,
              rcv'.matched = rcv.matched, rcv'.rdma_offset = rcv.rdma_offset,
              rcv'.send_offset = rcv.send_offset, SameLoop(rcv, rcv'), SameGets(rcv, rcv'),
              rcv'.got = rcv.got, rcv'.received = rcv.received, NetButAck(net, net'),
              \/ AckGoes(send_region(u)) /\ rcv'.ack_pending = rcv.ack_pending
              \/ net'.ack = net.ack /\ AckWaits({u})
       PROVE  IInv'
  <2>1. KeepsTypes
    BY Zenon, <1>1, <1>14, InvParts DEF KeepsTypes, RcvLocked, SameLoop
  <2>2. u \in Spots[1] /\ Spots'[1] = Spots[1] \ {u}
    BY Zenon, <1>12, <1>14
  <2>3. Spots'[8] = Spots[8] /\ Spots'[9] = Spots[9]
    BY Zenon, <1>1, <1>14, SamePlace DEF SameGets
  <2>4. \A k \in {1, 8, 9} : k # 1 => Spots'[k] = Spots[k]
    BY <2>3
  <2>5. 1 \in {1, 8, 9}
    OBVIOUS
  <2> QED BY Zenon, <1>1, <1>2, <1>3, <1>5, <1>11, <1>14, <2>1, <2>2, <2>4, <2>5, GetAsks
          DEF SameLoop, SameGets
<1>15. ASSUME Lacking({"get"}), rcv' = r, net' = [net EXCEPT !.ack = @ \cup {send_region(u)}]
       PROVE  IInv'
  <2>1. fails' \in 0 .. MaxFails
    BY Zenon, <1>15, InvParts, SetupFacts, OneCount, FailsLeft
  <2>2. net' \in NetType /\ net'.ack = net.ack \cup {send_region(u)}
    <3>1. PICK a \in [units : SUBSET Units, nordma : BOOLEAN] : a = send_region(u)
      BY Zenon, <1>5, Region
    <3>2. net' = [net EXCEPT !.ack = @ \cup {a}]
      BY Zenon, <1>15, <3>1
    <3>3. net' \in NetType /\ net'.ack = net.ack \cup {a}
      BY Zenon, <3>1, <3>2, InvParts DEF NetType
    <3> QED BY Zenon, <3>1, <3>3
  <2>3. NetButAck(net, net')
    BY <1>15 DEF NetButAck
  <2> QED BY Zenon, <1>9, <1>10, <1>14, <1>15, <2>1, <2>2, <2>3 DEF AckGoes, SameAsked
<1>16. ASSUME Lacking({"get", "ack"}), net' = net,
              rcv' = [r EXCEPT !.ack_pending = @ \cup {{u}}, !.getting = FALSE]
       PROVE  IInv'
  <2>1. fails' \in 0 .. MaxFails
    <3>1. IsFiniteSet({"get"} \cup {"ack"}) /\ {"get"} \cup {"ack"} = {"get", "ack"}
      BY Zenon, OneCount, AddCount
    <3> QED BY Zenon, <1>16, <3>1, InvParts, SetupFacts, FailsLeft
  <2>2. /\ rcv' \in RcvType /\ rcv'.getting = FALSE
        /\ rcv'.ack_pending = r.ack_pending \cup {{u}}
    <3>1. PICK units \in SUBSET Units : units = {u}
      BY Zenon, <1>5
    <3>2. rcv' = [r EXCEPT !.ack_pending = @ \cup {units}, !.getting = FALSE]
      BY Zenon, <1>16, <3>1
    <3>3. rcv' \in RcvType /\ rcv'.getting = FALSE /\ rcv'.ack_pending = r.ack_pending \cup {units}
      BY Zenon, <1>9, <3>1, <3>2 DEF RcvType
    <3> QED BY Zenon, <3>1, <3>3
  <2>3. /\ rcv'.matched = r.matched /\ rcv'.rdma_offset = r.rdma_offset
        /\ rcv'.send_offset = r.send_offset /\ rcv'.get_offset = r.get_offset
        /\ SameLoop(r, rcv') /\ SameGets(r, rcv') /\ rcv'.got = r.got /\ rcv'.received = r.received
    BY <1>16 DEF SameLoop, SameGets
  <2>4. /\ rcv'.matched = rcv.matched /\ rcv'.rdma_offset = rcv.rdma_offset
        /\ rcv'.send_offset = rcv.send_offset /\ rcv'.get_offset = o
        /\ SameLoop(rcv, rcv') /\ SameGets(rcv, rcv') /\ rcv'.got = rcv.got
        /\ rcv'.received = rcv.received /\ AckWaits({u})
    BY Zenon, <1>9, <1>10, <2>2, <2>3 DEF SameLoop, SameGets, SameAsked, AckWaits
  <2>5. NetButAck(net, net') /\ net' \in NetType /\ net'.ack = net.ack
    BY Zenon, <1>16, InvParts DEF NetButAck
  <2> QED BY Zenon, <1>14, <2>1, <2>2, <2>4, <2>5
<1>17. r = [rcv EXCEPT !.get_offset = u + 1, !.getting = more_gets(u + 1)]
  BY Zenon, <1>6, <1>7, <1>8
<1> QED BY <1>4, <1>13, <1>15, <1>16, <1>17 DEF GetFrag

\* A get is done.
LEMMA GetDoneStep ==
  ASSUME Counting, IInv, NEW u \in rcv.gets, setup' = setup, snd' = snd,
         fails' \in 0 .. MaxFails, rcv' \in RcvType, net' \in NetType, RcvLocked(rcv'),
         SamePlan(rcv, rcv'), SameAsked(rcv, rcv'), rcv'.gets = rcv.gets \ {u},
         rcv'.rdma_pending = rcv.rdma_pending, rcv'.got = rcv.got \cup {u},
         rcv'.received = rcv.received + 1,
         rcv'.complete /\ ~rcv.complete => rcv'.received >= setup.size,
         net'.first = net.first, net'.ack = net.ack, net'.put = net.put,
         net'.frag = net.frag, net'.finr = net.finr,
         \/ net'.fins = net.fins \cup {u} /\ rcv'.fin_pending = rcv.fin_pending
         \/ net'.fins = net.fins /\ rcv'.fin_pending = rcv.fin_pending \cup {u}
  PROVE  IInv'
<1>1. ~Idle /\ u \in Units /\ Getting /\ snd.lc # "RNDV"
  BY Zenon, InvParts DEF Idle, RcvType, Getting, RndvOK
<1>2. rcv.matched /\ net.first = {}
  BY Zenon, <1>1, NotIdle
<1>3. u \in Spots[8] /\ u \notin rcv.got /\ u \notin net.frag
  <2>1. u \in Spots[8]
    BY Zenon, PlaceNames
  <2>2. u \notin Spots[10] /\ u \notin Spots[11]
    BY <1>1, <1>2, <2>1, InvParts, OnePlace
  <2> QED BY Zenon, <2>1, <2>2, PlaceNames
<1>4. Keeps
  BY Zenon, <1>1, NotIdle DEF Keeps, SamePlan
<1>5. KeepsTypes
  BY Zenon, InvParts DEF KeepsTypes
<1>6. Conserved'
  <2>1. /\ {u} \subseteq Spots[8] /\ Spots'[8] = Spots[8] \ {u}
        /\ Spots'[11] = Spots[11] \cup {u}
    BY Zenon, <1>3, PlaceNames, PlaceNamesNext
  <2>2. Move(8, 11, {u})
    BY <2>1, SamePlace DEF Move, SamePlan, SameAsked
  <2> QED BY <1>4, <2>2, InvParts, Moves DEF Keeps
<1>7. Separate'
  BY Zenon, InvParts DEF Separate, SameAsked
<1>8. CountOK'
  BY Zenon, <1>3, InvParts, CountOne
<1>9. GoneOK' /\ Gone \subseteq Gone'
  <2>1. u \notin Gone
    BY Zenon, <1>2, <1>3 DEF Gone, FirstUnits
  <2> QED BY Zenon, <1>1, <1>4, <2>1, InvParts, GoneLater DEF SamePlan
<1>10. RndvOK'
  BY Zenon, <1>1 DEF RndvOK
<1>11. Completions
  BY Zenon, <1>9, InvParts DEF Completions
<1> QED BY Zenon, <1>1, <1>4, <1>5, <1>6, <1>7, <1>8, <1>9, <1>10, <1>11, WorkStep

\* A get is not available: a put is asked for, or the fragment waits.
LEMMA PutForGetStep ==
  ASSUME Counting, IInv, NEW u \in rcv.gets, setup' = setup, snd' = snd,
         put_for_get([rcv EXCEPT !.gets = @ \ {u}], u)
  PROVE  IInv'
<1>1. ~Idle /\ u \in Units /\ Getting /\ snd.lc # "RNDV"
  BY Zenon, InvParts DEF Idle, RcvType, Getting, RndvOK
<1>2. rcv.matched
  BY Zenon, <1>1, NotIdle
<1>3. u \in Spots[8] /\ u \notin Spots[5]
  <2>1. u \in Spots[8]
    BY Zenon, PlaceNames
  <2> QED BY <1>1, <1>2, <2>1, InvParts, OnePlace
<1>4. PICK r : r = [rcv EXCEPT !.gets = @ \ {u}]
  BY Zenon
<1>5. r \in RcvType /\ r.gets = rcv.gets \ {u}
  BY Zenon, <1>4, InvParts DEF RcvType
<1>6. /\ SamePlan(rcv, r) /\ SameAsked(rcv, r) /\ SameLoop(rcv, r) /\ r.got = rcv.got
      /\ r.received = rcv.received /\ r.fin_pending = rcv.fin_pending
      /\ r.rdma_pending = rcv.rdma_pending
  BY <1>4 DEF SamePlan, SameAsked, SameLoop
<1>7. ASSUME rcv'.getting = rcv.getting, rcv'.get_offset = rcv.get_offset
      PROVE  rcv'.getting => rcv'.get_offset < setup.size
  BY Zenon, <1>7, InvParts DEF GoneOK
<1>8. ASSUME Lacking({}), rcv' = [r EXCEPT !.ack_sent = TRUE],
             net' = [net EXCEPT !.put = @ \cup {[unit |-> u, ack |-> ~r.ack_sent]}]
      PROVE  IInv'
  <2>1. fails' \in 0 .. MaxFails
    BY Zenon, <1>8, InvParts, SetupFacts, EmptyCount, FailsLeft
  <2>2. rcv' \in RcvType
    BY Zenon, <1>5, <1>8 DEF RcvType
  <2>3. /\ SamePlan(r, rcv') /\ rcv'.ack_pending = r.ack_pending /\ SameLoop(r, rcv')
        /\ SameGets(r, rcv') /\ rcv'.got = r.got /\ rcv'.received = r.received
    BY <1>8 DEF SamePlan, SameLoop, SameGets
  <2>4. /\ SamePlan(rcv, rcv') /\ rcv'.ack_pending = rcv.ack_pending /\ SameLoop(rcv, rcv')
        /\ rcv'.got = rcv.got /\ rcv'.received = rcv.received
        /\ rcv'.fin_pending = rcv.fin_pending
        /\ rcv'.rdma_pending = rcv.rdma_pending /\ rcv'.gets = rcv.gets \ {u}
    BY Zenon, <1>5, <1>6, <2>3 DEF SamePlan, SameAsked, SameLoop, SameGets
  <2>5. PICK p : p = [unit |-> u, ack |-> ~r.ack_sent]
    BY Zenon
  <2>6. p \in [unit : Units, ack : BOOLEAN] /\ p.unit = u
    BY <1>1, <2>5
  <2>7. net' \in NetType /\ PutGoes(p)
    <3>1. net' = [net EXCEPT !.put = @ \cup {p}]
      BY Zenon, <1>8, <2>5
    <3> QED BY Zenon, <2>6, <3>1, InvParts DEF NetType, PutGoes
  <2>8. /\ net'.first = net.first /\ net'.ack = net.ack /\ net'.frag = net.frag
        /\ net'.finr = net.finr /\ net'.fins = net.fins
    BY <1>8
  <2>9. KeepsTypes
    BY Zenon, <2>1, <2>2, <2>4, <2>7, InvParts DEF KeepsTypes, RcvLocked, SameLoop
  <2>10. Separate'
    BY Zenon, <1>3, <2>4, <2>6, <2>7, <2>8, InvParts, SeparateMore
  <2>11. Move(8, 5, {u})
    <3>1. {u} \subseteq Spots[8] /\ Spots'[8] = Spots[8] \ {u}
      BY Zenon, <1>3, <2>4, PlaceNames, PlaceNamesNext
    <3>2. Spots'[5] = Spots[5] \cup {u}
      BY Zenon, <1>1, <2>6, <2>7, AskedPlaces
    <3> QED BY <2>4, <2>8, <3>1, <3>2, SamePlace DEF Move, SamePlan
  <2>12. 8 \in 1 .. 11 /\ 5 \in 1 .. 11 /\ 8 # 5
    OBVIOUS
  <2> QED BY Zenon, <1>1, <1>7, <2>4, <2>8, <2>9, <2>10, <2>11, <2>12, GetMoves DEF SamePlan, SameLoop
<1>9. ASSUME fails' \in 0 .. MaxFails, NEW s \in BOOLEAN, net' = net,
             rcv' = [r EXCEPT !.rdma_pending = @ \cup {u}, !.ack_sent = s]
      PROVE  IInv'
  <2>1. rcv' \in RcvType /\ rcv'.rdma_pending = r.rdma_pending \cup {u}
    BY Zenon, <1>1, <1>5, <1>9 DEF RcvType
  <2>2. /\ SamePlan(r, rcv') /\ rcv'.ack_pending = r.ack_pending /\ SameLoop(r, rcv')
        /\ rcv'.gets = r.gets /\ rcv'.fin_pending = r.fin_pending
        /\ rcv'.got = r.got /\ rcv'.received = r.received
    BY <1>9 DEF SamePlan, SameLoop
  <2>3. /\ SamePlan(rcv, rcv') /\ rcv'.ack_pending = rcv.ack_pending /\ SameLoop(rcv, rcv')
        /\ rcv'.got = rcv.got /\ rcv'.received = rcv.received
        /\ rcv'.fin_pending = rcv.fin_pending
        /\ rcv'.rdma_pending = rcv.rdma_pending \cup {u} /\ rcv'.gets = rcv.gets \ {u}
    BY Zenon, <1>5, <1>6, <2>1, <2>2 DEF SamePlan, SameAsked, SameLoop
  <2>4. KeepsTypes
    BY Zenon, <1>9, <2>1, <2>3, InvParts DEF KeepsTypes, RcvLocked, SameLoop
  <2>5. Separate'
    BY Zenon, <1>9, <2>3, InvParts DEF Separate
  <2>6. Move(8, 9, {u})
    <3>1. {u} \subseteq Spots[8] /\ Spots'[8] = Spots[8] \ {u} /\ Spots'[9] = Spots[9] \cup {u}
      BY Zenon, <1>3, <2>3, PlaceNames, PlaceNamesNext
    <3> QED BY <1>9, <2>3, <3>1, SamePlace DEF Move, SamePlan
  <2>7. 8 \in 1 .. 11 /\ 9 \in 1 .. 11 /\ 8 # 9
    OBVIOUS
  <2> QED BY Zenon, <1>1, <1>7, <1>9, <2>3, <2>4, <2>5, <2>6, <2>7, GetMoves DEF SamePlan, SameLoop
<1>10. ASSUME Lacking({"put_alloc"}), net' = net, rcv' = [r EXCEPT !.rdma_pending = @ \cup {u}]
       PROVE  IInv'
  <2>1. fails' \in 0 .. MaxFails
    BY Zenon, <1>10, InvParts, SetupFacts, OneCount, FailsLeft
  <2>2. r.ack_sent \in BOOLEAN
    BY Zenon, <1>5 DEF RcvType
  <2>3. rcv' = [r EXCEPT !.rdma_pending = @ \cup {u}, !.ack_sent = r.ack_sent]
    BY Zenon, <1>5, <1>10 DEF RcvType
  <2> QED BY Zenon, <1>9, <1>10, <2>1, <2>2, <2>3
<1>11. ASSUME Lacking({"put_send"}), net' = net,
              rcv' = [r EXCEPT !.rdma_pending = @ \cup {u}, !.ack_sent = TRUE]
       PROVE  IInv'
  <2>1. fails' \in 0 .. MaxFails
    BY Zenon, <1>11, InvParts, SetupFacts, OneCount, FailsLeft
  <2> QED BY Zenon, <1>9, <1>11, <2>1
<1> QED BY Zenon, <1>4, <1>8, <1>10, <1>11 DEF put_for_get

\* A get of the receiver completes: its unit has arrived.
LEMMA GetCompletionStep ==
  ASSUME Counting, IInv, NEW u \in rcv.gets, GetCompletion(u)
  PROVE  IInv'
<1>1. setup' = setup /\ snd' = snd
  BY Zenon DEF GetCompletion
<1>2. ~Idle /\ u \in Units /\ Getting /\ snd.lc # "RNDV"
  BY Zenon, InvParts DEF Idle, RcvType, Getting, RndvOK
<1>3. rcv.matched
  BY Zenon, <1>2, NotIdle
<1>4. PICK r : r = [rcv EXCEPT !.gets = @ \ {u}]
  BY Zenon
<1>5. r \in RcvType /\ r.gets = rcv.gets \ {u}
  BY Zenon, <1>4, InvParts DEF RcvType
<1>6. /\ SamePlan(rcv, r) /\ SameAsked(rcv, r) /\ SameLoop(rcv, r) /\ r.got = rcv.got
      /\ r.received = rcv.received /\ r.fin_pending = rcv.fin_pending
      /\ r.rdma_pending = rcv.rdma_pending
  BY <1>4 DEF SamePlan, SameAsked, SameLoop
<1>7. PICK k \in Nat : k = r.received + 1
  BY <1>5 DEF RcvType
<1>8. PICK q : q = [r EXCEPT !.got = @ \cup {u}, !.received = k]
  BY Zenon
<1>9. q \in RcvType /\ q.got = rcv.got \cup {u} /\ q.received = rcv.received + 1
  BY Zenon, <1>2, <1>5, <1>6, <1>7, <1>8 DEF RcvType
<1>10. /\ SamePlan(r, q) /\ SameAsked(r, q) /\ SameLoop(r, q) /\ q.gets = r.gets
       /\ q.fin_pending = r.fin_pending /\ q.rdma_pending = r.rdma_pending
  BY <1>8 DEF SamePlan, SameAsked, SameLoop
<1>11. PICK done : done = r_complete_check(q)
  BY Zenon
<1>12. RcvControl(q, done)
  <2>1. RcvLocked(q)
    BY Zenon, <1>6, <1>10, InvParts DEF RcvLocked, SameLoop
  <2> QED BY Zenon, <1>9, <1>11, <2>1, RcvCheck
<1>13. /\ done \in RcvType /\ RcvLocked(done) /\ SamePlan(rcv, done) /\ SameAsked(rcv, done)
       /\ done.gets = rcv.gets \ {u} /\ done.rdma_pending = rcv.rdma_pending
       /\ done.got = rcv.got \cup {u} /\ done.received = rcv.received + 1
       /\ done.fin_pending = rcv.fin_pending
       /\ (done.complete /\ ~rcv.complete => done.received >= setup.size)
  <2>1. /\ SamePlan(rcv, done) /\ SameAsked(rcv, done)
    BY Zenon, <1>6, <1>10, <1>12 DEF RcvControl, SameRcv, SamePlan, SameAsked
  <2> QED BY Zenon, <1>5, <1>6, <1>9, <1>10, <1>12, <2>1 DEF RcvControl, SameRcv, SameLoop
<1>14. ASSUME Lacking({}), rcv' = done, net' = [net EXCEPT !.fins = @ \cup {u}]
       PROVE  IInv'
  <2>1. fails' \in 0 .. MaxFails
    BY Zenon, <1>14, InvParts, SetupFacts, EmptyCount, FailsLeft
  <2>2. net' \in NetType /\ net'.fins = net.fins \cup {u}
    BY Zenon, <1>2, <1>14, InvParts DEF NetType
  <2>3. /\ net'.first = net.first /\ net'.ack = net.ack /\ net'.put = net.put
        /\ net'.frag = net.frag /\ net'.finr = net.finr
    BY <1>14
  <2> QED BY Zenon, <1>1, <1>13, <1>14, <2>1, <2>2, <2>3, GetDoneStep
<1>15. ASSUME Lacking({"fin"}), rcv' = [done EXCEPT !.fin_pending = @ \cup {u}], net' = net
       PROVE  IInv'
  <2>1. fails' \in 0 .. MaxFails
    BY Zenon, <1>15, InvParts, SetupFacts, OneCount, FailsLeft
  <2>2. rcv' \in RcvType /\ rcv'.fin_pending = done.fin_pending \cup {u}
    BY Zenon, <1>2, <1>13, <1>15 DEF RcvType
  <2>3. /\ SamePlan(done, rcv') /\ SameAsked(done, rcv') /\ SameLoop(done, rcv')
        /\ rcv'.gets = done.gets /\ rcv'.rdma_pending = done.rdma_pending
        /\ rcv'.got = done.got /\ rcv'.received = done.received
    BY <1>15 DEF SamePlan, SameAsked, SameLoop
  <2>4. RcvLocked(rcv') /\ SamePlan(rcv, rcv') /\ SameAsked(rcv, rcv')
    BY Zenon, <1>13, <2>3 DEF RcvLocked, SamePlan, SameAsked, SameLoop
  <2>5. rcv'.complete /\ ~rcv.complete => rcv'.received >= setup.size
    BY Zenon, <1>13, <2>3 DEF SameLoop
  <2>6. /\ net' \in NetType /\ net'.first = net.first /\ net'.ack = net.ack /\ net'.put = net.put
        /\ net'.frag = net.frag /\ net'.finr = net.finr /\ net'.fins = net.fins
    BY Zenon, <1>15, InvParts
  <2> QED BY Zenon, <1>1, <1>13, <2>1, <2>2, <2>3, <2>4, <2>5, <2>6, GetDoneStep
<1>16. ASSUME Lacking({}), rcv' = r, net' = [net EXCEPT !.ack = @ \cup {send_region(u)}]
       PROVE  IInv'
  <2>1. fails' \in 0 .. MaxFails
    BY Zenon, <1>16, InvParts, SetupFacts, EmptyCount, FailsLeft
  <2>2. net' \in NetType /\ AckGoes(send_region(u))
    <3>1. PICK a \in [units : SUBSET Units, nordma : BOOLEAN] : a = send_region(u)
      BY Zenon, <1>2, Region
    <3>2. net' = [net EXCEPT !.ack = @ \cup {a}]
      BY Zenon, <1>16, <3>1
    <3>3. net' \in NetType /\ net'.ack = net.ack \cup {a}
      BY Zenon, <3>1, <3>2, InvParts DEF NetType
    <3> QED BY Zenon, <3>1, <3>3 DEF AckGoes
  <2>3. NetButAck(net, net')
    BY <1>16 DEF NetButAck
  <2>4. KeepsTypes
    BY Zenon, <1>1, <1>5, <1>6, <1>16, <2>1, <2>2, InvParts DEF KeepsTypes, RcvLocked, SameLoop
  <2>5. /\ u \in Spots[8] /\ Spots'[8] = Spots[8] \ {u}
        /\ Spots'[1] = Spots[1] /\ Spots'[9] = Spots[9]
    BY Zenon, <1>1, <1>5, <1>6, <1>16, PlaceNames, PlaceNamesNext, SamePlace DEF SamePlan
  <2>6. 8 \in {1, 8, 9} /\ \A i \in {1, 8, 9} : i # 8 => Spots'[i] = Spots[i]
    BY <2>5
  <2>7. rcv'.getting => rcv'.get_offset < setup.size
    BY Zenon, <1>6, <1>16, InvParts DEF SamePlan, GoneOK
  <2> QED BY Zenon, <1>1, <1>2, <1>3, <1>6, <1>16, <2>2, <2>3, <2>4, <2>5, <2>6, <2>7, GetAsks
          DEF SamePlan, SameAsked, SameLoop
<1>17. ASSUME put_for_get(r, u) PROVE IInv'
  BY Zenon, <1>1, <1>4, <1>17, PutForGetStep
<1>18. q = [r EXCEPT !.got = @ \cup {u}, !.received = @ + 1]
  BY Zenon, <1>7, <1>8
<1> QED BY Zenon, <1>4, <1>11, <1>14, <1>15, <1>16, <1>17, <1>18 DEF GetCompletion

\* A fragment arrives.
LEMMA ProgressFragStep ==
  ASSUME Counting, IInv, NEW u \in net.frag, ProgressFrag(u)
  PROVE  IInv'
<1>1. /\ setup' = setup /\ snd' = snd /\ fails' = fails
      /\ net' = [net EXCEPT !.frag = @ \ {u}]
  BY Zenon DEF ProgressFrag
<1>2. ~Idle /\ u \in Units
  BY Zenon, InvParts DEF Idle, NetType
<1>3. rcv.matched
  BY Zenon, <1>2, NotIdle
<1>4. net' \in NetType /\ net'.frag = net.frag \ {u}
  BY Zenon, <1>1, InvParts DEF NetType
<1>5. /\ net'.first = net.first /\ net'.ack = net.ack /\ net'.put = net.put
      /\ net'.finr = net.finr /\ net'.fins = net.fins
  BY <1>1
<1>6. PICK k \in Nat : k = rcv.received + 1
  BY InvParts DEF RcvType
<1>7. PICK q : q = [rcv EXCEPT !.got = @ \cup {u}, !.received = k]
  BY Zenon
<1>8. q \in RcvType /\ q.got = rcv.got \cup {u} /\ q.received = rcv.received + 1
  BY Zenon, <1>2, <1>6, <1>7, InvParts DEF RcvType
<1>9. SamePlan(rcv, q) /\ SameAsked(rcv, q) /\ SameLoop(rcv, q) /\ SameGets(rcv, q)
  BY <1>7 DEF SamePlan, SameAsked, SameLoop, SameGets
<1>10. RcvControl(q, rcv')
  <2>1. RcvLocked(q)
    BY Zenon, <1>9, InvParts DEF RcvLocked, SameLoop
  <2>2. rcv' = r_check_or_schedule(q)
    BY Zenon, <1>6, <1>7 DEF ProgressFrag
  <2> QED BY Zenon, <1>8, <2>1, <2>2, RcvCheckOrSchedule
<1>11. /\ rcv' \in RcvType /\ RcvLocked(rcv') /\ rcv'.got = rcv.got \cup {u}
       /\ rcv'.received = rcv.received + 1
       /\ (rcv'.complete /\ ~rcv.complete => rcv'.received >= setup.size)
  BY Zenon, <1>8, <1>9, <1>10 DEF RcvControl, SameRcv, SameLoop
<1>12. SamePlan(rcv, rcv') /\ SameAsked(rcv, rcv') /\ SameGets(rcv, rcv')
  BY Zenon, <1>9, <1>10 DEF RcvControl, SameRcv, SamePlan, SameAsked, SameGets
<1>13. u \notin rcv.got
  <2>1. u \in Spots[10]
    BY Zenon, PlaceNames
  <2>2. u \notin Spots[11]
    BY <1>2, <1>3, <2>1, InvParts, OnePlace
  <2> QED BY Zenon, <2>2, PlaceNames
<1>14. Keeps
  BY Zenon, <1>1, <1>2, <1>5, <1>12, NotIdle DEF Keeps, SamePlan
<1>15. KeepsTypes
  BY Zenon, <1>1, <1>4, <1>11, InvParts DEF KeepsTypes
<1>16. Conserved'
  <2>1. /\ {u} \subseteq Spots[10] /\ Spots'[10] = Spots[10] \ {u}
        /\ Spots'[11] = Spots[11] \cup {u}
    BY Zenon, <1>4, <1>11, PlaceNames, PlaceNamesNext
  <2>2. Move(10, 11, {u})
    BY <1>1, <1>5, <1>12, <2>1, SamePlace DEF Move, SamePlan, SameAsked, SameGets
  <2> QED BY <1>14, <2>2, InvParts, Moves DEF Keeps
<1>17. Separate'
  BY Zenon, <1>5, <1>12, InvParts DEF Separate, SameAsked
<1>18. CountOK'
  BY Zenon, <1>1, <1>5, <1>11, <1>13, InvParts, CountOne
<1>19. KeepsGets
  BY Zenon, <1>12 DEF KeepsGets, SamePlan, SameGets
<1>20. GoneOK' /\ Gone' = Gone
  BY Zenon, <1>1, <1>4, <1>5, <1>11, <1>12, <1>14, <1>19, InvParts, GoneArrived DEF SameGets
<1>21. RndvOK'
  BY Zenon, <1>1, <1>5, <1>12, <1>14, <1>19, InvParts, SameRndv DEF KeepsAcks, SameAsked
<1>22. Completions
  BY Zenon, <1>1, <1>11, <1>20, InvParts DEF Completions
<1> QED BY Zenon, <1>2, <1>14, <1>15, <1>16, <1>17, <1>18, <1>20, <1>21, <1>22, WorkStep

\* The FIN of a put.
LEMMA RecvFinPutStep ==
  ASSUME Counting, IInv, NEW f \in net.finr, RecvFinPut(f)
  PROVE  IInv'
<1>1. /\ setup' = setup /\ snd' = snd /\ fails' = fails
      /\ net' = [net EXCEPT !.finr = @ \ {f}]
  BY Zenon DEF RecvFinPut
<1>2. ~Idle
  BY Zenon DEF Idle
<1>3. net' \in NetType /\ net'.finr = net.finr \ {f}
  BY Zenon, <1>1, InvParts DEF NetType
<1>4. NetButFin(net, net')
  BY <1>1 DEF NetButFin
<1>5. PICK d \in Int : d = rcv.depth - 1
  BY InvParts DEF RcvType
<1>6. PICK r : r = [rcv EXCEPT !.depth = d]
  BY Zenon
<1>7. r \in RcvType
  BY Zenon, <1>5, <1>6, InvParts DEF RcvType
<1>8. /\ SamePlan(rcv, r) /\ SameAsked(rcv, r) /\ SameLoop(rcv, r) /\ SameGets(rcv, r)
      /\ r.got = rcv.got /\ r.received = rcv.received
  BY <1>6 DEF SamePlan, SameAsked, SameLoop, SameGets
<1>9. /\ rcv' \in RcvType /\ RcvLocked(rcv') /\ rcv'.got = rcv.got
      /\ (f.ok => rcv'.received = rcv.received + 1)
      /\ (~f.ok => rcv'.received = rcv.received)
      /\ (rcv'.complete /\ ~rcv.complete => rcv'.received >= setup.size)
      /\ SamePlan(rcv, rcv') /\ SameAsked(rcv, rcv') /\ SameGets(rcv, rcv')
  <2>1. CASE ~f.ok
    <3>1. rcv' = r
      BY Zenon, <1>5, <1>6, <2>1 DEF RecvFinPut
    <3> QED BY Zenon, <1>7, <1>8, <2>1, <3>1, InvParts DEF RcvLocked, SameLoop
  <2>2. CASE f.ok
    <3>1. PICK k \in Nat : k = r.received + 1
      BY <1>7 DEF RcvType
    <3>2. PICK q : q = [r EXCEPT !.received = k]
      BY Zenon
    <3>3. q \in RcvType /\ q.received = rcv.received + 1
      BY Zenon, <1>7, <1>8, <3>1, <3>2 DEF RcvType
    <3>4. /\ SamePlan(r, q) /\ SameAsked(r, q) /\ SameLoop(r, q) /\ SameGets(r, q) /\ q.got = r.got
      BY <3>2 DEF SamePlan, SameAsked, SameLoop, SameGets
    <3>5. RcvControl(q, rcv')
      <4>1. RcvLocked(q)
        BY Zenon, <1>8, <3>4, InvParts DEF RcvLocked, SameLoop
      <4>2. rcv' = r_check_or_schedule(q)
        BY Zenon, <1>5, <1>6, <2>2, <3>1, <3>2 DEF RecvFinPut
      <4> QED BY Zenon, <3>3, <4>1, <4>2, RcvCheckOrSchedule
    <3>6. SamePlan(rcv, rcv') /\ SameAsked(rcv, rcv') /\ SameGets(rcv, rcv')
      BY Zenon, <1>8, <3>4, <3>5 DEF RcvControl, SameRcv, SamePlan, SameAsked, SameGets
    <3> QED BY Zenon, <1>8, <2>2, <3>3, <3>4, <3>5, <3>6 DEF RcvControl, SameRcv, SameLoop
  <2> QED BY Zenon, <2>1, <2>2
<1>10. Keeps
  BY Zenon, <1>1, <1>2, <1>4, <1>9, NotIdle DEF Keeps, SamePlan, NetButFin
<1>11. KeepsTypes
  BY Zenon, <1>1, <1>3, <1>9, InvParts DEF KeepsTypes
<1>12. Conserved' /\ Separate'
  BY Zenon, <1>1, <1>4, <1>9, InvParts, SamePlaces
     DEF KeepsPlaces, SamePlan, SameAsked, SameGets, NetButFin
<1>13. CountOK'
  BY Zenon, <1>1, <1>3, <1>9, InvParts, CountFin
<1>14. KeepsGets
  BY Zenon, <1>9 DEF KeepsGets, SamePlan, SameGets
<1>15. GoneOK' /\ Gone' = Gone
  BY Zenon, <1>1, <1>4, <1>9, <1>10, <1>14, InvParts, SameGone DEF KeepsGone, SameGets, NetButFin
<1>16. RndvOK'
  BY Zenon, <1>1, <1>4, <1>9, <1>10, <1>14, InvParts, SameRndv DEF KeepsAcks, SameAsked, NetButFin
<1>17. Completions
  BY Zenon, <1>1, <1>9, <1>15, InvParts DEF Completions
<1> QED BY Zenon, <1>2, <1>10, <1>11, <1>12, <1>13, <1>15, <1>16, <1>17, WorkStep

\* The FIN of a get that waited is sent.
LEMMA RecvPendingFinStep ==
  ASSUME Counting, IInv, NEW u \in rcv.fin_pending, RecvPendingFin(u)
  PROVE  IInv'
<1>1. /\ rcv' = [rcv EXCEPT !.fin_pending = @ \ {u}] /\ net' = [net EXCEPT !.fins = @ \cup {u}]
      /\ setup' = setup /\ snd' = snd /\ fails' = fails
  BY Zenon DEF RecvPendingFin
<1>2. ~Idle /\ u \in Units
  BY Zenon, InvParts DEF Idle, RcvType
<1>3. rcv' \in RcvType /\ rcv'.fin_pending = rcv.fin_pending \ {u}
  BY Zenon, <1>1, InvParts DEF RcvType
<1>4. /\ SamePlan(rcv, rcv') /\ SameAsked(rcv, rcv') /\ SameLoop(rcv, rcv')
      /\ rcv'.gets = rcv.gets /\ rcv'.rdma_pending = rcv.rdma_pending
      /\ rcv'.got = rcv.got /\ rcv'.received = rcv.received
  BY <1>1 DEF SamePlan, SameAsked, SameLoop
<1>5. net' \in NetType /\ net'.fins = net.fins \cup {u}
  BY Zenon, <1>1, <1>2, InvParts DEF NetType
<1>6. /\ net'.first = net.first /\ net'.ack = net.ack /\ net'.put = net.put
      /\ net'.frag = net.frag /\ net'.finr = net.finr
  BY <1>1
<1>7. Keeps
  BY Zenon, <1>1, <1>2, <1>4, <1>6, NotIdle DEF Keeps, SamePlan
<1>8. KeepsTypes
  BY Zenon, <1>1, <1>3, <1>4, <1>5, InvParts DEF KeepsTypes, RcvLocked, SameLoop
<1>9. Conserved' /\ Separate'
  BY Zenon, <1>1, <1>4, <1>6, InvParts, SamePlaces DEF KeepsPlaces, SamePlan, SameAsked
<1>10. CountOK'
  BY Zenon, <1>1, <1>4, <1>6, InvParts, SameCount DEF KeepsCount
<1>11. KeepsGets
  BY Zenon, <1>4 DEF KeepsGets, SamePlan
<1>12. GoneOK' /\ Gone' = Gone
  BY Zenon, <1>1, <1>3, <1>4, <1>5, <1>6, <1>7, <1>11, InvParts, GoneFinSent
<1>13. RndvOK'
  BY Zenon, <1>1, <1>4, <1>6, <1>7, <1>11, InvParts, SameRndv DEF KeepsAcks, SameAsked
<1>14. Completions
  BY Zenon, <1>1, <1>4, <1>12, InvParts DEF Completions, SameLoop
<1> QED BY Zenon, <1>2, <1>7, <1>8, <1>9, <1>10, <1>12, <1>13, <1>14, WorkStep

\* An ACK that waited is sent, with whatever flag.
LEMMA RecvPendingAckStep ==
  ASSUME Counting, IInv, NEW units \in rcv.ack_pending, NEW nordma \in BOOLEAN,
         RecvPendingAck(units, nordma)
  PROVE  IInv'
<1>1. PICK a : a = [units |-> units, nordma |-> nordma]
  BY Zenon
<1>2. /\ rcv' = [rcv EXCEPT !.ack_pending = @ \ {units}]
      /\ net' = [net EXCEPT !.ack = @ \cup {a}]
      /\ setup' = setup /\ snd' = snd /\ fails' = fails
  BY Zenon, <1>1 DEF RecvPendingAck
<1>3. ~Idle /\ units \subseteq Units
  BY Zenon, InvParts DEF Idle, RcvType
<1>4. a \in [units : SUBSET Units, nordma : BOOLEAN] /\ a.units = units
  BY <1>1, <1>3
<1>5. rcv' \in RcvType /\ rcv'.ack_pending = rcv.ack_pending \ {units}
  BY Zenon, <1>2, InvParts DEF RcvType
<1>6. /\ SamePlan(rcv, rcv') /\ SameGets(rcv, rcv') /\ SameLoop(rcv, rcv')
      /\ rcv'.ack_sent = rcv.ack_sent /\ rcv'.got = rcv.got /\ rcv'.received = rcv.received
  BY <1>2 DEF SamePlan, SameGets, SameLoop
<1>7. net' \in NetType /\ AckGoes(a)
  BY Zenon, <1>2, <1>4, InvParts DEF NetType, AckGoes
<1>8. NetButAck(net, net')
  BY <1>2 DEF NetButAck
<1>9. rcv.matched /\ snd.lc # "MATCH"
  BY Zenon, <1>3, NotIdle
<1>10. Keeps
  BY Zenon, <1>2, <1>3, <1>6, <1>8, NotIdle DEF Keeps, SamePlan, NetButAck
<1>11. KeepsTypes
  BY Zenon, <1>2, <1>5, <1>6, <1>7, InvParts DEF KeepsTypes, RcvLocked, SameLoop
<1>12. units \subseteq Spots[4]
  BY Zenon, <1>3, PlaceNames
<1>13. Conserved'
  <2>1. Spots'[4] = Spots[4] \ units
    <3>1. \A u \in Units : (\E b \in rcv'.ack_pending : u \in b)
                           <=> (\E b \in rcv.ack_pending : u \in b) /\ u \notin units
      BY Zenon, <1>5, InvParts DEF Separate
    <3>2. Units' = Units
      BY Zenon, <1>2 DEF Units
    <3> QED BY <3>1, <3>2, PlaceNames, PlaceNamesNext
  <2>2. Spots'[3] = Spots[3] \cup units
    BY Zenon, <1>2, <1>3, <1>4, <1>7, AskedPlaces
  <2>3. Move(4, 3, units)
    BY <1>2, <1>6, <1>8, <1>12, <2>1, <2>2, SamePlace DEF Move, SamePlan, SameGets, NetButAck
  <2> QED BY <1>10, <2>3, InvParts, Moves DEF Keeps
<1>14. Separate'
  <2>1. \A u \in units : u \notin Spots[3]
    BY <1>3, <1>9, <1>12, InvParts, OnePlace
  <2>2. \A b \in net.ack : b.units \subseteq Spots[3]
    <3>1. \A b \in net.ack : b.units \subseteq Units
      BY Zenon, InvParts DEF NetType
    <3> QED BY Zenon, <3>1, PlaceNames
  <2>3. \A b \in net.ack : b.units \cap a.units = {} /\ a.units \cap b.units = {}
    BY Zenon, <1>4, <2>1, <2>2
  <2>4. \A b \in net'.ack : b \in net.ack \/ b = a
    BY Zenon, <1>7 DEF AckGoes
  <2>5. \A b, c \in net'.ack : b # c => b.units \cap c.units = {}
    BY Zenon, <2>3, <2>4, InvParts DEF Separate
  <2> QED BY Zenon, <1>5, <1>8, <2>5, InvParts DEF Separate, NetButAck
<1>15. CountOK'
  BY Zenon, <1>2, <1>6, <1>8, InvParts, SameCount DEF KeepsCount, NetButAck
<1>16. KeepsGets
  BY Zenon, <1>6 DEF KeepsGets, SamePlan, SameGets
<1>17. GoneOK' /\ Gone' = Gone
  BY Zenon, <1>2, <1>6, <1>8, <1>10, <1>16, InvParts, SameGone DEF KeepsGone, SameGets, NetButAck
<1>18. RndvOK'
  <2> SUFFICES ASSUME snd.lc = "RNDV" PROVE RndvOK'
    BY Zenon, <1>2 DEF RndvOK
  <2>1. rcv'.ack_pending = {} /\ net.ack = {} /\ rcv.ack_sent /\ \A p \in net.put : ~p.ack
    BY Zenon, <1>5, InvParts DEF RndvOK
  <2>2. \A b, c \in net'.ack : b = c
    BY Zenon, <1>7, <2>1 DEF AckGoes
  <2>3. HeaderHasData' = HeaderHasData
    BY Zenon, <1>2 DEF HeaderHasData, RndvLimit, Failing
  <2>4. AckDue
    BY Zenon DEF AckDue
  <2> QED BY Zenon, <1>2, <1>6, <1>8, <1>10, <1>16, <2>1, <2>2, <2>3, <2>4, InvParts
          DEF RndvOK, NetButAck, Keeps, KeepsGets
<1>19. Completions
  BY Zenon, <1>2, <1>6, <1>17, InvParts DEF Completions, SameLoop
<1> QED BY Zenon, <1>3, <1>10, <1>11, <1>13, <1>14, <1>15, <1>17, <1>18, <1>19, WorkStep

\* One iteration of the loop of mca_pml_ob1_recv_request_schedule_once.
LEMMA SchedulePutStep == Counting /\ IInv /\ SchedulePut => IInv'
<1> SUFFICES ASSUME Counting, IInv, SchedulePut PROVE IInv'
  OBVIOUS
<1>1. setup' = setup /\ snd' = snd /\ rcv.loop = "IN" /\ rcv.rdma_offset < rcv.send_offset
  BY Zenon DEF SchedulePut, r_may_put
<1>2. ~Idle
  BY Zenon, <1>1 DEF Idle
<1>3. rcv.matched /\ net.first = {}
  BY Zenon, <1>2, NotIdle
<1>4. ASSUME fails' \in 0 .. MaxFails, NEW s \in BOOLEAN, rcv.ack_sent => s, net' = net,
             rcv' = [rcv EXCEPT !.loop = "NO", !.pending = TRUE, !.ack_sent = s]
      PROVE  IInv'
  <2>1. rcv' \in RcvType /\ rcv'.loop = "NO" /\ rcv'.pending = TRUE /\ rcv'.ack_sent = s
    BY Zenon, <1>4, InvParts DEF RcvType
  <2>2. /\ SamePlan(rcv, rcv') /\ SameGets(rcv, rcv') /\ rcv'.got = rcv.got
        /\ rcv'.received = rcv.received /\ rcv'.ack_pending = rcv.ack_pending
        /\ rcv'.complete = rcv.complete /\ rcv'.lock = rcv.lock
    BY <1>4 DEF SamePlan, SameGets
  <2>3. RcvLocked(rcv')
    BY <1>1, <2>1, <2>2, InvParts DEF RcvLocked
  <2> QED BY Zenon, <1>1, <1>2, <1>4, <2>1, <2>2, <2>3, RcvLoop
<1>5. ASSUME Lacking({"put_alloc"}), net' = net, rcv' = [rcv EXCEPT !.loop = "NO", !.pending = TRUE]
      PROVE  IInv'
  <2>1. fails' \in 0 .. MaxFails
    BY Zenon, <1>5, InvParts, SetupFacts, OneCount, FailsLeft
  <2>2. rcv.ack_sent \in BOOLEAN
    BY Zenon, InvParts DEF RcvType
  <2>3. rcv' = [rcv EXCEPT !.loop = "NO", !.pending = TRUE, !.ack_sent = rcv.ack_sent]
    BY Zenon, <1>5, InvParts DEF RcvType
  <2> QED BY Zenon, <1>4, <1>5, <2>1, <2>2, <2>3
<1>6. ASSUME Lacking({"put_send"}), net' = net,
             rcv' = [rcv EXCEPT !.loop = "NO", !.pending = TRUE, !.ack_sent = TRUE]
      PROVE  IInv'
  <2>1. fails' \in 0 .. MaxFails
    BY Zenon, <1>6, InvParts, SetupFacts, OneCount, FailsLeft
  <2> QED BY Zenon, <1>4, <1>6, <2>1
<1>7. ASSUME Lacking({}), net' = [net EXCEPT !.put = @ \cup {put_hdr(rcv)}],
             rcv' = [rcv EXCEPT !.rdma_offset = @ + 1, !.depth = @ + 1, !.ack_sent = TRUE]
      PROVE  IInv'
  <2>1. fails' \in 0 .. MaxFails
    BY Zenon, <1>7, InvParts, SetupFacts, EmptyCount, FailsLeft
  <2>2. PICK u : u = rcv.rdma_offset
    BY Zenon
  <2>3. u \in Units /\ u \in Nat /\ u + 1 \in 0 .. setup.size /\ u < rcv.send_offset
    <3>1. rcv.rdma_offset \in 0 .. setup.size /\ rcv.send_offset \in 0 .. setup.size
      BY Zenon, InvParts DEF RcvType
    <3>2. setup.size \in Nat
      BY Zenon, InvParts, GoneTypes
    <3> QED BY <1>1, <2>2, <3>1, <3>2 DEF Units
  <2>4. PICK o \in 0 .. setup.size : o = u + 1
    BY Zenon, <2>3
  <2>5. PICK d \in Int : d = rcv.depth + 1
    BY InvParts DEF RcvType
  <2>6. rcv' = [rcv EXCEPT !.rdma_offset = o, !.depth = d, !.ack_sent = TRUE]
    BY Zenon, <1>7, <2>2, <2>4, <2>5
  <2>7. rcv' \in RcvType /\ rcv'.rdma_offset = o /\ rcv'.ack_sent = TRUE
    BY Zenon, <2>4, <2>5, <2>6, InvParts DEF RcvType
  <2>8. /\ rcv'.matched = rcv.matched /\ rcv'.get_offset = rcv.get_offset
        /\ rcv'.getting = rcv.getting /\ rcv'.send_offset = rcv.send_offset
        /\ rcv'.ack_pending = rcv.ack_pending /\ SameGets(rcv, rcv') /\ SameLoop(rcv, rcv')
        /\ rcv'.got = rcv.got /\ rcv'.received = rcv.received
    BY <2>6 DEF SameGets, SameLoop
  <2>9. PICK p : p = put_hdr(rcv)
    BY Zenon
  <2>10. p \in [unit : Units, ack : BOOLEAN] /\ p.unit = u /\ p.ack = ~rcv.ack_sent
    BY <2>2, <2>3, <2>9 DEF put_hdr
  <2>11. net' \in NetType /\ PutGoes(p)
    <3>1. net' = [net EXCEPT !.put = @ \cup {p}]
      BY Zenon, <1>7, <2>9
    <3> QED BY Zenon, <2>10, <3>1, InvParts DEF NetType, PutGoes
  <2>12. /\ net'.first = net.first /\ net'.ack = net.ack /\ net'.frag = net.frag
         /\ net'.finr = net.finr /\ net'.fins = net.fins
    BY <1>7
  <2>13. Keeps
    BY Zenon, <1>1, <1>2, <2>8, <2>12, NotIdle DEF Keeps
  <2>14. KeepsTypes
    BY Zenon, <1>1, <2>1, <2>7, <2>8, <2>11, InvParts DEF KeepsTypes, RcvLocked, SameLoop
  <2>15. u \in Spots[2] /\ Spots'[2] = Spots[2] \ {u}
    <3>1. Units' = Units
      BY Zenon, <1>1 DEF Units
    <3>2. \A v \in Units : (o <= v <=> u <= v /\ v # u) /\ u <= u
      BY <2>3, <2>4 DEF Units
    <3> QED BY Zenon, <1>1, <2>2, <2>3, <2>7, <2>8, <3>1, <3>2, PlaceNames, PlaceNamesNext
  <2>16. u \notin Spots[5]
    BY <1>3, <2>3, <2>15, InvParts, OnePlace
  <2>17. Conserved'
    <3>1. Spots'[5] = Spots[5] \cup {u}
      BY Zenon, <1>1, <2>3, <2>10, <2>11, AskedPlaces
    <3>2. Move(2, 5, {u})
      BY <1>1, <2>8, <2>12, <2>15, <3>1, SamePlace DEF Move, SameGets
    <3> QED BY <1>1, <2>8, <3>2, InvParts, Moves
  <2>18. Separate'
    BY Zenon, <2>8, <2>10, <2>11, <2>12, <2>16, InvParts, SeparateMore
  <2>19. CountOK'
    BY Zenon, <1>1, <2>8, <2>12, InvParts, SameCount DEF KeepsCount
  <2>20. KeepsGets
    BY Zenon, <2>8 DEF KeepsGets, SameGets
  <2>21. GoneOK' /\ Gone' = Gone
    BY Zenon, <1>1, <2>8, <2>12, <2>13, <2>20, InvParts, SameGone DEF KeepsGone, SameGets
  <2>22. RndvOK'
    <3> SUFFICES ASSUME snd.lc = "RNDV" PROVE RndvOK'
      BY Zenon, <1>1 DEF RndvOK
    <3>1. \A q \in net'.put : q \in net.put \/ q = p
      BY Zenon, <2>11 DEF PutGoes
    <3>2. HeaderHasData' = HeaderHasData
      BY Zenon, <1>1 DEF HeaderHasData, RndvLimit, Failing
    <3>3. AckDue' => AckDue
      BY Zenon, <1>3, <2>7, <2>8, <2>10, <2>12, <3>1 DEF AckDue
    <3>4. \A x, y \in net'.put : x.ack /\ y.ack => x = y
      BY Zenon, <2>10, <3>1, InvParts DEF RndvOK
    <3>5. net'.ack # {} \/ rcv'.ack_pending # {} => \A q \in net'.put : ~q.ack
      BY Zenon, <2>8, <2>10, <2>12, <3>1, InvParts DEF RndvOK
    <3>6. /\ snd.pending # "START" /\ \A h \in net.first : h.type = "RNDV"
          /\ rcv.gets = {} /\ rcv.rdma_pending = {} /\ ~rcv.getting
          /\ \A x, y \in net.ack : x = y
          /\ \A x, y \in rcv.ack_pending : x = y
          /\ net.ack # {} => rcv.ack_pending = {}
          /\ HeaderHasData /\ snd.eager = {} =>
               /\ ~snd.rdma_frag
               /\ snd.req_state \in {1, 2} /\ (AckDue => snd.req_state = 2)
      BY Zenon, InvParts DEF RndvOK
    <3>7. rcv'.gets = {} /\ rcv'.rdma_pending = {} /\ ~rcv'.getting
      BY Zenon, <2>20, <3>6 DEF KeepsGets
    <3>8. HeaderHasData' /\ snd'.eager = {} =>
            /\ ~snd'.rdma_frag
            /\ snd'.req_state \in {1, 2} /\ (AckDue' => snd'.req_state = 2)
      BY Zenon, <1>1, <3>2, <3>3, <3>6
    <3> QED BY ZenonT(60), <1>1, <2>7, <2>8, <2>12, <3>4, <3>5, <3>6, <3>7, <3>8 DEF RndvOK
  <2>23. Completions
    BY Zenon, <1>1, <2>8, <2>21, InvParts DEF Completions, SameLoop
  <2> QED BY Zenon, <1>2, <2>13, <2>14, <2>17, <2>18, <2>19, <2>21, <2>22, <2>23, WorkStep
<1> QED BY Zenon, <1>5, <1>6, <1>7 DEF SchedulePut

==============================================================================
