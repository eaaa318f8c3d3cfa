-------------------------- MODULE Ob1TransferSender --------------------------
(***************************************************************************)
(* The inductive invariant of Ob1Transfer, the parts of it that a step     *)
(* leaves alone and how a unit moves from one place to another; the steps  *)
(* of the send request, and the start of the message, keep it.             *)
(***************************************************************************)
EXTENDS Ob1Transfer, TLAPS

(* The types of the variables.                                             *)

SndType ==
  [req_state : Int, throttle : BOOLEAN, depth : Int, delivered : Nat,
   ranges : SUBSET Units, lock : Nat, loop : {"NO", "IN", "OUT"}, checks : Nat,
   pending : {"NONE", "START", "SCHEDULE"}, lc : {"NONE", "MATCH", "RNDV"},
   eager : SUBSET Units, frag_lc : SUBSET Units, put_ops : SUBSET Units,
   fin_pending : SUBSET [unit : Units, ok : BOOLEAN], rdma_frag : BOOLEAN,
   remaining : Int, complete : BOOLEAN]

RcvType ==
  [matched : BOOLEAN, send_offset : 0 .. setup.size, rdma_offset : 0 .. setup.size,
   received : Nat, ack_sent : BOOLEAN, depth : Int, lock : Nat,
   loop : {"NO", "IN", "OUT"}, checks : Nat, pending : BOOLEAN,
   get_offset : 0 .. setup.size, getting : BOOLEAN, gets : SUBSET Units,
   got : SUBSET Units, ack_pending : SUBSET (SUBSET Units),
   fin_pending : SUBSET Units, rdma_pending : SUBSET Units,
   complete : BOOLEAN]

NetType ==
  [first : SUBSET [type : {"MATCH", "RNDV", "RGET"}, units : SUBSET Units,
                   contig : BOOLEAN, pin : BOOLEAN],
   ack : SUBSET [units : SUBSET Units, nordma : BOOLEAN],
   put : SUBSET [unit : Units, ack : BOOLEAN],
   frag : SUBSET Units,
   finr : SUBSET [unit : Units, ok : BOOLEAN],
   fins : SUBSET Units]

\* TypeOK by the two requests and the messages between them.
LEMMA TypeParts ==
  TypeOK <=> fails \in 0 .. MaxFails /\ snd \in SndType /\ rcv \in RcvType /\ net \in NetType
BY Zenon DEF TypeOK, SndType, RcvType, NetType

------------------------------------------------------------------------------
(* The two requests in parts.                                              *)

\* Everything but who is inside the scheduling loop and the completion.
SameData(s, t) ==
  /\ t.req_state = s.req_state /\ t.throttle = s.throttle /\ t.depth = s.depth
  /\ t.delivered = s.delivered /\ t.ranges = s.ranges /\ t.checks = s.checks
  /\ t.pending = s.pending /\ t.lc = s.lc /\ t.eager = s.eager
  /\ t.frag_lc = s.frag_lc /\ t.put_ops = s.put_ops
  /\ t.fin_pending = s.fin_pending /\ t.rdma_frag = s.rdma_frag
  /\ t.remaining = s.remaining

\* And in parts.
SameControl(s, t) ==
  /\ t.lock = s.lock /\ t.loop = s.loop /\ t.checks = s.checks
  /\ t.pending = s.pending /\ t.complete = s.complete

SameUnits(s, t) ==
  /\ t.ranges = s.ranges /\ t.put_ops = s.put_ops
  /\ t.frag_lc = s.frag_lc /\ t.fin_pending = s.fin_pending

SameCounts(s, t) ==
  /\ t.delivered = s.delivered /\ t.remaining = s.remaining
  /\ t.lc = s.lc /\ t.eager = s.eager

\* A request inside the loop, or queued for it, is locked.
SndLocked(s) ==
  /\ s.loop # "NO" => s.pending # "SCHEDULE" /\ s.lock > 0
  /\ s.pending = "SCHEDULE" => s.lock > 0

\* What a helper may do to the request.
SndControl(s, t) ==
  /\ t \in SndType
  /\ SameData(s, t)
  /\ SndLocked(t)
  /\ s.complete => t.complete
  /\ t.complete /\ ~s.complete =>
       s.req_state = 0 /\ s.delivered >= setup.size /\ s.pending # "SCHEDULE"

SameRcv(r, t) ==
  /\ t.matched = r.matched /\ t.send_offset = r.send_offset
  /\ t.rdma_offset = r.rdma_offset /\ t.received = r.received
  /\ t.ack_sent = r.ack_sent /\ t.depth = r.depth /\ t.checks = r.checks
  /\ t.pending = r.pending /\ t.get_offset = r.get_offset /\ t.getting = r.getting
  /\ t.gets = r.gets /\ t.got = r.got /\ t.ack_pending = r.ack_pending
  /\ t.fin_pending = r.fin_pending /\ t.rdma_pending = r.rdma_pending

RcvLocked(r) ==
  /\ r.loop # "NO" => ~r.pending /\ r.lock > 0
  /\ r.pending => r.lock > 0

RcvControl(r, t) ==
  /\ t \in RcvType
  /\ SameRcv(r, t)
  /\ RcvLocked(t)
  /\ t.complete /\ ~r.complete => r.received >= setup.size

\* The receive request in parts.
SamePlan(r, t) ==
  /\ t.matched = r.matched /\ t.get_offset = r.get_offset /\ t.getting = r.getting
  /\ t.rdma_offset = r.rdma_offset /\ t.send_offset = r.send_offset

SameAsked(r, t) ==
  t.ack_sent = r.ack_sent /\ t.ack_pending = r.ack_pending

SameGets(r, t) ==
  t.gets = r.gets /\ t.rdma_pending = r.rdma_pending /\ t.fin_pending = r.fin_pending

SameLoop(r, t) ==
  t.lock = r.lock /\ t.loop = r.loop /\ t.pending = r.pending /\ t.complete = r.complete

NetButFin(n, m) ==
  /\ m.first = n.first /\ m.ack = n.ack /\ m.put = n.put /\ m.frag = n.frag /\ m.fins = n.fins

------------------------------------------------------------------------------
(* The inductive invariant.                                                *)

\* Nothing but the first header is under way.
Idle ==
  /\ net.ack = {} /\ net.put = {} /\ net.frag = {} /\ net.finr = {} /\ net.fins = {}
  /\ rcv.ack_pending = {} /\ rcv.gets = {} /\ rcv.rdma_pending = {}
  /\ rcv.fin_pending = {} /\ ~rcv.getting
  /\ rcv.get_offset = setup.size /\ rcv.rdma_offset = 0 /\ rcv.send_offset = 0
  /\ rcv.loop = "NO" /\ ~rcv.pending /\ rcv.checks = 0
  /\ snd.ranges = {} /\ snd.put_ops = {} /\ snd.frag_lc = {} /\ snd.fin_pending = {}
  /\ snd.loop = "NO" /\ snd.checks = 0 /\ snd.pending # "SCHEDULE"

HeaderOK(h) ==
  \/ h.type = "MATCH" /\ h.units = Units
  \/ h.type = "RNDV" /\ \E n \in 0 .. setup.size : h.units = 0 .. n - 1
  \/ h.type = "RGET" /\ h.units = {} /\ setup.size > 0

FirstUnits == UNION { h.units : h \in net.first }

\* The first header is under way until the receiver has matched it, and
\* until then nothing else is.  A request with a fragment of a get was
\* prepared for one.
FirstOK ==
  /\ ~rcv.matched => Idle /\ rcv.got = {} /\ rcv.received = 0 /\ ~rcv.complete
  /\ rcv.matched => net.first = {}
  /\ \A g, h \in net.first : g = h
  /\ \A h \in net.first : HeaderOK(h)
  /\ snd.pending = "START" =>
       /\ ~rcv.matched /\ net.first = {} /\ snd.lc = "NONE"
       /\ snd.delivered = 0 /\ ~snd.complete
       /\ snd.remaining \in {0, setup.size}
       /\ snd.rdma_frag => "start_send" \in Failing /\ setup.get /\ setup.size > EagerLimit

\* After a MATCH header nothing else is sent.
MatchOK ==
  snd.lc = "MATCH" =>
    /\ Idle /\ snd.pending = "NONE"
    /\ \A h \in net.first : h.type = "MATCH"
    /\ Units \subseteq rcv.got \cup FirstUnits

\* The places of the units, with those the loop of gets has abandoned counted
\* as if it would still come to them: this is what every step conserves.
Spots ==
  << { u \in Units : u >= rcv.get_offset },
     { u \in Units : rcv.rdma_offset <= u /\ u < rcv.send_offset },
     { u \in Units : \E a \in net.ack : u \in a.units },
     { u \in Units : \E units \in rcv.ack_pending : u \in units },
     { u \in Units : \E p \in net.put : u = p.unit },
     snd.ranges, snd.put_ops, rcv.gets, rcv.rdma_pending, net.frag, rcv.got >>

\* Every unit is in one place, in one message of its kind.
Conserved ==
  rcv.matched =>
    \A u \in Units : \E i \in DOMAIN Spots :
      { j \in DOMAIN Spots : u \in Spots[j] } = {i}

Separate ==
  /\ \A a, b \in net.ack : a # b => a.units \cap b.units = {}
  /\ \A a, b \in rcv.ack_pending : a # b => a \cap b = {}
  /\ \A p, q \in net.put : p.unit = q.unit => p = q

\* The units of the puts that the receiver has not been told of.
Announced == { f.unit : f \in { g \in net.finr \cup snd.fin_pending : g.ok } }

\* The receiver has counted every other unit it has.
CountOK ==
  /\ rcv.received = Cardinality(rcv.got \ Announced)
  /\ Announced \subseteq rcv.got
  /\ \A f \in snd.fin_pending : f.ok => f \notin net.finr

\* A receive request that is complete has all units.
RecvDone == rcv.complete => rcv.got = Units

\* What has left the sender, and what of it the sender has not counted yet.
Gone == rcv.got \cup net.frag \cup FirstUnits

Eager == IF snd.lc = "RNDV" THEN snd.eager ELSE {}

Uncounted == snd.frag_lc \cup net.fins \cup rcv.fin_pending \cup Eager

\* The gets that are counted only when all of them are done.
ByGet == IF snd.remaining = 0 THEN 0 ELSE setup.size - snd.remaining

Getting ==
  \/ net.fins # {} \/ rcv.fin_pending # {} \/ rcv.gets # {} \/ rcv.rdma_pending # {}
  \/ rcv.getting \/ \E h \in net.first : h.type = "RGET"

\* The sender counts no unit before it is gone, and no unit twice.
GoneOK ==
  /\ snd.delivered + ByGet <= Cardinality(Gone \ Uncounted)
  /\ Uncounted \subseteq Gone
  /\ snd.frag_lc \cap (net.fins \cup rcv.fin_pending \cup Eager) = {}
  /\ net.fins \cap (rcv.fin_pending \cup Eager) = {}
  /\ rcv.fin_pending \cap Eager = {}
  /\ snd.remaining \in 0 .. setup.size
  /\ Getting => snd.remaining > 0
  /\ rcv.getting => rcv.get_offset < setup.size
  /\ snd.lc = "RNDV" => \E n \in 0 .. setup.size : snd.eager = 0 .. n - 1

\* A first fragment without data is not sent after the header of a get: it
\* is acknowledged by a PUT as the header of the get would be.
HeaderHasData == RndvLimit = 0 => "start_send" \notin Failing

AckDue ==
  \/ ~rcv.matched \/ ~rcv.ack_sent \/ net.ack # {} \/ rcv.ack_pending # {}
  \/ \E p \in net.put : p.ack

\* A RNDV header is acknowledged at most once, so a request whose header has
\* not left the buffer expects one event more than the receiver owes.
RndvOK ==
  snd.lc = "RNDV" =>
    /\ \A h \in net.first : h.type = "RNDV"
    /\ snd.pending # "START"
    /\ rcv.gets = {} /\ rcv.rdma_pending = {} /\ ~rcv.getting
    /\ ~rcv.ack_sent => net.ack = {} /\ rcv.ack_pending = {} /\ \A p \in net.put : ~p.ack
    /\ \A a, b \in net.ack : a = b
    /\ \A a, b \in rcv.ack_pending : a = b
    /\ \A p, q \in net.put : p.ack /\ q.ack => p = q
    /\ net.ack # {} => rcv.ack_pending = {}
    /\ net.ack # {} \/ rcv.ack_pending # {} => \A p \in net.put : ~p.ack
    /\ HeaderHasData /\ snd.eager = {} =>
         /\ ~snd.rdma_frag
         /\ snd.req_state \in {1, 2} /\ (AckDue => snd.req_state = 2)

\* A send request that is complete has nothing left to send.
SendDone ==
  snd.complete =>
    /\ snd.pending = "NONE" /\ snd.frag_lc = {} /\ Units \subseteq Gone
    /\ HeaderHasData => snd.lc = "NONE"

IInv ==
  /\ setup \in Setups /\ TypeOK
  /\ SndLocked(snd) /\ RcvLocked(rcv)
  /\ FirstOK /\ MatchOK /\ Conserved /\ Separate
  /\ CountOK /\ RecvDone /\ GoneOK /\ RndvOK /\ SendDone

------------------------------------------------------------------------------
(* Facts used below.                                                       *)

\* The setup of the message.
LEMMA SetupFacts ==
  ASSUME setup \in Setups
  PROVE  /\ setup.size \in Nat /\ MaxFails \in Nat
         /\ EagerLimit \in Nat /\ RndvLimit \in Nat /\ SendLength \in Nat
         /\ RndvLimit <= EagerLimit
         /\ setup.pipeline => setup.size > EagerLimit + SendLength
         /\ setup.s_pinned \subseteq BOOLEAN /\ setup.r_pinned \subseteq BOOLEAN
         /\ setup.get \in BOOLEAN
<1>1. SetupType(setup)
  BY Zenon, TransferAssumption
<1>2. setup.limits \in [eager : Nat, rndv : Nat, send_length : Nat]
  BY Zenon, <1>1 DEF SetupType
<1>3. EagerLimit \in Nat /\ RndvLimit \in Nat /\ SendLength \in Nat
  BY Zenon, <1>2 DEF EagerLimit, RndvLimit, SendLength
<1> QED BY Zenon, <1>1, <1>3 DEF SetupType, EagerLimit, RndvLimit, SendLength, MaxFails

\* What the proofs use of finite sets, as one formula: the modules of the
\* steps take it as a hypothesis instead of the library of theorems, and
\* Ob1TransferProofs derives it from FiniteSetTheorems (CountingOK).
Counting ==
  /\ IsFiniteSet({}) /\ Cardinality({}) = 0
  /\ \A S : IsFiniteSet(S) => Cardinality(S) \in Nat
  /\ \A S, x : IsFiniteSet(S) =>
       /\ IsFiniteSet(S \cup {x})
       /\ x \notin S => Cardinality(S \cup {x}) = Cardinality(S) + 1
  /\ \A S, T : IsFiniteSet(S) /\ T \subseteq S =>
       /\ IsFiniteSet(T) /\ Cardinality(T) <= Cardinality(S)
       /\ Cardinality(S) = Cardinality(T) => S = T
  /\ \A S, T : IsFiniteSet(S) /\ IsFiniteSet(T) =>
       Cardinality(S \cup T) = Cardinality(S) + Cardinality(T) - Cardinality(S \cap T)
  /\ \A a \in Int, b \in Int :
       /\ IsFiniteSet(a .. b)
       /\ Cardinality(a .. b) = IF a > b THEN 0 ELSE b - a + 1

\* Its parts.
LEMMA EmptyCount ==
  ASSUME Counting
  PROVE  IsFiniteSet({}) /\ Cardinality({}) = 0
BY Zenon DEF Counting

\* The cardinality of a finite set is a natural.
LEMMA TypeCount ==
  ASSUME Counting, NEW S, IsFiniteSet(S)
  PROVE  Cardinality(S) \in Nat
BY Zenon DEF Counting

\* One more element.
LEMMA AddCount ==
  ASSUME Counting, NEW S, NEW x, IsFiniteSet(S)
  PROVE  /\ IsFiniteSet(S \cup {x})
         /\ x \notin S => Cardinality(S \cup {x}) = Cardinality(S) + 1
BY Zenon DEF Counting

\* A set of one element is finite.
LEMMA OneCount ==
  ASSUME Counting, NEW x
  PROVE  IsFiniteSet({x})
<1>1. {x} = {} \cup {x}
  BY Zenon
<1> QED BY Zenon, <1>1, EmptyCount, AddCount

\* A subset is not larger, and is smaller if it is another set.
LEMMA SubsetCount ==
  ASSUME Counting, NEW S, NEW T, IsFiniteSet(S), T \subseteq S
  PROVE  /\ IsFiniteSet(T) /\ Cardinality(T) <= Cardinality(S)
         /\ Cardinality(S) = Cardinality(T) => S = T
BY Zenon DEF Counting

\* The cardinality of a union.
LEMMA UnionCount ==
  ASSUME Counting, NEW S, NEW T, IsFiniteSet(S), IsFiniteSet(T)
  PROVE  Cardinality(S \cup T) = Cardinality(S) + Cardinality(T) - Cardinality(S \cap T)
BY Zenon DEF Counting

\* The cardinality of an interval.
LEMMA IntervalCount ==
  ASSUME Counting, NEW a \in Int, NEW b \in Int
  PROVE  /\ IsFiniteSet(a .. b)
         /\ Cardinality(a .. b) = IF a > b THEN 0 ELSE b - a + 1
BY Zenon DEF Counting

\* The units are as many as the length.
LEMMA UnitsFinite ==
  ASSUME Counting, setup.size \in Nat
  PROVE  /\ IsFiniteSet(Units) /\ Cardinality(Units) = setup.size
         /\ \A n \in 0 .. setup.size :
              /\ 0 .. n - 1 \subseteq Units
              /\ IsFiniteSet(0 .. n - 1) /\ Cardinality(0 .. n - 1) = n
<1>1. ASSUME NEW n \in 0 .. setup.size
      PROVE  /\ 0 .. n - 1 \subseteq Units
             /\ IsFiniteSet(0 .. n - 1) /\ Cardinality(0 .. n - 1) = n
  <2>1. 0 .. n - 1 \subseteq Units
    BY DEF Units
  <2>2. n \in Int /\ 0 \in Int /\ n - 1 \in Int
    OBVIOUS
  <2>3. IsFiniteSet(0 .. n - 1)
    BY <2>2, IntervalCount
  <2>4. Cardinality(0 .. n - 1) = IF 0 > n - 1 THEN 0 ELSE (n - 1) - 0 + 1
    BY <2>2, IntervalCount
  <2>5. Cardinality(0 .. n - 1) = n
    BY <2>2, <2>4
  <2> QED BY <2>1, <2>3, <2>5
<1> QED BY <1>1 DEF Units

\* A set of all units.
LEMMA AllUnits ==
  ASSUME Counting, setup.size \in Nat, NEW S, S \subseteq Units
  PROVE  /\ IsFiniteSet(S) /\ Cardinality(S) \in Nat /\ Cardinality(S) <= setup.size
         /\ Cardinality(S) >= setup.size => S = Units
<1>1. IsFiniteSet(Units) /\ Cardinality(Units) = setup.size
  BY UnitsFinite
<1>2. /\ IsFiniteSet(S) /\ Cardinality(S) <= Cardinality(Units)
      /\ Cardinality(Units) = Cardinality(S) => S = Units
  BY <1>1, SubsetCount
<1>3. Cardinality(S) \in Nat
  BY <1>2, TypeCount
<1> QED BY <1>1, <1>2, <1>3

\* One unit more.
LEMMA OneMore ==
  ASSUME Counting, setup.size \in Nat, NEW S, S \subseteq Units, NEW u, u \notin S
  PROVE  Cardinality(S \cup {u}) = Cardinality(S) + 1 /\ Cardinality(S) \in Nat
<1>1. IsFiniteSet(S) /\ Cardinality(S) \in Nat
  BY AllUnits
<1> QED BY Zenon, <1>1, AddCount

\* The number of failures that are left.
LEMMA FailsLeft ==
  ASSUME Counting, MaxFails \in Nat, fails \in 0 .. MaxFails, NEW ops, IsFiniteSet(ops), Lacking(ops)
  PROVE  fails' \in 0 .. MaxFails
<1>1. Cardinality(ops) \in Nat
  BY TypeCount
<1> QED BY <1>1 DEF Lacking

\* The invariant in a state.
LEMMA InvParts ==
  ASSUME IInv
  PROVE  /\ snd \in SndType /\ rcv \in RcvType /\ net \in NetType /\ fails \in 0 .. MaxFails
         /\ Conserved /\ Separate /\ CountOK /\ GoneOK /\ RndvOK
         /\ SndLocked(snd) /\ RcvLocked(rcv)
         /\ setup \in Setups
         /\ snd.complete => snd.pending = "NONE" /\ snd.frag_lc = {}
BY Zenon, TypeParts DEF IInv, SendDone

------------------------------------------------------------------------------
(* What a step leaves alone.  An operator of this section is about what a  *)
(* part of the invariant depends on.                                       *)

Keeps ==
  /\ setup' = setup /\ net'.first = net.first /\ rcv'.matched = rcv.matched
  /\ snd'.lc = snd.lc /\ snd'.eager = snd.eager
  /\ snd'.pending # "START"

KeepsTypes ==
  /\ fails' \in 0 .. MaxFails /\ snd' \in SndType /\ rcv' \in RcvType /\ net' \in NetType
  /\ SndLocked(snd') /\ RcvLocked(rcv')

KeepsPlaces ==
  /\ rcv'.get_offset = rcv.get_offset
  /\ rcv'.rdma_offset = rcv.rdma_offset /\ rcv'.send_offset = rcv.send_offset
  /\ net'.ack = net.ack /\ rcv'.ack_pending = rcv.ack_pending /\ net'.put = net.put
  /\ snd'.ranges = snd.ranges /\ snd'.put_ops = snd.put_ops
  /\ rcv'.gets = rcv.gets /\ rcv'.rdma_pending = rcv.rdma_pending
  /\ net'.frag = net.frag /\ rcv'.got = rcv.got

KeepsCount ==
  /\ rcv'.received = rcv.received /\ rcv'.got = rcv.got
  /\ net'.finr = net.finr /\ snd'.fin_pending = snd.fin_pending

KeepsGone ==
  /\ rcv'.got = rcv.got /\ net'.frag = net.frag
  /\ snd'.frag_lc = snd.frag_lc /\ net'.fins = net.fins
  /\ rcv'.fin_pending = rcv.fin_pending
  /\ snd'.delivered = snd.delivered /\ snd'.remaining = snd.remaining

KeepsGets ==
  /\ rcv'.gets = rcv.gets /\ rcv'.rdma_pending = rcv.rdma_pending
  /\ rcv'.getting = rcv.getting /\ rcv'.get_offset = rcv.get_offset

KeepsAcks ==
  /\ rcv'.ack_sent = rcv.ack_sent /\ net'.ack = net.ack
  /\ rcv'.ack_pending = rcv.ack_pending /\ net'.put = net.put
  /\ snd'.rdma_frag => snd.rdma_frag
  /\ snd'.req_state = snd.req_state

\* A request completes when its count says so.
Completions ==
  /\ rcv'.complete /\ ~rcv.complete => rcv'.received >= setup.size
  /\ rcv.got \subseteq rcv'.got
  /\ snd'.complete /\ ~snd.complete =>
       snd'.req_state = 0 /\ snd'.delivered >= setup.size /\ snd'.pending # "SCHEDULE"
  /\ snd.complete => snd'.pending = "NONE" /\ snd'.frag_lc = {}
  /\ Gone \subseteq Gone'

\* The units stay where they are.
LEMMA SamePlaces ==
  ASSUME setup' = setup, rcv'.matched = rcv.matched, KeepsPlaces, Conserved, Separate
  PROVE  Conserved' /\ Separate'
<1>1. Units' = Units
  BY Zenon DEF Units
<1>2. Spots' = Spots
  BY Zenon, <1>1 DEF Spots, KeepsPlaces
<1>3. Conserved'
  BY ZenonT(60), <1>1, <1>2 DEF Conserved
<1>4. Separate'
  BY Zenon DEF Separate, KeepsPlaces
<1> QED BY <1>3, <1>4

\* A step that receives nothing keeps the receiver's count.
LEMMA SameCount ==
  ASSUME KeepsCount, CountOK
  PROVE  CountOK'
<1>1. Announced' = Announced
  BY Zenon DEF Announced, KeepsCount
<1> QED BY Zenon, <1>1 DEF CountOK, KeepsCount

\* A step after which the same units are gone keeps the sender's count.
LEMMA SameGone ==
  ASSUME Keeps, KeepsGone, KeepsGets, GoneOK
  PROVE  GoneOK' /\ Gone' = Gone
<1>1. Gone' = Gone /\ Eager' = Eager
  BY Zenon DEF Gone, FirstUnits, Eager, Keeps, KeepsGone
<1>2. Uncounted' = Uncounted
  BY Zenon, <1>1 DEF Uncounted, KeepsGone
<1>3. ByGet' = ByGet /\ Getting' = Getting
  BY Zenon DEF ByGet, Getting, Keeps, KeepsGone, KeepsGets
<1> QED BY Zenon, <1>1, <1>2, <1>3 DEF GoneOK, Keeps, KeepsGone, KeepsGets

\* A step without acknowledgements keeps the state of the rendezvous.
LEMMA SameRndv ==
  ASSUME Keeps, KeepsAcks, KeepsGets, RndvOK
  PROVE  RndvOK'
<1>1. HeaderHasData' = HeaderHasData
  BY Zenon DEF HeaderHasData, RndvLimit, Failing, Keeps
<1>2. AckDue' = AckDue
  BY Zenon DEF AckDue, Keeps, KeepsAcks
<1> QED BY ZenonT(60), <1>1, <1>2 DEF RndvOK, Keeps, KeepsAcks, KeepsGets

\* The types with the same setup.
LEMMA SameTypes ==
  ASSUME setup' = setup, KeepsTypes
  PROVE  TypeOK'
<1>1. Units' = Units /\ MaxFails' = MaxFails
  BY Zenon DEF Units, MaxFails
<1>2. SndType' = SndType /\ RcvType' = RcvType /\ NetType' = NetType
  BY Zenon, <1>1 DEF SndType, RcvType, NetType
<1>3. fails' \in 0 .. MaxFails' /\ snd' \in SndType' /\ rcv' \in RcvType' /\ net' \in NetType'
  BY Zenon, <1>1, <1>2 DEF KeepsTypes
<1> QED BY Zenon, <1>3 DEF TypeOK, SndType, RcvType, NetType

\* When a request completes, its count is the number of units.
LEMMA CompletionsOK ==
  ASSUME Counting, IInv, setup' = setup, KeepsTypes, CountOK', GoneOK', RndvOK', Completions,
         snd'.lc # "MATCH", snd'.pending # "START", snd'.lc = snd.lc \/ snd'.lc = "NONE"
  PROVE  RecvDone' /\ SendDone'
<1>1. Units' = Units /\ setup.size \in Nat /\ HeaderHasData' = HeaderHasData
  BY SetupFacts DEF Units, HeaderHasData, RndvLimit, Failing, IInv
<1>2. /\ rcv'.got \subseteq Units /\ net'.frag \subseteq Units /\ snd'.frag_lc \subseteq Units
      /\ rcv.got \subseteq Units
      /\ \A h \in net'.first : h.units \subseteq Units
  <2>1. rcv' \in RcvType /\ net' \in NetType /\ snd' \in SndType /\ rcv \in RcvType
    BY Zenon, TypeParts DEF KeepsTypes, IInv
  <2>2. rcv'.got \subseteq Units /\ rcv.got \subseteq Units
    BY Zenon, <2>1 DEF RcvType
  <2>3. net'.frag \subseteq Units /\ \A h \in net'.first : h.units \subseteq Units
    BY Zenon, <2>1 DEF NetType
  <2>4. snd'.frag_lc \subseteq Units
    BY Zenon, <2>1 DEF SndType
  <2> QED BY Zenon, <2>2, <2>3, <2>4
<1>3. RecvDone'
  <2> SUFFICES ASSUME rcv'.complete PROVE rcv'.got = Units
    BY <1>1 DEF RecvDone
  <2>1. CASE rcv.complete
    BY Zenon, <1>2, <2>1 DEF IInv, RecvDone, Completions
  <2>2. CASE ~rcv.complete
    <3>1. Cardinality(rcv'.got \ Announced') >= setup.size
      BY Zenon, <2>2 DEF CountOK, Completions
    <3>2. rcv'.got \ Announced' = Units
      BY <1>1, <1>2, <3>1, AllUnits
    <3> QED BY <1>2, <3>2
  <2> QED BY <2>1, <2>2
<1>4. SendDone'
  <2> SUFFICES ASSUME snd'.complete
               PROVE  /\ snd'.pending = "NONE" /\ snd'.frag_lc = {} /\ Units \subseteq Gone'
                      /\ HeaderHasData => snd'.lc = "NONE"
    BY <1>1 DEF SendDone
  <2>1. CASE snd.complete
    BY Zenon, <2>1 DEF IInv, SendDone, Completions
  <2>2. CASE ~snd.complete
    <3>1. snd'.req_state = 0 /\ snd'.delivered >= setup.size /\ snd'.pending # "SCHEDULE"
      BY Zenon, <2>2 DEF Completions
    <3>2. Gone' \subseteq Units
      BY Zenon, <1>2 DEF Gone, FirstUnits
    <3>3. snd'.delivered \in Nat /\ ByGet' \in Nat
      BY <1>1 DEF GoneOK, ByGet, KeepsTypes, SndType
    <3>4. Cardinality(Gone' \ Uncounted') >= setup.size
      BY <1>1, <3>1, <3>3, <3>2, AllUnits DEF GoneOK
    <3>5. Gone' \ Uncounted' = Units
      BY <1>1, <3>2, <3>4, AllUnits
    <3>6. snd'.frag_lc = {} /\ Eager' \cap Units = {}
      BY Zenon, <1>2, <3>5 DEF Uncounted
    <3>7. snd'.pending = "NONE" /\ snd'.lc \in {"NONE", "MATCH", "RNDV"} /\ snd'.eager \subseteq Units
      BY Zenon, <3>1 DEF KeepsTypes, SndType
    <3>8. ASSUME HeaderHasData, snd'.lc = "RNDV" PROVE FALSE
      <4>1. snd'.eager = {}
        BY Zenon, <3>6, <3>7, <3>8 DEF Eager
      <4>2. snd'.req_state \in {1, 2}
        BY Zenon, <1>1, <3>8, <4>1 DEF RndvOK
      <4> QED BY <3>1, <4>2
    <3> QED BY Zenon, <3>5, <3>6, <3>7, <3>8
  <2> QED BY Zenon, <2>1, <2>2
<1> QED BY Zenon, <1>3, <1>4

\* Only the first header is under way: what is done then.
LEMMA NotIdle ==
  ASSUME IInv, ~Idle
  PROVE  /\ rcv.matched /\ net.first = {} /\ snd.lc # "MATCH" /\ snd.pending # "START"
BY Zenon DEF IInv, FirstOK, MatchOK

\* A step of a message that is being transferred.
LEMMA WorkStep ==
  ASSUME Counting, IInv, ~Idle, Keeps, KeepsTypes, Conserved', Separate', CountOK', GoneOK', RndvOK',
         Completions
  PROVE  IInv'
<1>1. rcv'.matched /\ net'.first = {} /\ snd'.lc # "MATCH" /\ snd'.pending # "START"
  BY Zenon, NotIdle DEF Keeps
<1>2. RecvDone' /\ SendDone'
  BY Zenon, <1>1, CompletionsOK DEF Keeps
<1>3. TypeOK'
  BY Zenon, SameTypes DEF Keeps
<1>4. FirstOK' /\ MatchOK'
  BY Zenon, <1>1 DEF FirstOK, MatchOK
<1>5. SndLocked(snd)' /\ RcvLocked(rcv)' /\ (setup \in Setups)'
  BY Zenon DEF IInv, Keeps, KeepsTypes, SndLocked, RcvLocked
<1> QED BY Zenon, <1>2, <1>3, <1>4, <1>5 DEF IInv

------------------------------------------------------------------------------
(* Where the units go.                                                     *)

\* The units S go from the i-th place to the j-th.
Move(i, j, S) ==
  /\ S \subseteq Spots[i]
  /\ Spots'[i] = Spots[i] \ S /\ Spots'[j] = Spots[j] \cup S
  /\ \A k \in 1 .. 11 : k # i /\ k # j => Spots'[k] = Spots[k]

\* There are eleven places.
LEMMA PlacesDomain == DOMAIN Spots = 1 .. 11
BY DEF Spots

\* Units that leave one place for one other are still in exactly one.
LEMMA Moves ==
  ASSUME Conserved, setup' = setup, rcv'.matched = rcv.matched,
         NEW i \in 1 .. 11, NEW j \in 1 .. 11, i # j, NEW S, Move(i, j, S)
  PROVE  Conserved'
<1>1. Units' = Units /\ DOMAIN Spots = 1 .. 11
  BY Zenon, PlacesDomain DEF Units
<1>2. DOMAIN Spots' = 1 .. 11
  BY DEF Spots
<1>3. /\ Spots'[i] = Spots[i] \ S /\ Spots'[j] = Spots[j] \cup S
      /\ \A k \in 1 .. 11 : k # i /\ k # j => Spots'[k] = Spots[k]
  BY Zenon DEF Move
<1> SUFFICES ASSUME rcv.matched, NEW u \in Units
             PROVE  \E k \in 1 .. 11 : { m \in 1 .. 11 : u \in Spots'[m] } = {k}
  BY Zenon, <1>1, <1>2 DEF Conserved
<1>4. PICK k \in 1 .. 11 : { m \in 1 .. 11 : u \in Spots[m] } = {k}
  BY Zenon, <1>1 DEF Conserved
<1>5. CASE u \in S
  <2>1. k = i
    BY Zenon, <1>4, <1>5 DEF Move
  <2>2. { m \in 1 .. 11 : u \in Spots'[m] } = {j}
    BY <1>3, <1>4, <1>5, <2>1
  <2> QED BY Zenon, <2>2
<1>6. CASE u \notin S
  <2>1. \A m \in 1 .. 11 : u \in Spots'[m] <=> u \in Spots[m]
    BY Zenon, <1>3, <1>6
  <2> QED BY Zenon, <1>4, <2>1
<1> QED BY Zenon, <1>5, <1>6

\* A unit that is in one place is in no other.
LEMMA OnePlace ==
  ASSUME Conserved, rcv.matched, NEW u \in Units,
         NEW i \in 1 .. 11, NEW j \in 1 .. 11, u \in Spots[i], u \in Spots[j]
  PROVE  i = j
BY PlacesDomain DEF Conserved

\* The places one by one.
LEMMA PlaceNames ==
  /\ Spots[1] = { u \in Units : u >= rcv.get_offset }
  /\ Spots[2] = { u \in Units : rcv.rdma_offset <= u /\ u < rcv.send_offset }
  /\ Spots[3] = { u \in Units : \E a \in net.ack : u \in a.units }
  /\ Spots[4] = { u \in Units : \E units \in rcv.ack_pending : u \in units }
  /\ Spots[5] = { u \in Units : \E p \in net.put : u = p.unit }
  /\ Spots[6] = snd.ranges /\ Spots[7] = snd.put_ops
  /\ Spots[8] = rcv.gets /\ Spots[9] = rcv.rdma_pending
  /\ Spots[10] = net.frag /\ Spots[11] = rcv.got
BY DEF Spots

\* The places one by one, after a step.
LEMMA PlaceNamesNext ==
  /\ Spots'[1] = { u \in Units' : u >= rcv'.get_offset }
  /\ Spots'[2] = { u \in Units' : rcv'.rdma_offset <= u /\ u < rcv'.send_offset }
  /\ Spots'[3] = { u \in Units' : \E a \in net'.ack : u \in a.units }
  /\ Spots'[4] = { u \in Units' : \E units \in rcv'.ack_pending : u \in units }
  /\ Spots'[5] = { u \in Units' : \E p \in net'.put : u = p.unit }
  /\ Spots'[6] = snd'.ranges /\ Spots'[7] = snd'.put_ops
  /\ Spots'[8] = rcv'.gets /\ Spots'[9] = rcv'.rdma_pending
  /\ Spots'[10] = net'.frag /\ Spots'[11] = rcv'.got
BY DEF Spots

\* A place is what its field says.
LEMMA SamePlace ==
  ASSUME setup' = setup
  PROVE  /\ rcv'.get_offset = rcv.get_offset => Spots'[1] = Spots[1]
         /\ rcv'.rdma_offset = rcv.rdma_offset /\ rcv'.send_offset = rcv.send_offset
              => Spots'[2] = Spots[2]
         /\ net'.ack = net.ack => Spots'[3] = Spots[3]
         /\ rcv'.ack_pending = rcv.ack_pending => Spots'[4] = Spots[4]
         /\ net'.put = net.put => Spots'[5] = Spots[5]
         /\ snd'.ranges = snd.ranges => Spots'[6] = Spots[6]
         /\ snd'.put_ops = snd.put_ops => Spots'[7] = Spots[7]
         /\ rcv'.gets = rcv.gets => Spots'[8] = Spots[8]
         /\ rcv'.rdma_pending = rcv.rdma_pending => Spots'[9] = Spots[9]
         /\ net'.frag = net.frag => Spots'[10] = Spots[10]
         /\ rcv'.got = rcv.got => Spots'[11] = Spots[11]
<1>1. Units' = Units
  BY Zenon DEF Units
<1>2. rcv'.get_offset = rcv.get_offset => Spots'[1] = Spots[1]
  BY Zenon, <1>1, PlaceNames, PlaceNamesNext
<1>3. rcv'.rdma_offset = rcv.rdma_offset /\ rcv'.send_offset = rcv.send_offset
        => Spots'[2] = Spots[2]
  BY Zenon, <1>1, PlaceNames, PlaceNamesNext
<1>4. net'.ack = net.ack => Spots'[3] = Spots[3]
  BY Zenon, <1>1, PlaceNames, PlaceNamesNext
<1>5. rcv'.ack_pending = rcv.ack_pending => Spots'[4] = Spots[4]
  BY Zenon, <1>1, PlaceNames, PlaceNamesNext
<1>6. net'.put = net.put => Spots'[5] = Spots[5]
  BY ZenonT(60), <1>1, PlaceNames, PlaceNamesNext
<1> QED BY <1>2, <1>3, <1>4, <1>5, <1>6, PlaceNames, PlaceNamesNext

\* The sender counts by sets of units.
LEMMA GoneTypes ==
  ASSUME Counting, setup \in Setups, snd \in SndType, rcv \in RcvType, net \in NetType
  PROVE  /\ setup.size \in Nat /\ snd.delivered \in Nat
         /\ Gone \subseteq Units /\ Cardinality(Gone \ Uncounted) \in Nat
<1>1. rcv.got \subseteq Units /\ net.frag \subseteq Units /\ \A h \in net.first : h.units \subseteq Units
  <2>1. rcv.got \subseteq Units
    BY Zenon DEF RcvType
  <2>2. net.frag \subseteq Units /\ \A h \in net.first : h.units \subseteq Units
    BY Zenon DEF NetType
  <2> QED BY Zenon, <2>1, <2>2
<1>2. Gone \subseteq Units
  BY Zenon, <1>1 DEF Gone, FirstUnits
<1>3. Gone \ Uncounted \subseteq Units /\ setup.size \in Nat
  BY Zenon, <1>2, SetupFacts
<1>4. Cardinality(Gone \ Uncounted) \in Nat
  BY Zenon, <1>3, AllUnits
<1>5. snd.delivered \in Nat
  BY Zenon DEF SndType
<1> QED BY Zenon, <1>2, <1>3, <1>4, <1>5

\* A fragment is sent, or a get is done: the unit is gone, and counted later.
LEMMA GoneLater ==
  ASSUME GoneOK, Keeps, NEW u, u \notin Gone,
         \/ /\ net'.frag = net.frag \cup {u} /\ snd'.frag_lc = snd.frag_lc \cup {u}
            /\ rcv'.got = rcv.got /\ net'.fins = net.fins /\ rcv'.fin_pending = rcv.fin_pending
         \/ /\ net'.frag = net.frag /\ snd'.frag_lc = snd.frag_lc
            /\ rcv'.got = rcv.got \cup {u}
            /\ \/ net'.fins = net.fins \cup {u} /\ rcv'.fin_pending = rcv.fin_pending
               \/ net'.fins = net.fins /\ rcv'.fin_pending = rcv.fin_pending \cup {u},
         snd'.delivered = snd.delivered, snd'.remaining = snd.remaining,
         Getting' => Getting, rcv'.getting => rcv.getting, rcv'.get_offset = rcv.get_offset
  PROVE  GoneOK' /\ Gone \subseteq Gone'
<1>1. Gone' = Gone \cup {u} /\ Eager' = Eager
  BY Zenon DEF Gone, FirstUnits, Eager, Keeps
<1>2. Uncounted' = Uncounted \cup {u}
  BY Zenon, <1>1 DEF Uncounted
<1>3. ByGet' = ByGet
  BY Zenon DEF ByGet, Keeps
<1>4. Gone' \ Uncounted' = Gone \ Uncounted
  BY Zenon, <1>1, <1>2
<1>5. Uncounted' \subseteq Gone' /\ Gone \subseteq Gone'
  BY Zenon, <1>1, <1>2 DEF GoneOK
<1>6. u \notin snd.frag_lc /\ u \notin net.fins /\ u \notin rcv.fin_pending /\ u \notin Eager
  BY Zenon DEF GoneOK, Uncounted
<1>7. /\ snd'.frag_lc \cap (net'.fins \cup rcv'.fin_pending \cup Eager') = {}
      /\ net'.fins \cap (rcv'.fin_pending \cup Eager') = {}
      /\ rcv'.fin_pending \cap Eager' = {}
  BY <1>1, <1>6 DEF GoneOK
<1> QED BY Zenon, <1>3, <1>4, <1>5, <1>7 DEF GoneOK, Keeps

------------------------------------------------------------------------------
(* The helpers of the send request.                                        *)

\* The completion check: the thread that gets the lock completes.
LEMMA SndCheck ==
  ASSUME NEW s \in SndType, SndLocked(s)
  PROVE  SndControl(s, s_complete_check(s)) /\ s_complete_check(s).loop = s.loop
<1>1. s.lock \in Nat /\ s.complete \in BOOLEAN
  BY Zenon DEF SndType
<1>2. CASE s.req_state = 0 /\ s.delivered >= setup.size
  <2>1. PICK c \in BOOLEAN : c = (s.complete \/ s.lock = 0)
    BY Zenon, <1>1
  <2>2. PICK l \in Nat : l = s.lock + 1
    BY <1>1
  <2>3. PICK t : t = [s EXCEPT !.lock = l, !.complete = c]
    BY Zenon
  <2>4. s_complete_check(s) = t
    BY Zenon, <1>2, <2>1, <2>2, <2>3 DEF s_complete_check
  <2>5. t \in SndType
    BY Zenon, <2>3 DEF SndType
  <2>6. SameData(s, t) /\ t.loop = s.loop
    BY <2>3 DEF SameData
  <2>7. t.lock = l /\ t.complete = c
    BY Zenon, <2>3 DEF SndType
  <2>8. SndLocked(t)
    BY <1>1, <2>2, <2>6, <2>7 DEF SndLocked, SameData
  <2>9. t.complete /\ ~s.complete => s.pending # "SCHEDULE"
    BY <1>1, <2>1, <2>7 DEF SndLocked
  <2> QED BY Zenon, <1>2, <2>1, <2>4, <2>5, <2>6, <2>7, <2>8, <2>9 DEF SndControl
<1>3. CASE ~(s.req_state = 0 /\ s.delivered >= setup.size)
  <2>1. s_complete_check(s) = s
    BY Zenon, <1>3 DEF s_complete_check
  <2> QED BY Zenon, <2>1 DEF SndControl, SameData
<1> QED BY Zenon, <1>2, <1>3

\* Entering the loop, or leaving one more round to the thread inside.
LEMMA SndSchedule ==
  ASSUME NEW s \in SndType, SndLocked(s)
  PROVE  SndControl(s, s_schedule(s)) /\ s_schedule(s).complete = s.complete
<1>1. s.lock \in Nat /\ s.loop \in {"NO", "IN", "OUT"}
  BY Zenon DEF SndType
<1>2. PICK l \in Nat : l = s.lock + 1
  BY <1>1
<1>3. PICK o \in {"NO", "IN", "OUT"} : o = IF s.lock = 0 THEN "IN" ELSE s.loop
  BY <1>1
<1>4. PICK t : t = [s EXCEPT !.lock = l, !.loop = o]
  OBVIOUS
<1>5. s_schedule(s) = t
  BY Zenon, <1>2, <1>3, <1>4 DEF s_schedule
<1>6. t \in SndType
  BY Zenon, <1>4 DEF SndType
<1>7. SameData(s, t) /\ t.complete = s.complete
  BY <1>4 DEF SameData
<1>8. t.lock = l /\ t.loop = o
  BY Zenon, <1>4 DEF SndType
<1>9. SndLocked(t)
  BY <1>1, <1>2, <1>3, <1>7, <1>8 DEF SndLocked, SameData
<1> QED BY Zenon, <1>5, <1>6, <1>7, <1>9 DEF SndControl

\* The end of a callback.
LEMMA SndCheckOrSchedule ==
  ASSUME NEW s \in SndType, SndLocked(s)
  PROVE  SndControl(s, s_check_or_schedule(s))
<1>1. PICK t : t = s_complete_check(s)
  OBVIOUS
<1>2. SndControl(s, t)
  BY Zenon, <1>1, SndCheck
<1>3. CASE t.complete # s.complete
  BY Zenon, <1>1, <1>2, <1>3 DEF s_check_or_schedule
<1>4. CASE t.complete = s.complete
  <2>1. SndControl(t, s_schedule(t)) /\ s_schedule(t).complete = t.complete
    BY Zenon, <1>2, SndSchedule DEF SndControl
  <2>2. s_check_or_schedule(s) = s_schedule(t)
    BY Zenon, <1>1, <1>4 DEF s_check_or_schedule
  <2>3. SameData(s, s_schedule(t))
    BY Zenon, <1>2, <2>1 DEF SndControl, SameData
  <2> QED BY Zenon, <1>4, <2>1, <2>2, <2>3 DEF SndControl
<1> QED BY Zenon, <1>3, <1>4

------------------------------------------------------------------------------
(* The counts of the send request.                                         *)

\* A FIN is on its way or waits for a resource.
FinSent(f) ==
  \/ net'.finr = net.finr \cup {f} /\ snd'.fin_pending = snd.fin_pending
  \/ net'.finr = net.finr /\ snd'.fin_pending = snd.fin_pending \cup {f}

\* The FIN of a put that failed announces nothing.
LEMMA CountFailed ==
  ASSUME CountOK, NEW f, ~f.ok, FinSent(f),
         rcv'.received = rcv.received, rcv'.got = rcv.got
  PROVE  CountOK'
<1>1. Announced' = Announced
  BY Zenon DEF Announced, FinSent
<1> QED BY Zenon, <1>1 DEF CountOK, FinSent

\* A unit that was put is announced before it is counted.
LEMMA CountPut ==
  ASSUME CountOK, NEW f, f.ok, FinSent(f), f.unit \notin rcv.got,
         rcv'.received = rcv.received, rcv'.got = rcv.got \cup {f.unit}
  PROVE  CountOK'
<1>1. Announced' = Announced \cup {f.unit}
  BY ZenonT(60) DEF Announced, FinSent
<1>2. rcv'.got \ Announced' = rcv.got \ Announced
  BY Zenon, <1>1
<1>3. f \notin net.finr /\ f \notin snd.fin_pending
  BY Zenon DEF CountOK, Announced
<1> QED BY Zenon, <1>1, <1>2, <1>3 DEF CountOK, FinSent

\* A FIN that waited is sent.
LEMMA CountSent ==
  ASSUME CountOK, NEW f \in snd.fin_pending,
         net'.finr = net.finr \cup {f}, snd'.fin_pending = snd.fin_pending \ {f},
         rcv'.received = rcv.received, rcv'.got = rcv.got
  PROVE  CountOK'
<1>1. net'.finr \cup snd'.fin_pending = net.finr \cup snd.fin_pending
  BY Zenon
<1>2. Announced' = Announced
  BY Zenon, <1>1 DEF Announced
<1> QED BY Zenon, <1>2 DEF CountOK

\* A put is done: its unit is gone and counted.
LEMMA GonePut ==
  ASSUME Counting, setup \in Setups, snd \in SndType, rcv \in RcvType, net \in NetType, GoneOK,
         Keeps, KeepsGets, NEW u, u \notin Gone,
         rcv'.got = rcv.got \cup {u}, snd'.delivered = snd.delivered + 1,
         net'.frag = net.frag, snd'.frag_lc = snd.frag_lc, net'.fins = net.fins,
         rcv'.fin_pending = rcv.fin_pending, snd'.remaining = snd.remaining
  PROVE  GoneOK' /\ Gone \subseteq Gone'
<1>1. Gone' = Gone \cup {u} /\ Eager' = Eager
  BY Zenon DEF Gone, FirstUnits, Eager, Keeps
<1>2. Uncounted' = Uncounted
  BY Zenon, <1>1 DEF Uncounted
<1>3. ByGet' = ByGet /\ Getting' = Getting
  BY Zenon DEF ByGet, Getting, Keeps, KeepsGets
<1>4. Gone' \ Uncounted' = (Gone \ Uncounted) \cup {u} /\ u \notin Gone \ Uncounted
  BY Zenon, <1>1, <1>2 DEF GoneOK
<1>5. Cardinality(Gone' \ Uncounted') = Cardinality(Gone \ Uncounted) + 1
  <2>1. Gone \ Uncounted \subseteq Units
    BY Zenon, GoneTypes
  <2> QED BY Zenon, <1>4, <2>1, GoneTypes, OneMore
<1>6. snd'.delivered + ByGet' <= Cardinality(Gone' \ Uncounted')
  <2>1. ByGet \in Int
    BY GoneTypes DEF GoneOK, ByGet
  <2> QED BY <1>3, <1>5, <2>1, GoneTypes DEF GoneOK
<1>7. Uncounted' \subseteq Gone' /\ Gone \subseteq Gone'
  BY Zenon, <1>1, <1>2 DEF GoneOK
<1> QED BY Zenon, <1>1, <1>2, <1>3, <1>6, <1>7 DEF GoneOK, Keeps, KeepsGets

\* A fragment has left the buffer: it is counted.
LEMMA GoneCounted ==
  ASSUME Counting, setup \in Setups, snd \in SndType, rcv \in RcvType, net \in NetType, GoneOK,
         Keeps, KeepsGets, NEW u \in snd.frag_lc,
         snd'.frag_lc = snd.frag_lc \ {u}, snd'.delivered = snd.delivered + 1,
         rcv'.got = rcv.got, net'.frag = net.frag, net'.fins = net.fins,
         rcv'.fin_pending = rcv.fin_pending, snd'.remaining = snd.remaining
  PROVE  GoneOK' /\ Gone' = Gone
<1>1. Gone' = Gone /\ Eager' = Eager
  BY Zenon DEF Gone, FirstUnits, Eager, Keeps
<1>2. Uncounted' = Uncounted \ {u} /\ u \in Uncounted
  BY <1>1 DEF Uncounted, GoneOK
<1>3. ByGet' = ByGet /\ Getting' = Getting
  BY Zenon DEF ByGet, Getting, Keeps, KeepsGets
<1>4. Gone' \ Uncounted' = (Gone \ Uncounted) \cup {u} /\ u \notin Gone \ Uncounted
  BY Zenon, <1>1, <1>2 DEF GoneOK
<1>5. Cardinality(Gone' \ Uncounted') = Cardinality(Gone \ Uncounted) + 1
  <2>1. Gone \ Uncounted \subseteq Units
    BY Zenon, GoneTypes
  <2> QED BY Zenon, <1>4, <2>1, GoneTypes, OneMore
<1>6. snd'.delivered + ByGet' <= Cardinality(Gone' \ Uncounted')
  <2>1. ByGet \in Int
    BY GoneTypes DEF GoneOK, ByGet
  <2> QED BY <1>3, <1>5, <2>1, GoneTypes DEF GoneOK
<1>7. Uncounted' \subseteq Gone'
  BY Zenon, <1>1, <1>2 DEF GoneOK
<1>8. snd'.frag_lc \cap (net'.fins \cup rcv'.fin_pending \cup Eager') = {}
  BY Zenon, <1>1 DEF GoneOK
<1> QED BY Zenon, <1>1, <1>3, <1>6, <1>7, <1>8 DEF GoneOK, Keeps, KeepsGets

------------------------------------------------------------------------------
(* The steps of the send request.                                          *)

\* A step of the send request inside or at the end of the loop.
LEMMA SndLoop ==
  ASSUME Counting, IInv, ~Idle, setup' = setup, rcv' = rcv, net' = net, fails' \in 0 .. MaxFails,
         snd' \in SndType, SndLocked(snd'),
         SameUnits(snd, snd'), SameCounts(snd, snd'),
         snd'.req_state = snd.req_state, snd'.rdma_frag = snd.rdma_frag,
         snd'.pending # "START", snd.complete => snd'.pending = "NONE",
         snd'.complete /\ ~snd.complete =>
           snd'.req_state = 0 /\ snd'.delivered >= setup.size /\ snd'.pending # "SCHEDULE"
  PROVE  IInv'
<1>1. Keeps
  BY Zenon, NotIdle DEF Keeps, SameCounts
<1>2. KeepsTypes
  BY Zenon, InvParts DEF KeepsTypes
<1>3. Conserved' /\ Separate'
  BY Zenon, InvParts, SamePlaces DEF KeepsPlaces, SameUnits
<1>4. CountOK'
  BY Zenon, InvParts, SameCount DEF KeepsCount, SameUnits
<1>5. GoneOK' /\ Gone' = Gone
  BY Zenon, <1>1, InvParts, SameGone DEF KeepsGone, KeepsGets, SameUnits, SameCounts
<1>6. RndvOK'
  BY Zenon, <1>1, InvParts, SameRndv DEF KeepsAcks, KeepsGets
<1>7. Completions
  BY Zenon, <1>5, InvParts DEF Completions, SameUnits
<1> QED BY Zenon, <1>1, <1>2, <1>3, <1>4, <1>5, <1>6, <1>7, WorkStep

\* A step of the send request alone that moves no unit.
LEMMA SndQuiet ==
  ASSUME Counting, IInv, ~Idle, setup' = setup, rcv' = rcv, net' = net, fails' = fails,
         snd' \in SndType, SndLocked(snd'),
         SameUnits(snd, snd'), SameCounts(snd, snd'),
         snd'.req_state = snd.req_state, snd'.rdma_frag = snd.rdma_frag,
         snd'.pending \in {snd.pending, "NONE"},
         snd'.complete /\ ~snd.complete =>
           snd'.req_state = 0 /\ snd'.delivered >= setup.size /\ snd'.pending # "SCHEDULE"
  PROVE  IInv'
BY Zenon, InvParts, NotIdle, SndLoop

\* mca_pml_ob1_send_request_schedule_once returns.
LEMMA ScheduleEndStep == Counting /\ IInv /\ ScheduleEnd => IInv'
<1> SUFFICES ASSUME Counting, IInv, ScheduleEnd PROVE IInv'
  OBVIOUS
<1>1. /\ snd.loop = "IN" /\ snd' = [snd EXCEPT !.loop = "OUT"]
      /\ setup' = setup /\ rcv' = rcv /\ net' = net /\ fails' = fails
  BY Zenon DEF ScheduleEnd
<1>2. snd' \in SndType /\ snd'.loop = "OUT"
  BY Zenon, <1>1, InvParts DEF SndType
<1>3. /\ SameUnits(snd, snd') /\ SameCounts(snd, snd')
      /\ snd'.req_state = snd.req_state /\ snd'.rdma_frag = snd.rdma_frag
      /\ snd'.pending = snd.pending /\ snd'.complete = snd.complete /\ snd'.lock = snd.lock
  BY <1>1 DEF SameUnits, SameCounts
<1>4. SndLocked(snd')
  BY <1>1, <1>2, <1>3, InvParts DEF SndLocked
<1>5. ~Idle
  BY Zenon, <1>1 DEF Idle
<1> QED BY Zenon, <1>1, <1>2, <1>3, <1>4, <1>5, SndQuiet

\* unlock_send_request.
LEMMA ScheduleUnlockStep == Counting /\ IInv /\ ScheduleUnlock => IInv'
<1> SUFFICES ASSUME Counting, IInv, ScheduleUnlock PROVE IInv'
  OBVIOUS
<1>1. /\ snd.loop = "OUT" /\ snd' = s_unlock(snd)
      /\ setup' = setup /\ rcv' = rcv /\ net' = net /\ fails' = fails
  BY Zenon DEF ScheduleUnlock
<1>2. ~Idle
  BY <1>1 DEF Idle
<1>3. snd.lock \in Nat /\ snd.lock > 0 /\ snd.checks \in Nat /\ snd.pending # "SCHEDULE"
  BY <1>1, InvParts DEF SndType, SndLocked
<1>4. CASE snd.lock = 1
  <2>1. PICK k \in Nat : k = snd.checks + 1
    BY <1>3
  <2>2. snd' = [snd EXCEPT !.lock = 0, !.loop = "NO", !.checks = k]
    BY Zenon, <1>1, <1>4, <2>1 DEF s_unlock
  <2>3. snd' \in SndType /\ snd'.loop = "NO"
    BY Zenon, <2>2, InvParts DEF SndType
  <2>4. /\ SameUnits(snd, snd') /\ SameCounts(snd, snd')
        /\ snd'.req_state = snd.req_state /\ snd'.rdma_frag = snd.rdma_frag
        /\ snd'.pending = snd.pending /\ snd'.complete = snd.complete
    BY <2>2 DEF SameUnits, SameCounts
  <2>5. SndLocked(snd')
    BY Zenon, <1>3, <2>3, <2>4 DEF SndLocked
  <2> QED BY Zenon, <1>1, <1>2, <2>3, <2>4, <2>5, SndQuiet
<1>5. CASE snd.lock # 1
  <2>1. PICK l \in Nat : l = snd.lock - 1 /\ l > 0
    BY <1>3, <1>5
  <2>2. snd' = [snd EXCEPT !.lock = l, !.loop = "IN"]
    BY Zenon, <1>1, <1>5, <2>1 DEF s_unlock
  <2>3. snd' \in SndType /\ snd'.lock = l
    BY Zenon, <2>2, InvParts DEF SndType
  <2>4. /\ SameUnits(snd, snd') /\ SameCounts(snd, snd')
        /\ snd'.req_state = snd.req_state /\ snd'.rdma_frag = snd.rdma_frag
        /\ snd'.pending = snd.pending /\ snd'.complete = snd.complete
    BY <2>2 DEF SameUnits, SameCounts
  <2>5. SndLocked(snd')
    BY Zenon, <1>3, <2>1, <2>3, <2>4 DEF SndLocked
  <2> QED BY Zenon, <1>1, <1>2, <2>3, <2>4, <2>5, SndQuiet
<1> QED BY Zenon, <1>4, <1>5

\* The completion check after the loop.
LEMMA ScheduleCheckStep == Counting /\ IInv /\ ScheduleCheck => IInv'
<1> SUFFICES ASSUME Counting, IInv, ScheduleCheck PROVE IInv'
  OBVIOUS
<1>1. /\ snd.checks > 0 /\ setup' = setup /\ rcv' = rcv /\ net' = net /\ fails' = fails
      /\ snd' = s_complete_check([snd EXCEPT !.checks = @ - 1])
  BY Zenon DEF ScheduleCheck
<1>2. ~Idle
  BY <1>1 DEF Idle
<1>3. PICK k \in Nat : k = snd.checks - 1
  BY <1>1, InvParts DEF SndType
<1>4. PICK s : s = [snd EXCEPT !.checks = k]
  BY Zenon
<1>5. s \in SndType
  BY Zenon, <1>3, <1>4, InvParts DEF SndType
<1>6. /\ SameUnits(snd, s) /\ SameCounts(snd, s)
      /\ s.req_state = snd.req_state /\ s.rdma_frag = snd.rdma_frag /\ s.lock = snd.lock
      /\ s.loop = snd.loop /\ s.pending = snd.pending /\ s.complete = snd.complete
  BY <1>4 DEF SameUnits, SameCounts
<1>7. SndControl(s, snd')
  BY Zenon, <1>1, <1>3, <1>4, <1>5, <1>6, InvParts, SndCheck DEF SndLocked
<1>8. SameUnits(snd, snd') /\ SameCounts(snd, snd')
  BY Zenon, <1>6, <1>7 DEF SndControl, SameData, SameUnits, SameCounts
<1>9. snd' \in SndType /\ SndLocked(snd') /\ snd'.req_state = snd.req_state
      /\ snd'.rdma_frag = snd.rdma_frag /\ snd'.pending = snd.pending
      /\ (snd'.complete /\ ~snd.complete =>
           snd'.req_state = 0 /\ snd'.delivered >= setup.size /\ snd'.pending # "SCHEDULE")
  BY Zenon, <1>6, <1>7 DEF SndControl, SameData
<1> QED BY Zenon, <1>1, <1>2, <1>8, <1>9, SndQuiet

\* The SCHEDULE case of mca_pml_ob1_send_request_process_pending.
LEMMA SendProcessPendingStep == Counting /\ IInv /\ SendProcessPending => IInv'
<1> SUFFICES ASSUME Counting, IInv, SendProcessPending PROVE IInv'
  OBVIOUS
<1>1. /\ snd.pending = "SCHEDULE" /\ snd' = [snd EXCEPT !.pending = "NONE", !.loop = "IN"]
      /\ setup' = setup /\ rcv' = rcv /\ net' = net /\ fails' = fails
  BY Zenon DEF SendProcessPending
<1>2. snd' \in SndType /\ snd'.loop = "IN" /\ snd'.pending = "NONE"
  BY Zenon, <1>1, InvParts DEF SndType
<1>3. /\ SameUnits(snd, snd') /\ SameCounts(snd, snd')
      /\ snd'.req_state = snd.req_state /\ snd'.rdma_frag = snd.rdma_frag
      /\ snd'.complete = snd.complete /\ snd'.lock = snd.lock
  BY <1>1 DEF SameUnits, SameCounts
<1>4. SndLocked(snd')
  BY <1>1, <1>2, <1>3, InvParts DEF SndLocked
<1>5. ~Idle
  BY Zenon, <1>1 DEF Idle
<1> QED BY Zenon, <1>1, <1>2, <1>3, <1>4, <1>5, SndQuiet

\* An acknowledgement asks for copies of its units.
LEMMA RecvAckStep ==
  ASSUME Counting, IInv, NEW a \in net.ack, RecvAck(a)
  PROVE  IInv'
<1>1. /\ snd \in SndType /\ rcv \in RcvType /\ net \in NetType /\ fails \in 0 .. MaxFails
      /\ Conserved /\ Separate /\ CountOK /\ GoneOK /\ RndvOK /\ SndLocked(snd) /\ RcvLocked(rcv)
  BY Zenon, TypeParts DEF IInv
<1>2. a.units \subseteq Units /\ a.nordma \in BOOLEAN
  BY Zenon, <1>1 DEF NetType
<1>3. ~Idle
  BY Zenon DEF Idle
<1>4. /\ rcv.matched /\ net.first = {} /\ snd.lc # "MATCH" /\ snd.pending # "START"
  BY Zenon, <1>3, NotIdle
<1>5. /\ setup' = setup /\ rcv' = rcv /\ fails' = fails
      /\ net' = [net EXCEPT !.ack = @ \ {a}]
  BY Zenon DEF RecvAck
<1>6. /\ net' \in NetType /\ net'.ack = net.ack \ {a}
      /\ net'.first = net.first /\ net'.put = net.put /\ net'.frag = net.frag
      /\ net'.finr = net.finr /\ net'.fins = net.fins
  BY <1>1, <1>5 DEF NetType
<1>7. PICK s1 : s1 = IF a.nordma THEN only_copies(snd) ELSE snd
  BY Zenon
<1>8. /\ s1 \in SndType /\ SameControl(snd, s1) /\ SameUnits(snd, s1) /\ SameCounts(snd, s1)
      /\ s1.req_state = snd.req_state /\ (s1.rdma_frag => snd.rdma_frag)
  <2>1. CASE a.nordma
    <3>1. s1 = [snd EXCEPT !.throttle = TRUE, !.rdma_frag = FALSE]
      BY Zenon, <1>7, <2>1 DEF only_copies
    <3>2. s1 \in SndType
      BY Zenon, <1>1, <3>1 DEF SndType
    <3>3. SameControl(snd, s1) /\ SameUnits(snd, s1) /\ SameCounts(snd, s1) /\ s1.req_state = snd.req_state
      BY <3>1 DEF SameControl, SameUnits, SameCounts
    <3>4. s1.rdma_frag = FALSE
      BY Zenon, <1>1, <3>1 DEF SndType
    <3> QED BY Zenon, <3>2, <3>3, <3>4
  <2>2. CASE ~a.nordma
    BY Zenon, <1>1, <1>7, <2>2 DEF SameControl, SameUnits, SameCounts
  <2> QED BY Zenon, <2>1, <2>2
<1>9. PICK n \in Int : n = IF snd.req_state # 0 THEN snd.req_state - 1 ELSE 0
  BY <1>1 DEF SndType
<1>10. PICK s : s = [s1 EXCEPT !.req_state = n, !.ranges = snd.ranges \cup a.units]
  BY Zenon
<1>11. /\ s \in SndType /\ SameControl(s1, s) /\ SameCounts(s1, s)
       /\ s.put_ops = snd.put_ops /\ s.frag_lc = snd.frag_lc /\ s.fin_pending = snd.fin_pending
       /\ s.rdma_frag = s1.rdma_frag /\ s.req_state = n /\ s.ranges = snd.ranges \cup a.units
  <2>1. s \in SndType
    BY Zenon, <1>1, <1>2, <1>8, <1>9, <1>10 DEF SndType
  <2>2. SameControl(s1, s) /\ SameCounts(s1, s)
       /\ s.put_ops = s1.put_ops /\ s.frag_lc = s1.frag_lc /\ s.fin_pending = s1.fin_pending
       /\ s.rdma_frag = s1.rdma_frag
    BY <1>10 DEF SameControl, SameCounts
  <2>3. s.req_state = n /\ s.ranges = snd.ranges \cup a.units
    BY Zenon, <1>8, <1>10 DEF SndType
  <2> QED BY Zenon, <1>8, <2>1, <2>2, <2>3 DEF SameUnits
<1>12. snd' = s_check_or_schedule(s)
  <2>1. copy_in_out([s1 EXCEPT !.req_state = IF @ # 0 THEN @ - 1 ELSE 0], a.units) = s
    BY Zenon, <1>8, <1>9, <1>10 DEF copy_in_out, SndType, SameUnits
  <2> QED BY Zenon, <1>7, <2>1 DEF RecvAck
<1>13. SndControl(s, snd')
  <2>1. SndLocked(s)
    BY Zenon, <1>1, <1>8, <1>11 DEF SndLocked, SameControl
  <2> QED BY Zenon, <1>11, <1>12, <2>1, SndCheckOrSchedule
<1>14. /\ snd'.lc = snd.lc /\ snd'.eager = snd.eager /\ snd'.pending = snd.pending
       /\ snd'.ranges = snd.ranges \cup a.units /\ snd'.put_ops = snd.put_ops
       /\ snd'.frag_lc = snd.frag_lc /\ snd'.fin_pending = snd.fin_pending
       /\ snd'.delivered = snd.delivered /\ snd'.remaining = snd.remaining
       /\ snd'.req_state = n /\ (snd'.rdma_frag => snd.rdma_frag)
  BY Zenon, <1>8, <1>11, <1>13 DEF SndControl, SameData, SameControl, SameCounts
<1>15. Keeps
  BY Zenon, <1>4, <1>5, <1>6, <1>14 DEF Keeps
<1>16. KeepsTypes
  BY Zenon, <1>1, <1>5, <1>6, <1>13 DEF KeepsTypes, SndControl
<1>17. Conserved'
  <2>1. a.units \subseteq Spots[3]
    BY <1>2, PlaceNames
  <2>2. Spots'[3] = Spots[3] \ a.units
    <3>1. \A u \in Units : (\E b \in net'.ack : u \in b.units)
                           <=> (\E b \in net.ack : u \in b.units) /\ u \notin a.units
      BY Zenon, <1>1, <1>6 DEF Separate
    <3>2. Units' = Units
      BY Zenon, <1>5 DEF Units
    <3> QED BY <3>1, <3>2, PlaceNames, PlaceNamesNext
  <2>3. Spots'[6] = Spots[6] \cup a.units
    BY Zenon, <1>14, PlaceNames, PlaceNamesNext
  <2>4. Move(3, 6, a.units)
    BY <1>5, <1>6, <1>14, <2>1, <2>2, <2>3, SamePlace DEF Move
  <2> QED BY <1>1, <1>5, <2>4, Moves
<1>18. Separate'
  BY Zenon, <1>1, <1>5, <1>6 DEF Separate
<1>19. CountOK'
  BY Zenon, <1>1, <1>5, <1>6, <1>14, SameCount DEF KeepsCount
<1>20. GoneOK' /\ Gone' = Gone
  BY Zenon, <1>1, <1>5, <1>6, <1>14, <1>15, SameGone DEF KeepsGone, KeepsGets
<1>21. RndvOK'
  <2> SUFFICES ASSUME snd.lc = "RNDV" PROVE RndvOK'
    BY Zenon, <1>14 DEF RndvOK
  <2>1. /\ net'.ack = {} /\ rcv.ack_pending = {} /\ rcv.ack_sent
        /\ \A p \in net.put : ~p.ack
    BY Zenon, <1>1, <1>6 DEF RndvOK
  <2>2. HeaderHasData' = HeaderHasData
    BY Zenon, <1>5 DEF HeaderHasData, RndvLimit, Failing
  <2>3. ASSUME HeaderHasData, snd.eager = {}
        PROVE  ~snd'.rdma_frag /\ snd'.req_state = 1
    <3>1. AckDue
      BY Zenon DEF AckDue
    <3>2. ~snd.rdma_frag /\ snd.req_state = 2
      BY Zenon, <1>1, <2>3, <3>1 DEF RndvOK
    <3> QED BY <1>9, <1>14, <3>2
  <2>4. ~AckDue'
    BY Zenon, <1>4, <1>5, <1>6, <2>1 DEF AckDue
  <2> QED BY <1>1, <1>4, <1>5, <1>6, <1>14, <2>1, <2>2, <2>3, <2>4 DEF RndvOK
<1>22. Completions
  <2>1. snd.complete => snd.pending = "NONE" /\ snd.frag_lc = {}
    BY Zenon DEF IInv, SendDone
  <2>2. snd'.complete /\ ~snd.complete =>
          snd'.req_state = 0 /\ snd'.delivered >= setup.size /\ snd'.pending # "SCHEDULE"
    BY Zenon, <1>8, <1>11, <1>13 DEF SndControl, SameData, SameControl
  <2> QED BY Zenon, <1>5, <1>14, <1>20, <2>1, <2>2 DEF Completions
<1> QED BY Zenon, <1>3, <1>15, <1>16, <1>17, <1>18, <1>19, <1>20, <1>21, <1>22, WorkStep

\* Sending a FIN changes nothing else.
SameButFin(s, t) ==
  /\ SameControl(s, t) /\ SameCounts(s, t)
  /\ t.ranges = s.ranges /\ t.put_ops = s.put_ops /\ t.frag_lc = s.frag_lc
  /\ t.req_state = s.req_state /\ t.rdma_frag = s.rdma_frag

\* mca_pml_ob1_send_fin.
LEMMA SendFin ==
  ASSUME Counting, setup \in Setups, fails \in 0 .. MaxFails,
         NEW s \in SndType, NEW n \in NetType, NEW f \in [unit : Units, ok : BOOLEAN],
         NEW ops, IsFiniteSet(ops), s_send_fin(s, n, f, ops)
  PROVE  /\ fails' \in 0 .. MaxFails /\ snd' \in SndType /\ net' \in NetType
         /\ SameButFin(s, snd') /\ NetButFin(n, net')
         /\ \/ net'.finr = n.finr \cup {f} /\ snd'.fin_pending = s.fin_pending
            \/ net'.finr = n.finr /\ snd'.fin_pending = s.fin_pending \cup {f}
<1>1. MaxFails \in Nat
  BY Zenon, SetupFacts
<1>2. ASSUME Lacking(ops), snd' = s, net' = [n EXCEPT !.finr = @ \cup {f}]
      PROVE  /\ fails' \in 0 .. MaxFails /\ snd' \in SndType /\ net' \in NetType
             /\ SameButFin(s, snd') /\ NetButFin(n, net')
             /\ net'.finr = n.finr \cup {f} /\ snd'.fin_pending = s.fin_pending
  <2>1. fails' \in 0 .. MaxFails
    BY Zenon, <1>1, <1>2, FailsLeft
  <2>2. net' \in NetType /\ net'.finr = n.finr \cup {f}
    BY Zenon, <1>2 DEF NetType
  <2>3. NetButFin(n, net')
    BY <1>2 DEF NetButFin
  <2> QED BY Zenon, <1>2, <2>1, <2>2, <2>3 DEF SameButFin, SameControl, SameCounts
<1>3. ASSUME Lacking(ops \cup {"fin"}), net' = n,
             snd' = [s EXCEPT !.fin_pending = @ \cup {f}]
      PROVE  /\ fails' \in 0 .. MaxFails /\ snd' \in SndType /\ net' \in NetType
             /\ SameButFin(s, snd') /\ NetButFin(n, net')
             /\ net'.finr = n.finr /\ snd'.fin_pending = s.fin_pending \cup {f}
  <2>1. IsFiniteSet(ops \cup {"fin"})
    BY Zenon, AddCount
  <2>2. fails' \in 0 .. MaxFails
    BY Zenon, <1>1, <1>3, <2>1, FailsLeft
  <2>3. snd' \in SndType /\ snd'.fin_pending = s.fin_pending \cup {f}
    BY Zenon, <1>3 DEF SndType
  <2>4. SameButFin(s, snd')
    BY <1>3 DEF SameButFin, SameControl, SameCounts
  <2> QED BY Zenon, <1>3, <2>2, <2>3, <2>4 DEF NetButFin
<1> QED BY Zenon, <1>2, <1>3 DEF s_send_fin

\* The unit of a put that failed is queued, and the receiver told.
PutBack(s, n, u) ==
  /\ fails' \in 0 .. MaxFails /\ snd' \in SndType /\ net' \in NetType
  /\ SndLocked(snd') /\ SameCounts(s, snd')
  /\ snd'.ranges = s.ranges \cup {u} /\ snd'.put_ops = s.put_ops
  /\ snd'.frag_lc = s.frag_lc /\ snd'.req_state = s.req_state
  /\ snd'.rdma_frag = s.rdma_frag /\ snd'.pending = s.pending
  /\ snd'.complete = s.complete
  /\ NetButFin(n, net')
  /\ \/ net'.finr = n.finr \cup {[unit |-> u, ok |-> FALSE]} /\ snd'.fin_pending = s.fin_pending
     \/ net'.finr = n.finr /\ snd'.fin_pending = s.fin_pending \cup {[unit |-> u, ok |-> FALSE]}

\* mca_pml_ob1_send_request_put_frag_failed.
LEMMA PutFailed ==
  ASSUME Counting, setup \in Setups, fails \in 0 .. MaxFails,
         NEW s \in SndType, SndLocked(s), NEW n \in NetType, NEW u \in Units,
         NEW ops, IsFiniteSet(ops), put_frag_failed(s, n, u, ops)
  PROVE  PutBack(s, n, u)
<1>1. PICK t : t = [s EXCEPT !.ranges = s.ranges \cup {u}]
  BY Zenon
<1>2. t \in SndType /\ t.ranges = s.ranges \cup {u}
  BY Zenon, <1>1 DEF SndType
<1>3. /\ SameControl(s, t) /\ SameCounts(s, t)
      /\ t.put_ops = s.put_ops /\ t.frag_lc = s.frag_lc /\ t.fin_pending = s.fin_pending
      /\ t.rdma_frag = s.rdma_frag /\ t.req_state = s.req_state
  BY <1>1 DEF SameControl, SameCounts
<1>4. SndLocked(t)
  BY Zenon, <1>3 DEF SndLocked, SameControl
<1>5. PICK v : v = s_schedule(t)
  BY Zenon
<1>6. SndControl(t, v) /\ v.complete = t.complete
  BY Zenon, <1>2, <1>4, <1>5, SndSchedule
<1>7. copy_in_out(s, {u}) = t
  BY Zenon, <1>1 DEF copy_in_out
<1>8. s_send_fin(v, n, [unit |-> u, ok |-> FALSE], ops)
  BY Zenon, <1>5, <1>7 DEF put_frag_failed
<1>9. /\ fails' \in 0 .. MaxFails /\ snd' \in SndType /\ net' \in NetType
      /\ SameButFin(v, snd') /\ NetButFin(n, net')
      /\ \/ net'.finr = n.finr \cup {[unit |-> u, ok |-> FALSE]} /\ snd'.fin_pending = v.fin_pending
         \/ net'.finr = n.finr /\ snd'.fin_pending = v.fin_pending \cup {[unit |-> u, ok |-> FALSE]}
  <2>1. v \in SndType /\ [unit |-> u, ok |-> FALSE] \in [unit : Units, ok : BOOLEAN]
    BY Zenon, <1>6 DEF SndControl
  <2>2. PICK f : f = [unit |-> u, ok |-> FALSE]
    BY Zenon
  <2> QED BY Zenon, <1>8, <2>1, <2>2, SendFin
<1>10. SndLocked(snd')
  BY Zenon, <1>6, <1>9 DEF SndLocked, SndControl, SameButFin, SameControl
<1>11. /\ SameCounts(s, snd') /\ snd'.ranges = s.ranges \cup {u} /\ snd'.put_ops = s.put_ops
       /\ snd'.frag_lc = s.frag_lc /\ snd'.req_state = s.req_state
       /\ snd'.rdma_frag = s.rdma_frag /\ snd'.pending = s.pending
       /\ snd'.complete = s.complete /\ v.fin_pending = s.fin_pending
  BY ZenonT(60), <1>2, <1>3, <1>6, <1>9
     DEF SndControl, SameData, SameButFin, SameControl, SameCounts
<1> QED BY Zenon, <1>9, <1>10, <1>11 DEF PutBack

\* The receiver asks for a put: the unit is written, or copied when that fails.
LEMMA RecvPutStep ==
  ASSUME Counting, IInv, NEW p \in net.put, RecvPut(p)
  PROVE  IInv'
<1>1. p \in [unit : Units, ack : BOOLEAN] /\ p.unit \in Units /\ p.ack \in BOOLEAN
  BY Zenon, InvParts DEF NetType
<1>2. ~Idle
  BY Zenon DEF Idle
<1>3. rcv.matched /\ net.first = {} /\ snd.lc # "MATCH" /\ snd.pending # "START"
  BY Zenon, <1>2, NotIdle
<1>4. setup' = setup /\ rcv' = rcv
  BY Zenon DEF RecvPut
<1>5. PICK k \in Int : k = state_after_put(snd, p)
  <2>1. snd.req_state \in Int
    BY Zenon, InvParts DEF SndType
  <2> QED BY <2>1 DEF state_after_put
<1>6. PICK s : s = [snd EXCEPT !.req_state = k, !.rdma_frag = FALSE]
  BY Zenon
<1>7. s \in SndType /\ s.req_state = k /\ s.rdma_frag = FALSE
  BY Zenon, <1>5, <1>6, InvParts DEF SndType
<1>8. SameControl(snd, s) /\ SameUnits(snd, s) /\ SameCounts(snd, s)
  BY <1>6 DEF SameControl, SameUnits, SameCounts
<1>9. PICK n : n = [net EXCEPT !.put = @ \ {p}]
  BY Zenon
<1>10. n \in NetType /\ n.put = net.put \ {p}
  BY Zenon, <1>9, InvParts DEF NetType
<1>11. /\ n.first = net.first /\ n.ack = net.ack /\ n.frag = net.frag
       /\ n.finr = net.finr /\ n.fins = net.fins
  BY <1>9
<1>12. SndLocked(s)
  BY Zenon, <1>8, InvParts DEF SndLocked, SameControl
<1> DEFINE After ==
         /\ fails' \in 0 .. MaxFails /\ snd' \in SndType /\ net' \in NetType
         /\ SndLocked(snd') /\ SameCounts(s, snd')
         /\ snd'.frag_lc = s.frag_lc /\ snd'.req_state = s.req_state
         /\ snd'.rdma_frag = s.rdma_frag /\ snd'.pending = s.pending
         /\ snd'.complete = s.complete /\ NetButFin(n, net')
         /\ \/ /\ snd'.put_ops = s.put_ops \cup {p.unit} /\ snd'.ranges = s.ranges
               /\ net'.finr = n.finr /\ snd'.fin_pending = s.fin_pending
            \/ /\ snd'.put_ops = s.put_ops /\ snd'.ranges = s.ranges \cup {p.unit}
               /\ FinSent([unit |-> p.unit, ok |-> FALSE])
<1>13. After
  <2>1. ASSUME Lacking({}), snd' = [s EXCEPT !.put_ops = @ \cup {p.unit}], net' = n
        PROVE  After
    <3>1. fails' \in 0 .. MaxFails
      BY Zenon, <2>1, InvParts, SetupFacts, EmptyCount, FailsLeft
    <3>2. snd' \in SndType /\ snd'.put_ops = s.put_ops \cup {p.unit}
      BY Zenon, <1>1, <1>7, <2>1 DEF SndType
    <3>3. /\ SameControl(s, snd') /\ SameCounts(s, snd')
          /\ snd'.frag_lc = s.frag_lc /\ snd'.req_state = s.req_state
          /\ snd'.rdma_frag = s.rdma_frag /\ snd'.ranges = s.ranges /\ snd'.fin_pending = s.fin_pending
      BY <2>1 DEF SameControl, SameCounts
    <3>4. SndLocked(snd')
      BY Zenon, <1>12, <3>3 DEF SndLocked, SameControl
    <3> QED BY Zenon, <1>10, <2>1, <3>1, <3>2, <3>3, <3>4 DEF SameControl, NetButFin
  <2>2. ASSUME put_frag_failed(s, n, p.unit, {"put"})
        PROVE  After
    <3>1. IsFiniteSet({"put"})
      BY Zenon, OneCount
    <3>2. PutBack(s, n, p.unit)
      BY Zenon, <1>1, <1>7, <1>10, <1>12, <2>2, <3>1, InvParts, PutFailed
    <3>3. n.finr = net.finr /\ s.fin_pending = snd.fin_pending
      BY Zenon, <1>8, <1>11 DEF SameUnits
    <3> QED BY Zenon, <3>2, <3>3 DEF FinSent, PutBack
  <2>3. s = [snd EXCEPT !.req_state = state_after_put(snd, p), !.rdma_frag = FALSE]
    BY Zenon, <1>5, <1>6
  <2>4. \/ Lacking({}) /\ snd' = [s EXCEPT !.put_ops = @ \cup {p.unit}] /\ net' = n
        \/ put_frag_failed(s, n, p.unit, {"put"})
    BY <1>9, <2>3 DEF RecvPut
  <2> QED BY Zenon, <2>1, <2>2, <2>4
<1>14. /\ SameCounts(snd, snd') /\ snd'.frag_lc = snd.frag_lc /\ snd'.req_state = k
       /\ ~snd'.rdma_frag /\ snd'.pending = snd.pending /\ snd'.complete = snd.complete
       /\ net'.first = net.first /\ net'.ack = net.ack /\ net'.frag = net.frag
       /\ net'.fins = net.fins /\ net'.put = net.put \ {p}
  BY Zenon, <1>7, <1>8, <1>10, <1>11, <1>13 DEF SameControl, SameUnits, SameCounts, NetButFin
<1>15. Keeps
  BY Zenon, <1>3, <1>4, <1>14 DEF Keeps, SameCounts
<1>16. KeepsTypes
  BY Zenon, <1>4, <1>13, InvParts DEF KeepsTypes
<1>17. Conserved'
  <2>1. {p.unit} \subseteq Spots[5]
    BY <1>1, PlaceNames
  <2>2. Spots'[5] = Spots[5] \ {p.unit}
    <3>1. \A u \in Units : (\E q \in net'.put : u = q.unit)
                           <=> (\E q \in net.put : u = q.unit) /\ u # p.unit
      BY Zenon, <1>14, InvParts DEF Separate
    <3>2. Units' = Units
      BY Zenon, <1>4 DEF Units
    <3> QED BY <3>1, <3>2, PlaceNames, PlaceNamesNext
  <2>3. \/ Spots'[7] = Spots[7] \cup {p.unit} /\ Spots'[6] = Spots[6]
        \/ Spots'[6] = Spots[6] \cup {p.unit} /\ Spots'[7] = Spots[7]
    <3>1. \/ snd'.put_ops = snd.put_ops \cup {p.unit} /\ snd'.ranges = snd.ranges
          \/ snd'.put_ops = snd.put_ops /\ snd'.ranges = snd.ranges \cup {p.unit}
      BY Zenon, <1>8, <1>13 DEF SameUnits
    <3> QED BY <3>1, PlaceNames, PlaceNamesNext
  <2>4. Move(5, 7, {p.unit}) \/ Move(5, 6, {p.unit})
    BY <1>4, <1>14, <2>1, <2>2, <2>3, SamePlace DEF Move
  <2> QED BY <1>4, <2>4, InvParts, Moves
<1>18. Separate'
  BY Zenon, <1>4, <1>14, InvParts DEF Separate
<1>19. CountOK'
  <2>1. [unit |-> p.unit, ok |-> FALSE].ok = FALSE
    OBVIOUS
  <2>2. CASE net'.finr = n.finr /\ snd'.fin_pending = s.fin_pending
    BY Zenon, <1>4, <1>8, <1>11, <2>2, InvParts, SameCount DEF KeepsCount, SameUnits
  <2>3. CASE FinSent([unit |-> p.unit, ok |-> FALSE])
    BY Zenon, <1>4, <2>1, <2>3, InvParts, CountFailed
  <2> QED BY Zenon, <1>13, <2>2, <2>3
<1>20. GoneOK' /\ Gone' = Gone
  BY Zenon, <1>4, <1>14, <1>15, InvParts, SameGone DEF KeepsGone, KeepsGets, SameCounts
<1>21. RndvOK'
  <2> SUFFICES ASSUME snd.lc = "RNDV" PROVE RndvOK'
    BY Zenon, <1>14 DEF RndvOK, SameCounts
  <2>1. HeaderHasData' = HeaderHasData
    BY Zenon, <1>4 DEF HeaderHasData, RndvLimit, Failing
  <2>2. ASSUME HeaderHasData, snd.eager = {}
        PROVE  snd'.req_state \in {1, 2} /\ (AckDue' => snd'.req_state = 2)
    <3>1. /\ ~snd.rdma_frag /\ snd.req_state \in {1, 2}
          /\ AckDue => snd.req_state = 2
      BY Zenon, <2>2, InvParts DEF RndvOK
    <3>2. CASE p.ack
      <4>1. AckDue
        BY Zenon, <3>2 DEF AckDue
      <4>2. k = 1
        BY <1>5, <3>1, <3>2, <4>1 DEF state_after_put
      <4>3. rcv.ack_sent /\ net.ack = {} /\ rcv.ack_pending = {}
        BY Zenon, <3>2, InvParts DEF RndvOK
      <4>4. \A q \in net'.put : ~q.ack
        BY Zenon, <1>14, <3>2, InvParts DEF RndvOK
      <4>5. ~AckDue'
        BY Zenon, <1>3, <1>4, <1>14, <4>3, <4>4 DEF AckDue
      <4> QED BY <1>14, <4>2, <4>5
    <3>3. CASE ~p.ack
      <4>1. k = snd.req_state
        BY Zenon, <1>5, <3>1, <3>3 DEF state_after_put
      <4>2. AckDue' => AckDue
        BY Zenon, <1>4, <1>14 DEF AckDue
      <4> QED BY Zenon, <1>14, <3>1, <4>1, <4>2
    <3> QED BY Zenon, <3>2, <3>3
  <2> QED BY <1>3, <1>4, <1>14, <2>1, <2>2, InvParts DEF RndvOK, SameCounts
<1>22. Completions
  BY Zenon, <1>4, <1>14, <1>20, InvParts DEF Completions
<1> QED BY Zenon, <1>2, <1>15, <1>16, <1>17, <1>18, <1>19, <1>20, <1>21, <1>22, WorkStep

\* A put is in place.
LEMMA PutDoneStep ==
  ASSUME Counting, IInv, NEW u \in snd.put_ops, setup' = setup, rcv' = [rcv EXCEPT !.got = @ \cup {u}],
         s_send_fin(s_complete_check([snd EXCEPT !.put_ops = @ \ {u}, !.delivered = @ + 1]), net,
                    [unit |-> u, ok |-> TRUE], {})
  PROVE  IInv'
<1>1. u \in Units
  BY Zenon, InvParts DEF SndType
<1>2. ~Idle
  BY Zenon DEF Idle
<1>3. rcv.matched /\ net.first = {} /\ snd.lc # "MATCH" /\ snd.pending # "START"
  BY Zenon, <1>2, NotIdle
<1>4. rcv' \in RcvType /\ rcv'.got = rcv.got \cup {u}
  BY Zenon, <1>1, InvParts DEF RcvType
<1>5. /\ SamePlan(rcv, rcv') /\ SameAsked(rcv, rcv') /\ SameGets(rcv, rcv')
      /\ SameLoop(rcv, rcv') /\ rcv'.received = rcv.received
  BY DEF SamePlan, SameAsked, SameGets, SameLoop
<1>6. PICK d \in Nat : d = snd.delivered + 1
  BY InvParts DEF SndType
<1>7. PICK s : s = [snd EXCEPT !.put_ops = @ \ {u}, !.delivered = d]
  BY Zenon
<1>8. s \in SndType /\ s.put_ops = snd.put_ops \ {u} /\ s.delivered = d
  BY Zenon, <1>6, <1>7, InvParts DEF SndType
<1>9. /\ SameControl(snd, s) /\ s.ranges = snd.ranges /\ s.frag_lc = snd.frag_lc
      /\ s.fin_pending = snd.fin_pending /\ s.remaining = snd.remaining
      /\ s.lc = snd.lc /\ s.eager = snd.eager /\ s.req_state = snd.req_state
      /\ s.rdma_frag = snd.rdma_frag
  BY <1>7 DEF SameControl
<1>10. PICK t : t = s_complete_check(s)
  BY Zenon
<1>11. SndControl(s, t)
  <2>1. SndLocked(s)
    BY Zenon, <1>9, InvParts DEF SndLocked, SameControl
  <2> QED BY Zenon, <1>8, <1>10, <2>1, SndCheck
<1>12. PICK f : f = [unit |-> u, ok |-> TRUE]
  BY Zenon
<1>13. f \in [unit : Units, ok : BOOLEAN] /\ f.unit = u /\ f.ok = TRUE
  BY <1>1, <1>12
<1>14. s_send_fin(t, net, f, {})
  <2>1. s = [snd EXCEPT !.put_ops = @ \ {u}, !.delivered = @ + 1]
    BY Zenon, <1>6, <1>7
  <2> QED BY Zenon, <1>10, <1>12, <2>1
<1>15. /\ fails' \in 0 .. MaxFails /\ snd' \in SndType /\ net' \in NetType
       /\ SameButFin(t, snd') /\ NetButFin(net, net')
       /\ \/ net'.finr = net.finr \cup {f} /\ snd'.fin_pending = t.fin_pending
          \/ net'.finr = net.finr /\ snd'.fin_pending = t.fin_pending \cup {f}
  <2>1. t \in SndType /\ IsFiniteSet({})
    BY Zenon, <1>11, EmptyCount DEF SndControl
  <2> QED BY Zenon, <1>13, <1>14, <2>1, InvParts, SendFin
<1>16. /\ snd'.put_ops = snd.put_ops \ {u} /\ snd'.delivered = snd.delivered + 1
       /\ snd'.ranges = snd.ranges /\ snd'.frag_lc = snd.frag_lc
       /\ snd'.remaining = snd.remaining /\ snd'.lc = snd.lc /\ snd'.eager = snd.eager
       /\ snd'.req_state = snd.req_state /\ snd'.rdma_frag = snd.rdma_frag
       /\ snd'.pending = snd.pending
  BY ZenonT(60), <1>6, <1>8, <1>9, <1>11, <1>15 DEF SndControl, SameData, SameButFin, SameControl, SameCounts
<1>17. FinSent(f)
  BY Zenon, <1>9, <1>11, <1>15 DEF FinSent, SndControl, SameData
<1>18. Keeps
  BY Zenon, <1>3, <1>5, <1>15, <1>16 DEF Keeps, SamePlan, NetButFin
<1>19. KeepsTypes
  <2>1. SndLocked(snd')
    BY Zenon, <1>11, <1>15 DEF SndControl, SndLocked, SameButFin, SameControl
  <2>2. RcvLocked(rcv')
    BY Zenon, <1>5, InvParts DEF RcvLocked, SameLoop
  <2> QED BY Zenon, <1>4, <1>15, <2>1, <2>2 DEF KeepsTypes
<1>20. Conserved'
  <2>1. {u} \subseteq Spots[7]
    BY Zenon, PlaceNames
  <2>2. Spots'[7] = Spots[7] \ {u} /\ Spots'[11] = Spots[11] \cup {u}
    BY Zenon, <1>4, <1>16, PlaceNames, PlaceNamesNext
  <2>3. Move(7, 11, {u})
    BY <1>5, <1>15, <1>16, <2>1, <2>2, SamePlace DEF Move, SamePlan, SameAsked, SameGets, NetButFin
  <2> QED BY <1>18, <2>3, InvParts, Moves DEF Keeps
<1>21. Separate'
  BY Zenon, <1>5, <1>15, InvParts DEF Separate, SameAsked, NetButFin
<1>22. u \notin rcv.got /\ u \notin net.frag
  <2>1. u \in Spots[7]
    BY Zenon, PlaceNames
  <2>2. u \notin Spots[11] /\ u \notin Spots[10]
    BY <1>1, <1>3, <2>1, InvParts, OnePlace
  <2> QED BY Zenon, <2>2, PlaceNames
<1>23. CountOK'
  BY Zenon, <1>4, <1>5, <1>13, <1>17, <1>22, InvParts, CountPut
<1>24. KeepsGets
  BY Zenon, <1>5 DEF KeepsGets, SamePlan, SameGets
<1>25. GoneOK' /\ Gone \subseteq Gone'
  <2>1. u \notin Gone
    BY Zenon, <1>3, <1>22 DEF Gone, FirstUnits
  <2>2. net'.frag = net.frag /\ net'.fins = net.fins /\ rcv'.fin_pending = rcv.fin_pending
    BY Zenon, <1>5, <1>15 DEF NetButFin, SameGets
  <2> QED BY Zenon, <1>4, <1>16, <1>18, <1>24, <2>1, <2>2, InvParts, GonePut
<1>26. RndvOK'
  BY Zenon, <1>5, <1>15, <1>16, <1>18, <1>24, InvParts, SameRndv DEF KeepsAcks, SameAsked, NetButFin
<1>27. Completions
  <2>1. snd'.complete /\ ~snd.complete =>
          snd'.req_state = 0 /\ snd'.delivered >= setup.size /\ snd'.pending # "SCHEDULE"
    BY ZenonT(60), <1>6, <1>8, <1>9, <1>11, <1>15, <1>16 DEF SndControl, SameButFin, SameControl
  <2> QED BY Zenon, <1>4, <1>5, <1>16, <1>25, <2>1, InvParts DEF Completions, SameLoop
<1> QED BY Zenon, <1>2, <1>18, <1>19, <1>20, <1>21, <1>23, <1>25, <1>26, <1>27, WorkStep

\* A put failed: its unit is copied.
LEMMA PutErrorStep ==
  ASSUME Counting, IInv, NEW u \in snd.put_ops, setup' = setup, rcv' = rcv,
         put_frag_failed([snd EXCEPT !.put_ops = @ \ {u}], net, u, {})
  PROVE  IInv'
<1>1. u \in Units
  BY Zenon, InvParts DEF SndType
<1>2. ~Idle
  BY Zenon DEF Idle
<1>3. rcv.matched /\ net.first = {} /\ snd.lc # "MATCH" /\ snd.pending # "START"
  BY Zenon, <1>2, NotIdle
<1>4. PICK s : s = [snd EXCEPT !.put_ops = @ \ {u}]
  BY Zenon
<1>5. s \in SndType /\ s.put_ops = snd.put_ops \ {u}
  BY Zenon, <1>4, InvParts DEF SndType
<1>6. /\ SameControl(snd, s) /\ SameCounts(snd, s) /\ s.ranges = snd.ranges
      /\ s.frag_lc = snd.frag_lc /\ s.fin_pending = snd.fin_pending
      /\ s.req_state = snd.req_state /\ s.rdma_frag = snd.rdma_frag
  BY <1>4 DEF SameControl, SameCounts
<1>7. PutBack(s, net, u)
  <2>1. SndLocked(s) /\ IsFiniteSet({})
    BY Zenon, <1>6, InvParts, EmptyCount DEF SndLocked, SameControl
  <2> QED BY Zenon, <1>1, <1>4, <1>5, <2>1, InvParts, PutFailed
<1>8. /\ snd'.put_ops = snd.put_ops \ {u} /\ snd'.ranges = snd.ranges \cup {u}
      /\ SameCounts(snd, snd') /\ snd'.frag_lc = snd.frag_lc
      /\ snd'.req_state = snd.req_state /\ snd'.rdma_frag = snd.rdma_frag
      /\ snd'.pending = snd.pending /\ snd'.complete = snd.complete
  BY Zenon, <1>5, <1>6, <1>7 DEF PutBack, SameControl, SameCounts
<1>9. NetButFin(net, net')
  BY Zenon, <1>7 DEF PutBack
<1>10. Keeps
  BY Zenon, <1>3, <1>8, <1>9 DEF Keeps, SameCounts, NetButFin
<1>11. KeepsTypes
  BY Zenon, <1>7, InvParts DEF KeepsTypes, PutBack
<1>12. Conserved'
  <2>1. {u} \subseteq Spots[7]
    BY Zenon, PlaceNames
  <2>2. Spots'[7] = Spots[7] \ {u} /\ Spots'[6] = Spots[6] \cup {u}
    BY Zenon, <1>8, PlaceNames, PlaceNamesNext
  <2>3. Move(7, 6, {u})
    BY <1>9, <2>1, <2>2, SamePlace DEF Move, NetButFin
  <2> QED BY <1>10, <2>3, InvParts, Moves DEF Keeps
<1>13. Separate'
  BY Zenon, <1>9, InvParts DEF Separate, NetButFin
<1>14. CountOK'
  <2>1. FinSent([unit |-> u, ok |-> FALSE]) /\ [unit |-> u, ok |-> FALSE].ok = FALSE
    BY <1>6, <1>7 DEF FinSent, PutBack
  <2> QED BY Zenon, <2>1, InvParts, CountFailed
<1>15. GoneOK' /\ Gone' = Gone
  BY Zenon, <1>8, <1>9, <1>10, InvParts, SameGone DEF KeepsGone, KeepsGets, SameCounts, NetButFin
<1>16. RndvOK'
  BY Zenon, <1>8, <1>9, <1>10, InvParts, SameRndv DEF KeepsAcks, KeepsGets, NetButFin
<1>17. Completions
  BY Zenon, <1>8, <1>15, InvParts DEF Completions
<1> QED BY Zenon, <1>2, <1>10, <1>11, <1>12, <1>13, <1>14, <1>15, <1>16, <1>17, WorkStep

\* A put of the sender completes: the FIN message goes out, or is queued.
LEMMA PutCompletionStep ==
  ASSUME Counting, IInv, NEW u \in snd.put_ops, PutCompletion(u)
  PROVE  IInv'
<1>1. setup' = setup
  BY Zenon DEF PutCompletion
<1>2. CASE /\ put_frag_failed([snd EXCEPT !.put_ops = @ \ {u}], net, u, {})
           /\ rcv' = rcv
  BY Zenon, <1>1, <1>2, PutErrorStep
<1>3. CASE /\ s_send_fin(s_complete_check([[snd EXCEPT !.put_ops = @ \ {u}]
                                             EXCEPT !.delivered = @ + 1]), net,
                         [unit |-> u, ok |-> TRUE], {})
           /\ rcv' = [rcv EXCEPT !.got = @ \cup {u}]
  <2>1. [[snd EXCEPT !.put_ops = @ \ {u}] EXCEPT !.delivered = @ + 1]
          = [snd EXCEPT !.put_ops = @ \ {u}, !.delivered = @ + 1]
    BY InvParts DEF SndType
  <2>2. PICK s : s = [snd EXCEPT !.put_ops = @ \ {u}, !.delivered = @ + 1]
    BY Zenon
  <2>3. s_send_fin(s_complete_check(s), net, [unit |-> u, ok |-> TRUE], {})
    BY Zenon, <1>3, <2>1, <2>2
  <2> QED BY Zenon, <1>1, <1>3, <2>2, <2>3, PutDoneStep
<1> QED BY Zenon, <1>2, <1>3 DEF PutCompletion

\* A FIN that waited is sent.
LEMMA SendPendingFinStep ==
  ASSUME Counting, IInv, NEW f \in snd.fin_pending, SendPendingFin(f)
  PROVE  IInv'
<1>1. /\ snd' = [snd EXCEPT !.fin_pending = @ \ {f}] /\ net' = [net EXCEPT !.finr = @ \cup {f}]
      /\ setup' = setup /\ rcv' = rcv /\ fails' = fails
  BY Zenon DEF SendPendingFin
<1>2. f \in [unit : Units, ok : BOOLEAN]
  BY Zenon, InvParts DEF SndType
<1>3. ~Idle
  BY Zenon DEF Idle
<1>4. snd' \in SndType /\ snd'.fin_pending = snd.fin_pending \ {f}
  BY Zenon, <1>1, InvParts DEF SndType
<1>5. SameButFin(snd, snd') /\ NetButFin(net, net')
  BY <1>1 DEF SameButFin, SameControl, SameCounts, NetButFin
<1>6. net' \in NetType /\ net'.finr = net.finr \cup {f}
  BY Zenon, <1>1, <1>2, InvParts DEF NetType
<1>7. Keeps
  BY Zenon, <1>1, <1>3, <1>5, NotIdle DEF Keeps, SameButFin, SameControl, SameCounts, NetButFin
<1>8. KeepsTypes
  <2>1. SndLocked(snd')
    BY Zenon, <1>5, InvParts DEF SndLocked, SameButFin, SameControl
  <2> QED BY Zenon, <1>1, <1>4, <1>6, <2>1, InvParts DEF KeepsTypes
<1>9. Conserved' /\ Separate'
  BY Zenon, <1>1, <1>5, InvParts, SamePlaces DEF KeepsPlaces, SameButFin, NetButFin
<1>10. CountOK'
  BY Zenon, <1>1, <1>4, <1>6, InvParts, CountSent
<1>11. GoneOK' /\ Gone' = Gone
  BY Zenon, <1>1, <1>5, <1>7, InvParts, SameGone
     DEF KeepsGone, KeepsGets, SameButFin, SameCounts, NetButFin
<1>12. RndvOK'
  BY Zenon, <1>1, <1>5, <1>7, InvParts, SameRndv DEF KeepsAcks, KeepsGets, SameButFin, NetButFin
<1>13. Completions
  BY Zenon, <1>1, <1>5, <1>11, InvParts DEF Completions, SameButFin, SameControl
<1> QED BY Zenon, <1>3, <1>7, <1>8, <1>9, <1>10, <1>11, <1>12, <1>13, WorkStep

\* A fragment has left the buffer.
LEMMA FragCompletionStep ==
  ASSUME Counting, IInv, NEW u \in snd.frag_lc, FragCompletion(u)
  PROVE  IInv'
<1>1. setup' = setup /\ rcv' = rcv /\ net' = net /\ fails' = fails
  BY Zenon DEF FragCompletion
<1>2. ~Idle
  BY Zenon DEF Idle
<1>3. PICK d \in Nat : d = snd.delivered + 1
  BY InvParts DEF SndType
<1>4. PICK k \in Int : k = snd.depth - 1
  BY InvParts DEF SndType
<1>5. PICK s : s = [snd EXCEPT !.frag_lc = @ \ {u}, !.depth = k, !.delivered = d]
  BY Zenon
<1>6. s \in SndType /\ s.frag_lc = snd.frag_lc \ {u} /\ s.delivered = d
  BY ZenonT(60), <1>3, <1>4, <1>5, InvParts DEF SndType
<1>7. /\ SameControl(snd, s) /\ s.ranges = snd.ranges /\ s.put_ops = snd.put_ops
      /\ s.fin_pending = snd.fin_pending /\ s.remaining = snd.remaining
      /\ s.lc = snd.lc /\ s.eager = snd.eager /\ s.req_state = snd.req_state
      /\ s.rdma_frag = snd.rdma_frag
  BY <1>5 DEF SameControl
<1>8. SndControl(s, snd')
  <2>1. SndLocked(s)
    BY Zenon, <1>7, InvParts DEF SndLocked, SameControl
  <2>2. snd' = s_check_or_schedule(s)
    BY Zenon, <1>3, <1>4, <1>5 DEF FragCompletion
  <2> QED BY Zenon, <1>6, <2>1, <2>2, SndCheckOrSchedule
<1>9. /\ snd'.ranges = snd.ranges /\ snd'.put_ops = snd.put_ops
      /\ snd'.frag_lc = snd.frag_lc \ {u} /\ snd'.delivered = snd.delivered + 1
      /\ snd'.fin_pending = snd.fin_pending /\ snd'.remaining = snd.remaining
      /\ snd'.lc = snd.lc /\ snd'.eager = snd.eager /\ snd'.req_state = snd.req_state
      /\ snd'.rdma_frag = snd.rdma_frag /\ snd'.pending = snd.pending
  BY Zenon, <1>3, <1>6, <1>7, <1>8 DEF SndControl, SameData, SameControl
<1>10. Keeps
  BY Zenon, <1>1, <1>2, <1>9, NotIdle DEF Keeps
<1>11. KeepsTypes
  BY Zenon, <1>1, <1>8, InvParts DEF KeepsTypes, SndControl
<1>12. Conserved' /\ Separate'
  BY Zenon, <1>1, <1>9, InvParts, SamePlaces DEF KeepsPlaces
<1>13. CountOK'
  BY Zenon, <1>1, <1>9, InvParts, SameCount DEF KeepsCount
<1>14. KeepsGets
  BY Zenon, <1>1 DEF KeepsGets
<1>15. GoneOK' /\ Gone' = Gone
  BY Zenon, <1>1, <1>9, <1>10, <1>14, InvParts, GoneCounted
<1>16. RndvOK'
  BY Zenon, <1>1, <1>9, <1>10, <1>14, InvParts, SameRndv DEF KeepsAcks
<1>17. Completions
  <2>1. snd'.complete /\ ~snd.complete =>
          snd'.req_state = 0 /\ snd'.delivered >= setup.size /\ snd'.pending # "SCHEDULE"
    BY Zenon, <1>7, <1>8 DEF SndControl, SameData, SameControl
  <2>2. snd.complete => snd'.pending = "NONE" /\ snd'.frag_lc = {}
    BY Zenon, InvParts
  <2> QED BY Zenon, <1>1, <1>15, <2>1, <2>2 DEF Completions
<1> QED BY Zenon, <1>2, <1>10, <1>11, <1>12, <1>13, <1>15, <1>16, <1>17, WorkStep

\* A fragment is sent, or the request is queued still locked.
LEMMA ScheduleFragStep ==
  ASSUME Counting, IInv, NEW u \in snd.ranges, ScheduleFrag(u)
  PROVE  IInv'
<1>1. setup' = setup /\ rcv' = rcv /\ snd.loop = "IN"
  BY Zenon DEF ScheduleFrag
<1>2. ~Idle /\ u \in Units
  BY Zenon, InvParts DEF Idle, SndType
<1>3. rcv.matched /\ net.first = {} /\ snd.lc # "MATCH" /\ snd.pending # "START"
  BY Zenon, <1>2, NotIdle
<1>4. u \notin Gone
  <2>1. u \in Spots[6]
    BY Zenon, PlaceNames
  <2>2. u \notin Spots[10] /\ u \notin Spots[11]
    BY <1>2, <1>3, <2>1, InvParts, OnePlace
  <2> QED BY Zenon, <1>3, <2>2, PlaceNames DEF Gone, FirstUnits
<1>5. ~snd.complete
  BY Zenon, <1>2, <1>4 DEF IInv, SendDone
<1>6. ASSUME Lacking({"frag"}), net' = net,
             snd' = [snd EXCEPT !.loop = "NO", !.pending = "SCHEDULE"]
      PROVE  IInv'
  <2>1. fails' \in 0 .. MaxFails
    BY Zenon, <1>6, InvParts, SetupFacts, OneCount, FailsLeft
  <2>2. snd' \in SndType /\ snd'.loop = "NO" /\ snd'.pending = "SCHEDULE"
    BY Zenon, <1>6, InvParts DEF SndType
  <2>3. /\ SameUnits(snd, snd') /\ SameCounts(snd, snd') /\ snd'.lock = snd.lock
        /\ snd'.req_state = snd.req_state /\ snd'.rdma_frag = snd.rdma_frag
        /\ snd'.complete = snd.complete
    BY <1>6 DEF SameUnits, SameCounts
  <2>4. SndLocked(snd')
    BY <1>1, <2>2, <2>3, InvParts DEF SndLocked
  <2> QED BY Zenon, <1>1, <1>2, <1>5, <1>6, <2>1, <2>2, <2>3, <2>4, SndLoop
<1>7. ASSUME Lacking({}), net' = [net EXCEPT !.frag = @ \cup {u}],
             snd' = [snd EXCEPT !.ranges = @ \ {u}, !.frag_lc = @ \cup {u}, !.depth = @ + 1]
      PROVE  IInv'
  <2>1. fails' \in 0 .. MaxFails
    BY Zenon, <1>7, InvParts, SetupFacts, EmptyCount, FailsLeft
  <2>2. PICK d \in Int : d = snd.depth + 1
    BY InvParts DEF SndType
  <2>3. /\ snd' \in SndType /\ snd'.ranges = snd.ranges \ {u}
        /\ snd'.frag_lc = snd.frag_lc \cup {u}
    BY Zenon, <1>2, <1>7, <2>2, InvParts DEF SndType
  <2>4. /\ SameControl(snd, snd') /\ SameCounts(snd, snd') /\ snd'.put_ops = snd.put_ops
        /\ snd'.fin_pending = snd.fin_pending
        /\ snd'.req_state = snd.req_state /\ snd'.rdma_frag = snd.rdma_frag
    BY <1>7 DEF SameControl, SameCounts
  <2>5. net' \in NetType /\ net'.frag = net.frag \cup {u}
    BY Zenon, <1>2, <1>7, InvParts DEF NetType
  <2>6. /\ net'.first = net.first /\ net'.ack = net.ack /\ net'.put = net.put
        /\ net'.finr = net.finr /\ net'.fins = net.fins
    BY <1>7
  <2>7. Keeps
    BY Zenon, <1>1, <1>3, <2>4, <2>6 DEF Keeps, SameControl, SameCounts
  <2>8. KeepsTypes
    <3>1. SndLocked(snd')
      BY Zenon, <2>4, InvParts DEF SndLocked, SameControl
    <3> QED BY Zenon, <1>1, <2>1, <2>3, <2>5, <3>1, InvParts DEF KeepsTypes
  <2>9. Conserved'
    <3>1. {u} \subseteq Spots[6]
      BY Zenon, PlaceNames
    <3>2. Spots'[6] = Spots[6] \ {u} /\ Spots'[10] = Spots[10] \cup {u}
      BY Zenon, <2>3, <2>5, PlaceNames, PlaceNamesNext
    <3>3. Move(6, 10, {u})
      BY <1>1, <2>4, <2>6, <3>1, <3>2, SamePlace DEF Move
    <3> QED BY <1>1, <3>3, InvParts, Moves
  <2>10. Separate'
    BY Zenon, <1>1, <2>6, InvParts DEF Separate
  <2>11. CountOK'
    BY Zenon, <1>1, <2>4, <2>6, InvParts, SameCount DEF KeepsCount
  <2>12. GoneOK' /\ Gone \subseteq Gone'
    <3>1. Getting' => Getting
      BY Zenon, <1>1, <2>6 DEF Getting
    <3> QED BY Zenon, <1>1, <1>4, <2>3, <2>4, <2>5, <2>6, <2>7, <3>1, InvParts, GoneLater
            DEF SameCounts
  <2>13. RndvOK'
    BY Zenon, <1>1, <2>4, <2>6, <2>7, InvParts, SameRndv DEF KeepsAcks, KeepsGets
  <2>14. Completions
    BY Zenon, <1>1, <1>5, <2>4, <2>12 DEF Completions, SameControl
  <2> QED BY Zenon, <1>2, <2>7, <2>8, <2>9, <2>10, <2>11, <2>12, <2>13, <2>14, WorkStep
<1> QED BY Zenon, <1>6, <1>7 DEF ScheduleFrag

\* The FIN of a get: when it is the last one the sender counts all units.
LEMMA GoneFin ==
  ASSUME Counting, IInv, rcv.matched, Keeps, KeepsGets, NEW u \in net.fins,
         net'.fins = net.fins \ {u}, snd'.remaining = snd.remaining - 1,
         snd'.remaining = 0 => snd'.delivered = snd.delivered + setup.size,
         snd'.remaining # 0 => snd'.delivered = snd.delivered,
         rcv'.got = rcv.got, net'.frag = net.frag, snd'.frag_lc = snd.frag_lc,
         rcv'.fin_pending = rcv.fin_pending
  PROVE  GoneOK' /\ Gone' = Gone
<1>1. Gone' = Gone /\ Eager' = Eager
  BY Zenon DEF Gone, FirstUnits, Eager, Keeps
<1>2. Uncounted' = Uncounted \ {u} /\ u \in Uncounted
  BY <1>1, InvParts DEF Uncounted, GoneOK
<1>3. Gone' \ Uncounted' = (Gone \ Uncounted) \cup {u} /\ u \notin Gone \ Uncounted
  BY Zenon, <1>1, <1>2, InvParts DEF GoneOK
<1>4. Gone \ Uncounted \subseteq Units
  BY Zenon, InvParts, GoneTypes
<1>5. Cardinality(Gone' \ Uncounted') = Cardinality(Gone \ Uncounted) + 1
  <2>1. setup.size \in Nat
    BY Zenon, InvParts, GoneTypes
  <2>2. Cardinality((Gone \ Uncounted) \cup {u}) = Cardinality(Gone \ Uncounted) + 1
    BY Zenon, <1>3, <1>4, <2>1, OneMore
  <2> QED BY Zenon, <1>3, <2>2
<1>6. snd.remaining > 0 /\ snd.remaining \in 0 .. setup.size
  BY Zenon, InvParts DEF GoneOK, Getting
<1>7. ByGet' = (IF snd'.remaining = 0 THEN 0 ELSE setup.size - snd'.remaining)
  BY Zenon DEF ByGet, Keeps
<1>8. snd'.delivered + ByGet' <= Cardinality(Gone' \ Uncounted')
  <2>1. snd.delivered + (setup.size - snd.remaining) <= Cardinality(Gone \ Uncounted)
    BY <1>6, InvParts DEF GoneOK, ByGet
  <2>2. setup.size \in Nat /\ snd.delivered \in Nat /\ Cardinality(Gone \ Uncounted) \in Nat
    BY Zenon, InvParts, GoneTypes
  <2> QED BY <1>5, <1>6, <1>7, <2>1, <2>2
<1>9. Uncounted' \subseteq Gone'
  BY Zenon, <1>1, <1>2, InvParts DEF GoneOK
<1>10. /\ snd'.frag_lc \cap (net'.fins \cup rcv'.fin_pending \cup Eager') = {}
       /\ net'.fins \cap (rcv'.fin_pending \cup Eager') = {}
       /\ rcv'.fin_pending \cap Eager' = {}
  BY <1>1, InvParts DEF GoneOK
<1>11. snd'.remaining \in 0 .. setup.size
  BY <1>6, InvParts, GoneTypes
<1>12. Getting' => snd'.remaining > 0
  <2> SUFFICES ASSUME snd'.remaining = 0 PROVE ~Getting'
    <3>1. setup.size \in Nat
      BY Zenon, InvParts, GoneTypes
    <3>2. \A r \in 0 .. setup.size : r = 0 \/ r > 0
      BY <3>1
    <3> QED BY Zenon, <1>11, <3>2
  <2>1. Cardinality(Gone' \ Uncounted') >= setup.size
    <3>1. setup.size \in Nat /\ snd.delivered \in Nat /\ Cardinality(Gone \ Uncounted) \in Nat
      BY Zenon, InvParts, GoneTypes
    <3>2. snd'.delivered = snd.delivered + setup.size /\ ByGet' = 0
      BY Zenon, <1>7
    <3> QED BY <1>5, <1>8, <3>1, <3>2
  <2>2. Gone' \ Uncounted' \subseteq Units
    BY Zenon, <1>1, InvParts, GoneTypes
  <2>3. Gone' \ Uncounted' = Units
    BY Zenon, <2>1, <2>2, InvParts, GoneTypes, AllUnits
  <2>4. net'.fins = {} /\ rcv'.fin_pending = {}
    <3>1. Gone' \subseteq Units
      BY Zenon, <1>1, InvParts, GoneTypes
    <3> QED BY Zenon, <1>9, <2>3, <3>1 DEF Uncounted
  <2>5. net.first = {} /\ net'.first = {}
    BY Zenon DEF IInv, FirstOK, Keeps
  <2>6. \A v \in Units : v \in rcv.got \/ v \in net.frag
    BY Zenon, <1>1, <2>3, <2>5 DEF Gone, FirstUnits
  <2>7. \A v \in Units : v \in Spots[10] \/ v \in Spots[11]
    BY Zenon, <2>6, PlaceNames
  <2>8. \A v \in Units : v \notin Spots[1] /\ v \notin Spots[8] /\ v \notin Spots[9]
    BY <2>7, InvParts, OnePlace
  <2>9. rcv.gets = {} /\ rcv.rdma_pending = {}
    <3>1. rcv.gets \subseteq Units /\ rcv.rdma_pending \subseteq Units
      BY Zenon, InvParts DEF RcvType
    <3> QED BY <2>8, <3>1, PlaceNames
  <2>10. ~rcv.getting
    <3> SUFFICES ASSUME rcv.getting PROVE FALSE
      OBVIOUS
    <3>1. rcv.get_offset \in 0 .. setup.size /\ rcv.get_offset < setup.size
      BY Zenon, InvParts DEF RcvType, GoneOK
    <3>2. setup.size \in Nat
      BY Zenon, InvParts, GoneTypes
    <3>3. rcv.get_offset \in Units /\ rcv.get_offset >= rcv.get_offset
      BY <3>1, <3>2 DEF Units
    <3> QED BY Zenon, <2>8, <3>3, PlaceNames
  <2> QED BY Zenon, <2>4, <2>5, <2>9, <2>10 DEF Getting, KeepsGets
<1> QED BY Zenon, <1>1, <1>8, <1>9, <1>10, <1>11, <1>12, InvParts DEF GoneOK, Keeps, KeepsGets

\* The FIN of a get.
LEMMA RecvFinGetStep ==
  ASSUME Counting, IInv, NEW u \in net.fins, RecvFinGet(u)
  PROVE  IInv'
<1>1. /\ setup' = setup /\ rcv' = rcv /\ fails' = fails
      /\ net' = [net EXCEPT !.fins = @ \ {u}]
  BY Zenon DEF RecvFinGet
<1>2. ~Idle
  BY Zenon DEF Idle
<1>3. rcv.matched /\ net.first = {} /\ snd.lc # "MATCH" /\ snd.pending # "START"
  BY Zenon, <1>2, NotIdle
<1>4. net' \in NetType /\ net'.fins = net.fins \ {u}
  BY Zenon, <1>1, InvParts DEF NetType
<1>5. /\ net'.first = net.first /\ net'.ack = net.ack /\ net'.put = net.put
      /\ net'.frag = net.frag /\ net'.finr = net.finr
  BY <1>1
<1>6. PICK left \in Int : left = snd.remaining - 1
  BY InvParts DEF SndType
<1>7. PICK d \in Nat : d = IF frag_done(left) THEN snd.delivered + setup.size ELSE snd.delivered
  BY InvParts, GoneTypes
<1>8. PICK b \in BOOLEAN : b = (snd.rdma_frag /\ ~frag_done(left))
  BY Zenon
<1>9. PICK s : s = [snd EXCEPT !.remaining = left, !.delivered = d, !.rdma_frag = b]
  BY Zenon
<1>10. s \in SndType /\ s.remaining = left /\ s.delivered = d /\ s.rdma_frag = b
  BY ZenonT(60), <1>6, <1>7, <1>8, <1>9, InvParts DEF SndType
<1>11. /\ SameControl(snd, s) /\ SameUnits(snd, s)
       /\ s.lc = snd.lc /\ s.eager = snd.eager /\ s.req_state = snd.req_state
  BY <1>9 DEF SameControl, SameUnits
<1>12. SndControl(s, snd')
  <2>1. SndLocked(s)
    BY Zenon, <1>11, InvParts DEF SndLocked, SameControl
  <2>2. snd' = s_complete_check(s)
    BY Zenon, <1>6, <1>7, <1>8, <1>9 DEF RecvFinGet
  <2> QED BY Zenon, <1>10, <2>1, <2>2, SndCheck
<1>13. /\ SameUnits(snd, snd') /\ snd'.remaining = left /\ snd'.delivered = d
       /\ snd'.rdma_frag = b /\ snd'.req_state = snd.req_state
       /\ snd'.lc = snd.lc /\ snd'.eager = snd.eager /\ snd'.pending = snd.pending
  BY Zenon, <1>10, <1>11, <1>12 DEF SndControl, SameData, SameControl, SameUnits
<1>14. Keeps
  BY Zenon, <1>1, <1>3, <1>5, <1>13 DEF Keeps
<1>15. KeepsTypes
  BY Zenon, <1>1, <1>4, <1>12, InvParts DEF KeepsTypes, SndControl
<1>16. Conserved' /\ Separate'
  BY Zenon, <1>1, <1>5, <1>13, InvParts, SamePlaces DEF KeepsPlaces, SameUnits
<1>17. CountOK'
  BY Zenon, <1>1, <1>5, <1>13, InvParts, SameCount DEF KeepsCount, SameUnits
<1>18. KeepsGets
  BY Zenon, <1>1 DEF KeepsGets
<1>19. GoneOK' /\ Gone' = Gone
  <2>1. /\ snd'.remaining = snd.remaining - 1
        /\ snd'.remaining = 0 => snd'.delivered = snd.delivered + setup.size
        /\ snd'.remaining # 0 => snd'.delivered = snd.delivered
    BY Zenon, <1>6, <1>7, <1>13 DEF frag_done
  <2> QED BY Zenon, <1>1, <1>3, <1>4, <1>5, <1>13, <1>14, <1>18, <2>1, GoneFin DEF SameUnits
<1>20. RndvOK'
  BY Zenon, <1>1, <1>5, <1>8, <1>13, <1>14, <1>18, InvParts, SameRndv DEF KeepsAcks
<1>21. Completions
  <2>1. snd'.complete /\ ~snd.complete =>
          snd'.req_state = 0 /\ snd'.delivered >= setup.size /\ snd'.pending # "SCHEDULE"
    BY Zenon, <1>11, <1>12 DEF SndControl, SameData, SameControl
  <2> QED BY Zenon, <1>1, <1>13, <1>19, <2>1, InvParts DEF Completions, SameUnits
<1> QED BY Zenon, <1>2, <1>14, <1>15, <1>16, <1>17, <1>19, <1>20, <1>21, WorkStep

------------------------------------------------------------------------------
(* The first header.                                                       *)

\* Nothing else starts.
LEMMA StaysIdle ==
  ASSUME Idle, setup' = setup, rcv' = rcv,
         net'.ack = net.ack, net'.put = net.put, net'.frag = net.frag,
         net'.finr = net.finr, net'.fins = net.fins, SameUnits(snd, snd'),
         snd'.loop = snd.loop, snd'.checks = snd.checks, snd'.pending # "SCHEDULE"
  PROVE  Idle'
BY Zenon DEF Idle, SameUnits

\* The buffer of a MATCH header is free.
LEMMA MatchCompletionStep == IInv /\ MatchCompletion => IInv'
<1> SUFFICES ASSUME IInv, MatchCompletion PROVE IInv'
  OBVIOUS
<1>1. /\ setup' = setup /\ rcv' = rcv /\ net' = net /\ fails' = fails /\ snd.lc = "MATCH"
      /\ snd' = [snd EXCEPT !.lc = "NONE", !.complete = TRUE]
  BY Zenon DEF MatchCompletion
<1>2. snd' \in SndType /\ snd'.lc = "NONE" /\ snd'.complete = TRUE
  BY Zenon, <1>1, InvParts DEF SndType
<1>3. /\ SameUnits(snd, snd') /\ snd'.lock = snd.lock /\ snd'.loop = snd.loop
      /\ snd'.checks = snd.checks /\ snd'.pending = snd.pending
      /\ snd'.delivered = snd.delivered /\ snd'.remaining = snd.remaining
  BY <1>1 DEF SameUnits
<1>4. /\ Idle /\ snd.pending = "NONE" /\ snd.frag_lc = {}
      /\ Units \subseteq rcv.got \cup FirstUnits
  BY Zenon, <1>1 DEF IInv, MatchOK, Idle
<1>5. Idle'
  BY Zenon, <1>1, <1>3, <1>4, StaysIdle
<1>6. KeepsTypes
  BY Zenon, <1>1, <1>2, <1>3, InvParts DEF KeepsTypes, SndLocked
<1>7. /\ Units' = Units /\ FirstUnits' = FirstUnits /\ Gone' = Gone /\ Getting' = Getting
      /\ Eager = {} /\ Eager' = {} /\ ByGet' = ByGet
      /\ \A h : HeaderOK(h)' = HeaderOK(h)
  <2>1. Eager = {} /\ Eager' = {}
    BY <1>1, <1>2 DEF Eager
  <2>2. setup' = setup /\ rcv' = rcv /\ net' = net /\ snd'.remaining = snd.remaining
    BY Zenon, <1>1, <1>3
  <2> QED BY Zenon, <2>1, <2>2 DEF Units, FirstUnits, Gone, Getting, ByGet, HeaderOK
<1>8. FirstOK' /\ MatchOK'
  BY Zenon, <1>1, <1>2, <1>3, <1>4, <1>5, <1>7 DEF IInv, FirstOK, MatchOK
<1>9. Conserved' /\ Separate'
  BY Zenon, <1>1, <1>3, InvParts, SamePlaces DEF KeepsPlaces, SameUnits
<1>10. CountOK' /\ RecvDone'
  <2>1. CountOK'
    BY Zenon, <1>1, <1>3, InvParts, SameCount DEF KeepsCount, SameUnits
  <2> QED BY Zenon, <1>1, <1>7, <2>1 DEF IInv, RecvDone
<1>11. GoneOK'
  <2>1. Uncounted' = Uncounted
    BY Zenon, <1>1, <1>3, <1>7 DEF Uncounted, SameUnits
  <2> QED BY Zenon, <1>1, <1>2, <1>3, <1>7, <2>1, InvParts DEF GoneOK, SameUnits
<1>12. RndvOK'
  BY Zenon, <1>2 DEF RndvOK
<1>13. SendDone'
  <2>1. Units \subseteq Gone
    BY Zenon, <1>4 DEF Gone
  <2> QED BY Zenon, <1>2, <1>3, <1>4, <1>7, <2>1 DEF SendDone, SameUnits
<1>14. TypeOK'
  BY Zenon, <1>1, <1>6, SameTypes
<1> QED BY Zenon, <1>1, <1>6, <1>8, <1>9, <1>10, <1>11, <1>12, <1>13, <1>14, InvParts
        DEF IInv, KeepsTypes, SndLocked, RcvLocked

\* The buffer of a RNDV header is free: the data that went with it counts.
LEMMA RndvCompletionStep == Counting /\ IInv /\ RndvCompletion => IInv'
<1> SUFFICES ASSUME Counting, IInv, RndvCompletion PROVE IInv'
  OBVIOUS
<1>1. /\ setup' = setup /\ rcv' = rcv /\ net' = net /\ fails' = fails /\ snd.lc = "RNDV"
      /\ snd' = s_complete_check([snd EXCEPT !.lc = "NONE", !.req_state = @ - 1,
                                    !.delivered = @ + Cardinality(snd.eager)])
  BY Zenon DEF RndvCompletion
<1>2. /\ setup.size \in Nat /\ snd.delivered \in Nat /\ snd.eager \subseteq Units
      /\ snd.req_state \in Int /\ IsFiniteSet(snd.eager) /\ Cardinality(snd.eager) \in Nat
  <2>1. snd.eager \subseteq Units /\ snd.req_state \in Int
    BY Zenon, InvParts DEF SndType
  <2> QED BY Zenon, <2>1, InvParts, GoneTypes, AllUnits
<1>3. PICK d \in Nat : d = snd.delivered + Cardinality(snd.eager)
  BY <1>2
<1>4. PICK e \in Int : e = snd.req_state - 1
  BY <1>2
<1>5. PICK s : s = [snd EXCEPT !.lc = "NONE", !.req_state = e, !.delivered = d]
  BY Zenon
<1>6. snd' = s_complete_check(s)
  BY Zenon, <1>1, <1>3, <1>4, <1>5
<1>7. s \in SndType /\ s.lc = "NONE" /\ s.delivered = d
  BY Zenon, <1>5, InvParts DEF SndType
<1>8. /\ SameUnits(snd, s) /\ SameControl(snd, s)
      /\ s.remaining = snd.remaining /\ s.eager = snd.eager
  BY <1>5 DEF SameUnits, SameControl
<1>9. SndControl(s, snd') /\ snd'.loop = snd.loop
  <2>1. SndLocked(s)
    BY Zenon, <1>8, InvParts DEF SndLocked, SameControl
  <2> QED BY Zenon, <1>6, <1>7, <1>8, <2>1, SndCheck DEF SameControl
<1>10. /\ SameUnits(snd, snd') /\ snd'.checks = snd.checks /\ snd'.pending = snd.pending
       /\ snd'.lc = "NONE" /\ snd'.delivered = d /\ snd'.remaining = snd.remaining
  BY Zenon, <1>7, <1>8, <1>9 DEF SndControl, SameData, SameUnits, SameControl
<1>11. KeepsTypes
  BY Zenon, <1>1, <1>9, InvParts DEF KeepsTypes, SndControl
<1>12. /\ Units' = Units /\ FirstUnits' = FirstUnits /\ Gone' = Gone /\ Getting' = Getting
       /\ Eager = snd.eager /\ Eager' = {} /\ ByGet' = ByGet
       /\ \A h : HeaderOK(h)' = HeaderOK(h)
  BY Zenon, <1>1, <1>10 DEF Units, FirstUnits, Gone, Getting, Eager, ByGet, HeaderOK
<1>13. snd.pending # "START"
  BY Zenon, <1>1, InvParts DEF RndvOK
<1>14. Idle => Idle'
  <2> SUFFICES ASSUME Idle PROVE Idle'
    OBVIOUS
  <2>1. snd.pending # "SCHEDULE"
    BY Zenon DEF Idle
  <2> QED BY Zenon, <1>1, <1>9, <1>10, <2>1, StaysIdle
<1>15. FirstOK' /\ MatchOK'
  BY Zenon, <1>1, <1>10, <1>12, <1>13, <1>14 DEF IInv, FirstOK, MatchOK
<1>16. Conserved' /\ Separate'
  BY Zenon, <1>1, <1>10, InvParts, SamePlaces DEF KeepsPlaces, SameUnits
<1>17. CountOK'
  BY Zenon, <1>1, <1>10, InvParts, SameCount DEF KeepsCount, SameUnits
<1>18. GoneOK'
  <2>1. /\ Uncounted = Uncounted' \cup snd.eager /\ Uncounted' \cap snd.eager = {}
        /\ snd.eager \subseteq Gone /\ Uncounted' \subseteq Gone
    <3>1. Uncounted = Uncounted' \cup snd.eager
      BY Zenon, <1>1, <1>10, <1>12 DEF Uncounted, SameUnits
    <3>2. Uncounted' \cap snd.eager = {}
      BY <1>1, <1>10, <1>12, InvParts DEF Uncounted, SameUnits, GoneOK
    <3> QED BY Zenon, <3>1, <3>2, InvParts DEF GoneOK
  <2>2. /\ Gone' \ Uncounted' = (Gone \ Uncounted) \cup snd.eager
        /\ (Gone \ Uncounted) \cap snd.eager = {}
    BY Zenon, <1>12, <2>1
  <2>3. IsFiniteSet(Gone \ Uncounted) /\ Cardinality(Gone \ Uncounted) \in Nat
    <3>1. Gone \ Uncounted \subseteq Units
      BY Zenon, InvParts, GoneTypes
    <3> QED BY Zenon, <1>2, <3>1, AllUnits
  <2>4. Cardinality(Gone' \ Uncounted') = Cardinality(Gone \ Uncounted) + Cardinality(snd.eager)
    <3>1. Cardinality((Gone \ Uncounted) \cup snd.eager)
            = Cardinality(Gone \ Uncounted) + Cardinality(snd.eager) - Cardinality({})
      BY Zenon, <1>2, <2>2, <2>3, UnionCount
    <3>2. PICK a \in Nat : a = Cardinality(Gone \ Uncounted)
      BY Zenon, <2>3
    <3>3. PICK b \in Nat : b = Cardinality(snd.eager)
      BY Zenon, <1>2
    <3>4. Cardinality((Gone \ Uncounted) \cup snd.eager) = a + b - 0
      BY Zenon, <3>1, <3>2, <3>3, EmptyCount
    <3>5. a + b - 0 = a + b
      OBVIOUS
    <3> QED BY Zenon, <2>2, <3>2, <3>3, <3>4, <3>5
  <2>5. snd'.delivered + ByGet' <= Cardinality(Gone' \ Uncounted')
    <3>1. ByGet \in Int
      BY <1>2, InvParts DEF GoneOK, ByGet
    <3>2. snd.delivered + ByGet <= Cardinality(Gone \ Uncounted)
      BY Zenon, InvParts DEF GoneOK
    <3> QED BY <1>2, <1>3, <1>10, <1>12, <2>3, <2>4, <3>1, <3>2
  <2>6. /\ snd'.frag_lc \cap (net'.fins \cup rcv'.fin_pending \cup Eager') = {}
        /\ net'.fins \cap (rcv'.fin_pending \cup Eager') = {}
        /\ rcv'.fin_pending \cap Eager' = {}
    BY <1>1, <1>10, <1>12, InvParts DEF GoneOK, SameUnits
  <2> QED BY Zenon, <1>1, <1>10, <1>12, <2>1, <2>5, <2>6, InvParts DEF GoneOK
<1>19. RndvOK'
  BY Zenon, <1>10 DEF RndvOK
<1>20. Completions
  BY Zenon, <1>1, <1>7, <1>8, <1>9, <1>10, <1>12, InvParts
     DEF Completions, SndControl, SameData, SameUnits, SameControl
<1>21. RecvDone' /\ SendDone'
  BY Zenon, <1>1, <1>10, <1>11, <1>13, <1>17, <1>18, <1>19, <1>20, CompletionsOK
<1>22. TypeOK'
  BY Zenon, <1>1, <1>11, SameTypes
<1> QED BY Zenon, <1>1, <1>11, <1>15, <1>16, <1>17, <1>18, <1>19, <1>21, <1>22, InvParts
        DEF IInv, KeepsTypes, SndLocked, RcvLocked

\* The first header that is sent.
Header ==
  [type : {"MATCH", "RNDV", "RGET"}, units : SUBSET Units, contig : BOOLEAN, pin : BOOLEAN]

StartsWith(h) ==
  /\ h \in Header
  /\ \/ h.type = "MATCH" /\ h.units = Units
     \/ /\ h.type = "RNDV"
        /\ \E n \in 0 .. setup.size :
             /\ h.units = 0 .. n - 1
             /\ setup.size > EagerLimit /\ setup.get => n = RndvLimit
     \/ h.type = "RGET" /\ h.units = {} /\ setup.size > EagerLimit /\ setup.get

\* A RNDV header is a way to start a message.
LEMMA StartRndv ==
  ASSUME Counting, setup \in Setups, NEW n \in 0 .. setup.size, NEW c \in BOOLEAN, NEW p \in BOOLEAN, NEW h,
         h = [type |-> "RNDV", units |-> 0 .. n - 1, contig |-> c, pin |-> p],
         setup.size > EagerLimit /\ setup.get => n = RndvLimit
  PROVE  StartsWith(h)
<1>1. setup.size \in Nat
  BY Zenon, SetupFacts
<1>2. PICK units \in SUBSET Units : units = 0 .. n - 1
  BY Zenon, <1>1, UnitsFinite
<1>3. h = [type |-> "RNDV", units |-> units, contig |-> c, pin |-> p]
  BY Zenon, <1>2
<1>4. h \in Header /\ h.type = "RNDV" /\ h.units = units
  BY <1>2, <1>3 DEF Header
<1> QED BY Zenon, <1>2, <1>4 DEF StartsWith

\* What mca_pml_ob1_send_request_start_btl chooses is a way to start a message.
LEMMA StartBtl ==
  ASSUME Counting, setup \in Setups, NEW pinned
  PROVE  StartsWith(start_btl(pinned))
<1>1. PICK h : h = start_btl(pinned)
  BY Zenon
<1>2. /\ setup.size \in Nat /\ EagerLimit \in Nat /\ RndvLimit \in Nat
      /\ RndvLimit <= EagerLimit
  BY Zenon, SetupFacts
<1>3. CASE setup.size <= EagerLimit
  <2>1. CASE setup.mode = "SYNCHRONOUS"
    <3>1. h = [type |-> "RNDV", units |-> 0 .. setup.size - 1, contig |-> FALSE, pin |-> FALSE]
      BY Zenon, <1>1, <1>3, <2>1 DEF start_btl
    <3>2. setup.size \in 0 .. setup.size /\ ~(setup.size > EagerLimit)
      BY <1>2, <1>3
    <3> QED BY Zenon, <1>1, <3>1, <3>2, StartRndv
  <2>2. CASE setup.mode # "SYNCHRONOUS"
    <3>1. h = [type |-> "MATCH", units |-> Units, contig |-> FALSE, pin |-> FALSE]
      BY Zenon, <1>1, <1>3, <2>2 DEF start_btl
    <3>2. h \in Header /\ h.type = "MATCH" /\ h.units = Units
      BY Zenon, <3>1 DEF Header
    <3> QED BY Zenon, <1>1, <3>2 DEF StartsWith
  <2> QED BY Zenon, <2>1, <2>2
<1>4. CASE setup.size > EagerLimit
  <2>1. ~(setup.size <= EagerLimit) /\ RndvLimit \in 0 .. setup.size /\ 0 \in 0 .. setup.size
    BY <1>2, <1>4
  <2>2. CASE setup.mode = "BUFFERED" \/ ~setup.s_contig
    <3>1. h = [type |-> "RNDV", units |-> 0 .. RndvLimit - 1, contig |-> FALSE, pin |-> FALSE]
      BY Zenon, <1>1, <2>1, <2>2 DEF start_btl
    <3> QED BY Zenon, <1>1, <2>1, <3>1, StartRndv
  <2>3. CASE ~(setup.mode = "BUFFERED" \/ ~setup.s_contig) /\ ~pinned
    <3>1. h = [type |-> "RNDV", units |-> 0 .. RndvLimit - 1, contig |-> TRUE, pin |-> FALSE]
      BY Zenon, <1>1, <2>1, <2>3 DEF start_btl
    <3> QED BY Zenon, <1>1, <2>1, <3>1, StartRndv
  <2>4. CASE ~(setup.mode = "BUFFERED" \/ ~setup.s_contig) /\ pinned /\ setup.get
    <3>1. h = [type |-> "RGET", units |-> {}, contig |-> TRUE, pin |-> TRUE]
      BY Zenon, <1>1, <2>1, <2>4 DEF start_btl
    <3>2. h \in Header /\ h.type = "RGET" /\ h.units = {}
      BY Zenon, <3>1 DEF Header
    <3> QED BY Zenon, <1>1, <1>4, <2>4, <3>2 DEF StartsWith
  <2>5. CASE ~(setup.mode = "BUFFERED" \/ ~setup.s_contig) /\ pinned /\ ~setup.get
    <3>1. h = [type |-> "RNDV", units |-> 0 .. 0 - 1, contig |-> TRUE, pin |-> TRUE]
      BY Zenon, <1>1, <2>1, <2>5 DEF start_btl
    <3> QED BY Zenon, <1>1, <2>1, <2>5, <3>1, StartRndv
  <2> QED BY Zenon, <2>2, <2>3, <2>4, <2>5
<1> QED BY <1>2, <1>3, <1>4

\* A step that does nothing but use up a failure.
LEMMA StutterStep ==
  ASSUME IInv, UNCHANGED <<setup, snd, rcv, net>>, fails' \in 0 .. MaxFails
  PROVE  IInv'
<1>1. setup' = setup /\ snd' = snd /\ rcv' = rcv /\ net' = net
  OBVIOUS
<1>2. KeepsTypes
  BY Zenon, <1>1, InvParts DEF KeepsTypes
<1>3. TypeOK'
  BY Zenon, <1>1, <1>2, SameTypes
<1>4. Units' = Units /\ Spots' = Spots /\ FirstUnits' = FirstUnits /\ Announced' = Announced
  BY Zenon, <1>1 DEF Units, Spots, FirstUnits, Announced
<1>5. /\ Gone' = Gone /\ Eager' = Eager /\ ByGet' = ByGet /\ Getting' = Getting
      /\ Idle' = Idle /\ HeaderHasData' = HeaderHasData /\ AckDue' = AckDue
      /\ \A h : HeaderOK(h)' = HeaderOK(h)
  BY Zenon, <1>1, <1>4 DEF Gone, Eager, ByGet, Getting, Idle, HeaderHasData, AckDue,
     RndvLimit, Failing, HeaderOK
<1>6. Uncounted' = Uncounted
  BY Zenon, <1>1, <1>5 DEF Uncounted
<1>7. FirstOK' /\ MatchOK'
  BY Zenon, <1>1, <1>4, <1>5 DEF IInv, FirstOK, MatchOK, EagerLimit, Failing
<1>8. Conserved' /\ Separate' /\ CountOK' /\ RecvDone'
  <2>1. Conserved' /\ RecvDone'
    BY Zenon, <1>1, <1>4 DEF IInv, Conserved, RecvDone
  <2>2. Separate'
    BY Zenon, <1>1, InvParts DEF Separate
  <2>3. CountOK'
    BY Zenon, <1>1, <1>4, InvParts DEF CountOK
  <2> QED BY Zenon, <2>1, <2>2, <2>3
<1>9. GoneOK' /\ RndvOK' /\ SendDone'
  <2>1. GoneOK'
    BY Zenon, <1>1, <1>5, <1>6, InvParts DEF GoneOK
  <2>2. RndvOK'
    BY Zenon, <1>1, <1>5, InvParts DEF RndvOK
  <2> QED BY Zenon, <1>1, <1>4, <1>5, <2>1, <2>2 DEF IInv, SendDone
<1> QED BY Zenon, <1>1, <1>2, <1>3, <1>7, <1>8, <1>9, InvParts
        DEF IInv, KeepsTypes, SndLocked, RcvLocked

\* What the start functions write in the request.
SameStart(s, t) ==
  /\ SameUnits(s, t) /\ t.lock = s.lock /\ t.loop = s.loop /\ t.checks = s.checks
  /\ t.complete = s.complete /\ t.delivered = s.delivered

Prepares(t, h, s) ==
  /\ s \in SndType /\ SameStart(t, s) /\ s.lc = t.lc /\ s.pending = t.pending
  /\ s.remaining \in {0, setup.size}
  /\ h.type = "RGET" => s.remaining = setup.size
  /\ h.type # "RGET" => s.rdma_frag = t.rdma_frag
  /\ h.type = "RNDV" => s.req_state = 2 /\ s.eager = h.units

\* What preparing a header does to the send request.
LEMMA Prepared ==
  ASSUME setup \in Setups, NEW t \in SndType, t.remaining \in {0, setup.size},
         NEW h, StartsWith(h), NEW s, s = prepared(t, h)
  PROVE  Prepares(t, h, s)
<1>1. h.units \in SUBSET Units /\ setup.size \in Int
  <2>1. h \in Header
    BY Zenon DEF StartsWith
  <2>2. h.units \in SUBSET Units
    BY Zenon, <2>1 DEF Header
  <2> QED BY <2>2, SetupFacts
<1>2. CASE h.type = "RNDV"
  <2>1. PICK units \in SUBSET Units : units = h.units
    BY Zenon, <1>1
  <2>2. s = [t EXCEPT !.req_state = 2, !.eager = units]
    BY <1>2, <2>1 DEF prepared
  <2>3. 2 \in Int
    OBVIOUS
  <2>4. s \in SndType /\ s.req_state = 2 /\ s.eager = units
    BY Zenon, <2>2, <2>3 DEF SndType
  <2>5. /\ SameStart(t, s) /\ s.lc = t.lc /\ s.pending = t.pending
        /\ s.remaining = t.remaining /\ s.rdma_frag = t.rdma_frag
    BY <2>2 DEF SameStart, SameUnits
  <2>6. h.type # "RGET"
    BY <1>2
  <2> QED BY Zenon, <2>1, <2>4, <2>5, <2>6 DEF Prepares
<1>3. CASE h.type = "RGET"
  <2>1. PICK n \in Int : n = setup.size
    BY Zenon, <1>1
  <2>2. s = [t EXCEPT !.rdma_frag = TRUE, !.remaining = n]
    BY <1>3, <2>1 DEF prepared
  <2>3. s \in SndType /\ s.remaining = n
    BY Zenon, <2>2 DEF SndType
  <2>4. SameStart(t, s) /\ s.lc = t.lc /\ s.pending = t.pending
    BY <2>2 DEF SameStart, SameUnits
  <2>5. h.type # "RNDV" /\ n \in {0, setup.size}
    BY <1>3, <2>1
  <2> QED BY Zenon, <1>3, <2>1, <2>3, <2>4, <2>5 DEF Prepares
<1>4. CASE h.type = "MATCH"
  <2>1. s = t
    BY <1>4 DEF prepared
  <2>2. h.type # "RNDV" /\ h.type # "RGET"
    BY <1>4
  <2> QED BY Zenon, <2>1, <2>2 DEF Prepares, SameStart, SameUnits
<1> QED BY Zenon, <1>2, <1>3, <1>4 DEF StartsWith, Header

\* The part of the invariant that a start does not touch.
LEMMA StartParts ==
  ASSUME IInv, snd.pending = "START", setup' = setup, rcv' = rcv, fails' \in 0 .. MaxFails,
         snd' \in SndType, SameStart(snd, snd'), snd'.pending \in {"START", "NONE"},
         net' \in NetType, net'.ack = net.ack, net'.put = net.put, net'.frag = net.frag,
         net'.finr = net.finr, net'.fins = net.fins
  PROVE  /\ setup' \in Setups /\ TypeOK' /\ SndLocked(snd') /\ RcvLocked(rcv')
         /\ Conserved' /\ Separate' /\ CountOK' /\ RecvDone' /\ SendDone'
         /\ ~rcv'.matched /\ Idle' /\ rcv'.got = {} /\ rcv'.received = 0 /\ ~rcv'.complete
         /\ snd'.delivered = 0 /\ ~snd'.complete /\ Units' = Units
<1>1. /\ ~rcv.matched /\ snd.delivered = 0 /\ ~snd.complete
      /\ Idle /\ rcv.got = {} /\ rcv.received = 0 /\ ~rcv.complete
  BY Zenon DEF IInv, FirstOK
<1>2. snd'.pending # "SCHEDULE"
  OBVIOUS
<1>3. Idle'
  BY Zenon, <1>1, <1>2, StaysIdle DEF SameStart
<1>4. SndLocked(snd')
  BY Zenon, <1>2, InvParts DEF SndLocked, SameStart
<1>5. KeepsTypes
  BY Zenon, <1>4, InvParts DEF KeepsTypes
<1>6. TypeOK'
  BY Zenon, <1>5, SameTypes
<1>7. Conserved'
  BY Zenon, <1>1 DEF Conserved
<1>8. Separate'
  BY Zenon, InvParts DEF Separate
<1>9. CountOK'
  BY Zenon, InvParts, SameCount DEF KeepsCount, SameStart, SameUnits
<1>10. Units' = Units
  BY Zenon DEF Units
<1> QED BY Zenon, <1>1, <1>3, <1>4, <1>5, <1>6, <1>7, <1>8, <1>9, <1>10, InvParts
        DEF RecvDone, SendDone, SameStart, KeepsTypes

\* The first header could not be sent: the request stays queued.
LEMMA StartAgain ==
  ASSUME Counting, IInv, snd.pending = "START", setup' = setup, rcv' = rcv, net' = net,
         NEW h, StartsWith(h), Lacking({"start_send"}), snd' = prepared(snd, h)
  PROVE  IInv'
<1>1. /\ snd.remaining \in {0, setup.size} /\ net.first = {} /\ snd.lc = "NONE"
      /\ snd.rdma_frag => "start_send" \in Failing /\ setup.get /\ setup.size > EagerLimit
  BY Zenon DEF IInv, FirstOK
<1>2. fails' \in 0 .. MaxFails /\ "start_send" \in Failing
  <2>1. fails' \in 0 .. MaxFails
    BY Zenon, InvParts, SetupFacts, OneCount, FailsLeft
  <2> QED BY Zenon, <2>1 DEF Lacking
<1>3. /\ snd' \in SndType /\ SameStart(snd, snd') /\ snd'.lc = "NONE" /\ snd'.pending = "START"
      /\ snd'.remaining \in {0, setup.size}
      /\ h.type # "RGET" => snd'.rdma_frag = snd.rdma_frag
  <2>1. Prepares(snd, h, snd')
    BY Zenon, <1>1, InvParts, Prepared
  <2> QED BY Zenon, <1>1, <2>1 DEF Prepares
<1>4. /\ setup' \in Setups /\ TypeOK' /\ SndLocked(snd') /\ RcvLocked(rcv')
      /\ Conserved' /\ Separate' /\ CountOK' /\ RecvDone' /\ SendDone'
      /\ ~rcv'.matched /\ Idle' /\ rcv'.got = {} /\ rcv'.received = 0 /\ ~rcv'.complete
      /\ snd'.delivered = 0 /\ ~snd'.complete /\ Units' = Units
  <2>1. net' \in NetType /\ snd'.pending \in {"START", "NONE"}
    BY Zenon, <1>3, InvParts
  <2> QED BY Zenon, <1>2, <1>3, <2>1, StartParts
<1>5. snd'.rdma_frag => setup.get /\ setup.size > EagerLimit
  <2>1. CASE h.type = "RGET"
    BY <2>1 DEF StartsWith
  <2>2. CASE h.type # "RGET"
    BY Zenon, <1>1, <1>3, <2>2
  <2> QED BY Zenon, <2>1, <2>2
<1>6. Failing' = Failing /\ EagerLimit' = EagerLimit
  BY Zenon DEF Failing, EagerLimit
<1>7. FirstOK'
  <2>1. snd'.remaining \in {0, setup'.size}
    BY Zenon, <1>3
  <2> QED BY Zenon, <1>1, <1>2, <1>3, <1>4, <1>5, <1>6, <2>1 DEF FirstOK
<1>8. snd'.lc # "MATCH" /\ snd'.lc # "RNDV"
  BY <1>3
<1>9. MatchOK' /\ RndvOK'
  BY Zenon, <1>8 DEF MatchOK, RndvOK
<1>10. GoneOK'
  <2>1. /\ net'.frag = {} /\ net'.fins = {} /\ rcv'.fin_pending = {} /\ snd'.frag_lc = {}
        /\ ~rcv'.getting /\ rcv'.gets = {} /\ rcv'.rdma_pending = {} /\ net'.first = {}
    BY Zenon, <1>1, <1>4 DEF Idle
  <2>2. Gone' = {} /\ Uncounted' = {} /\ Eager' = {}
    BY <1>4, <1>8, <2>1 DEF Gone, FirstUnits, Uncounted, Eager
  <2>3. ~Getting'
    BY Zenon, <2>1 DEF Getting
  <2>4. setup.size \in Nat
    BY Zenon, InvParts, GoneTypes
  <2>5. ByGet' = 0 /\ snd'.remaining \in 0 .. setup'.size
    BY <1>3, <2>4 DEF ByGet
  <2>6. Cardinality(Gone' \ Uncounted') = 0
    <3>1. Gone' \ Uncounted' = {}
      BY Zenon, <2>2
    <3> QED BY Zenon, <3>1, EmptyCount
  <2>7. snd'.delivered + ByGet' <= Cardinality(Gone' \ Uncounted')
    BY <1>4, <2>5, <2>6
  <2>8. /\ snd'.frag_lc \cap (net'.fins \cup rcv'.fin_pending \cup Eager') = {}
        /\ net'.fins \cap (rcv'.fin_pending \cup Eager') = {}
        /\ rcv'.fin_pending \cap Eager' = {}
        /\ Uncounted' \subseteq Gone'
    BY Zenon, <2>1, <2>2
  <2> QED BY Zenon, <1>8, <2>1, <2>3, <2>5, <2>7, <2>8 DEF GoneOK
<1> QED BY Zenon, <1>4, <1>7, <1>9, <1>10 DEF IInv, SndLocked, RcvLocked

\* The request of a header that is sent.
SameSent(s, t) ==
  /\ SameStart(s, t) /\ t.remaining = s.remaining /\ t.rdma_frag = s.rdma_frag
  /\ t.req_state = s.req_state /\ t.eager = s.eager

\* Handing the header to the BTL.
LEMMA SentRequest ==
  ASSUME NEW s, NEW l
  PROVE  SameSent(s, [s EXCEPT !.pending = "NONE", !.lc = l])
<1>1. PICK t : t = [s EXCEPT !.pending = "NONE", !.lc = l]
  BY Zenon
<1>2. SameSent(s, t)
  BY <1>1 DEF SameSent, SameStart, SameUnits
<1> QED BY Zenon, <1>1, <1>2

\* The first header is sent.
LEMMA StartSent ==
  ASSUME Counting, IInv, snd.pending = "START", setup' = setup, rcv' = rcv, fails' \in 0 .. MaxFails,
         NEW h, StartsWith(h), net' = [net EXCEPT !.first = {h}],
         NEW l, l = IF h.type = "RGET" THEN "NONE" ELSE h.type,
         NEW s, Prepares(snd, h, s), snd' = [s EXCEPT !.pending = "NONE", !.lc = l]
  PROVE  IInv'
<1>1. /\ snd.remaining \in {0, setup.size}
      /\ snd.rdma_frag => "start_send" \in Failing /\ setup.get /\ setup.size > EagerLimit
  BY Zenon DEF IInv, FirstOK
<1>2. /\ setup.size \in Nat /\ EagerLimit \in Nat /\ h \in Header /\ h.units \subseteq Units
  <2>1. h \in Header
    BY Zenon DEF StartsWith
  <2> QED BY Zenon, <2>1, InvParts, SetupFacts DEF Header
<1>4. /\ s \in SndType /\ SameStart(snd, s)
      /\ s.remaining \in {0, setup.size}
      /\ h.type = "RGET" => s.remaining = setup.size
      /\ h.type # "RGET" => s.rdma_frag = snd.rdma_frag
      /\ h.type = "RNDV" => s.req_state = 2 /\ s.eager = h.units
  BY Zenon DEF Prepares
<1>5. /\ l \in {"NONE", "MATCH", "RNDV"} /\ (l = "MATCH" => h.type = "MATCH")
      /\ (l = "RNDV" <=> h.type = "RNDV")
  BY <1>2 DEF Header
<1>7. snd' \in SndType /\ snd'.pending = "NONE" /\ snd'.lc = l
  BY Zenon, <1>4, <1>5 DEF SndType
<1>8. /\ SameStart(s, snd') /\ snd'.remaining = s.remaining /\ snd'.rdma_frag = s.rdma_frag
      /\ snd'.req_state = s.req_state /\ snd'.eager = s.eager
  <2>1. SameSent(s, snd')
    BY Zenon, SentRequest
  <2> QED BY Zenon, <2>1 DEF SameSent
<1>9. SameStart(snd, snd')
  BY Zenon, <1>4, <1>8 DEF SameStart, SameUnits
<1>10. net' \in NetType /\ net'.first = {h}
  <2>1. {h} \in SUBSET Header
    BY Zenon, <1>2
  <2>2. net' \in [first : SUBSET Header, ack : SUBSET [units : SUBSET Units, nordma : BOOLEAN],
                  put : SUBSET [unit : Units, ack : BOOLEAN], frag : SUBSET Units,
                  finr : SUBSET [unit : Units, ok : BOOLEAN], fins : SUBSET Units]
    BY Zenon, <2>1, InvParts DEF NetType
  <2>3. net'.first = {h}
    BY Zenon, InvParts DEF NetType
  <2> QED BY Zenon, <2>2, <2>3 DEF NetType, Header
<1>11. /\ net'.ack = net.ack /\ net'.put = net.put /\ net'.frag = net.frag
       /\ net'.finr = net.finr /\ net'.fins = net.fins
  OBVIOUS
<1>12. /\ setup' \in Setups /\ TypeOK' /\ SndLocked(snd') /\ RcvLocked(rcv')
       /\ Conserved' /\ Separate' /\ CountOK' /\ RecvDone' /\ SendDone'
       /\ ~rcv'.matched /\ Idle' /\ rcv'.got = {} /\ rcv'.received = 0 /\ ~rcv'.complete
       /\ snd'.delivered = 0 /\ ~snd'.complete /\ Units' = Units
  <2>1. snd'.pending \in {"START", "NONE"}
    BY Zenon, <1>7
  <2> QED BY Zenon, <1>7, <1>9, <1>10, <1>11, <2>1, StartParts
<1>13. FirstUnits' = h.units
  BY Zenon, <1>10 DEF FirstUnits
<1>14. FirstOK'
  <2>1. HeaderOK(h)
    <3>1. setup.size > EagerLimit => setup.size > 0
      BY <1>2
    <3> QED BY Zenon, <3>1 DEF StartsWith, HeaderOK
  <2>2. HeaderOK(h)'
    BY Zenon, <2>1 DEF HeaderOK, Units
  <2>3. snd'.pending # "START"
    BY <1>7
  <2> QED BY Zenon, <1>10, <1>12, <2>2, <2>3 DEF FirstOK, HeaderOK
<1>15. MatchOK'
  <2> SUFFICES ASSUME l = "MATCH" PROVE MatchOK'
    BY Zenon, <1>7 DEF MatchOK
  <2>1. h.type = "MATCH" /\ h.units = Units
    BY <1>5 DEF StartsWith
  <2> QED BY Zenon, <1>7, <1>10, <1>12, <1>13, <2>1 DEF MatchOK
<1>16. /\ net'.frag = {} /\ net'.fins = {} /\ rcv'.fin_pending = {} /\ snd'.frag_lc = {}
       /\ ~rcv'.getting /\ rcv'.gets = {} /\ rcv'.rdma_pending = {}
       /\ net'.ack = {} /\ net'.put = {} /\ rcv'.ack_pending = {}
  BY Zenon, <1>12 DEF Idle
<1>17. GoneOK'
  <2>1. Gone' = h.units /\ Uncounted' = Eager'
    BY Zenon, <1>12, <1>13, <1>16 DEF Gone, Uncounted
  <2>2. Eager' = IF l = "RNDV" THEN h.units ELSE {}
    BY Zenon, <1>4, <1>5, <1>7, <1>8 DEF Eager
  <2>3. Getting' => snd'.remaining > 0
    <3>1. CASE h.type = "RGET"
      BY <1>2, <1>4, <1>8, <3>1 DEF StartsWith
    <3>2. CASE h.type # "RGET"
      BY Zenon, <1>10, <1>16, <3>2 DEF Getting
    <3> QED BY Zenon, <3>1, <3>2
  <2>4. ByGet' = 0 /\ snd'.remaining \in 0 .. setup'.size
    BY <1>2, <1>4, <1>8 DEF ByGet
  <2>5. Cardinality(Gone' \ Uncounted') \in Nat
    <3>1. Gone' \ Uncounted' \subseteq Units
      BY Zenon, <1>2, <2>1
    <3> QED BY Zenon, <1>2, <3>1, AllUnits
  <2>6. snd'.delivered + ByGet' <= Cardinality(Gone' \ Uncounted')
    BY <1>12, <2>4, <2>5
  <2>7. /\ snd'.frag_lc \cap (net'.fins \cup rcv'.fin_pending \cup Eager') = {}
        /\ net'.fins \cap (rcv'.fin_pending \cup Eager') = {}
        /\ rcv'.fin_pending \cap Eager' = {}
        /\ Uncounted' \subseteq Gone'
    BY Zenon, <1>16, <2>1, <2>2
  <2>8. snd'.lc = "RNDV" => \E n \in 0 .. setup'.size : snd'.eager = 0 .. n - 1
    <3> SUFFICES ASSUME l = "RNDV" PROVE \E n \in 0 .. setup.size : snd'.eager = 0 .. n - 1
      BY Zenon, <1>7
    <3>1. h.type = "RNDV" /\ snd'.eager = h.units
      BY Zenon, <1>4, <1>5, <1>8
    <3> QED BY <3>1 DEF StartsWith
  <2> QED BY Zenon, <1>16, <2>3, <2>4, <2>6, <2>7, <2>8 DEF GoneOK
<1>18. RndvOK'
  <2> SUFFICES ASSUME l = "RNDV" PROVE RndvOK'
    BY Zenon, <1>7 DEF RndvOK
  <2>1. h.type = "RNDV" /\ snd'.req_state = 2 /\ snd'.eager = h.units
        /\ snd'.rdma_frag = snd.rdma_frag
    BY <1>4, <1>5, <1>8
  <2>2. HeaderHasData' = HeaderHasData
    BY Zenon DEF HeaderHasData, RndvLimit, Failing
  <2>3. ASSUME HeaderHasData, h.units = {}, snd.rdma_frag PROVE FALSE
    <3>1. "start_send" \in Failing /\ setup.get /\ setup.size > EagerLimit
      BY Zenon, <1>1, <2>3
    <3>2. PICK n \in 0 .. setup.size :
            h.units = 0 .. n - 1 /\ (setup.size > EagerLimit /\ setup.get => n = RndvLimit)
      BY <2>1 DEF StartsWith
    <3>3. n = RndvLimit /\ n # 0
      BY Zenon, <2>3, <3>1, <3>2 DEF HeaderHasData
    <3>4. 0 \in 0 .. n - 1
      BY <1>2, <3>3
    <3> QED BY Zenon, <2>3, <3>2, <3>4
  <2>4. HeaderHasData' /\ snd'.eager = {} =>
          /\ ~snd'.rdma_frag
          /\ snd'.req_state \in {1, 2} /\ (AckDue' => snd'.req_state = 2)
    BY Zenon, <2>1, <2>2, <2>3
  <2>5. snd'.pending # "START"
    BY <1>7
  <2> QED BY Zenon, <1>10, <1>16, <2>1, <2>4, <2>5 DEF RndvOK
<1> QED BY Zenon, <1>12, <1>14, <1>15, <1>17, <1>18 DEF IInv, SndLocked, RcvLocked

\* mca_pml_ob1_send_request_start_seq.
LEMMA StartStep == ASSUME Counting, IInv, NEW pinned, Start(pinned) PROVE IInv'
<1>1. PICK h : h = start_btl(pinned)
  BY Zenon
<1>2. StartsWith(h)
  BY Zenon, <1>1, InvParts, StartBtl
<1>3. PICK l, s : l = (IF h.type = "RGET" THEN "NONE" ELSE h.type) /\ s = prepared(snd, h)
  BY Zenon
<1>4. /\ snd.pending = "START" /\ setup' = setup /\ rcv' = rcv
      /\ \/ Lacking({"start_alloc"}) /\ snd' = snd /\ net' = net
         \/ Lacking({"start_send"}) /\ snd' = s /\ net' = net
         \/ /\ Lacking({})
            /\ snd' = [s EXCEPT !.pending = "NONE", !.lc = l]
            /\ net' = [net EXCEPT !.first = {h}]
  BY Zenon, <1>1, <1>3 DEF Start
<1>5. CASE Lacking({"start_alloc"}) /\ snd' = snd /\ net' = net
  <2>1. fails' \in 0 .. MaxFails
    BY Zenon, <1>5, InvParts, SetupFacts, OneCount, FailsLeft
  <2> QED BY Zenon, <1>4, <1>5, <2>1, StutterStep
<1>6. CASE Lacking({"start_send"}) /\ snd' = s /\ net' = net
  BY Zenon, <1>2, <1>3, <1>4, <1>6, StartAgain
<1>7. CASE /\ Lacking({})
           /\ snd' = [s EXCEPT !.pending = "NONE", !.lc = l]
           /\ net' = [net EXCEPT !.first = {h}]
  <2>1. fails' \in 0 .. MaxFails
    BY Zenon, <1>7, InvParts, SetupFacts, EmptyCount, FailsLeft
  <2>2. Prepares(snd, h, s)
    <3>1. snd.remaining \in {0, setup.size}
      BY Zenon, <1>4 DEF IInv, FirstOK
    <3> QED BY Zenon, <1>2, <1>3, <3>1, InvParts, Prepared
  <2> QED BY Zenon, <1>2, <1>3, <1>4, <1>7, <2>1, <2>2, StartSent
<1> QED BY Zenon, <1>4, <1>5, <1>6, <1>7

==============================================================================
