-------------------------- MODULE OscRdmaLockProofs --------------------------
(***************************************************************************)
(* OscRdmaLock for any number of processes, targets, epochs and operations *)
(* under way, in both modes: an exclusive lock excludes every other, and   *)
(* the words hold only what somebody will take back.                       *)
(***************************************************************************)
EXTENDS OscRdmaLock, FiniteSetTheorems, TLAPS

TypeOK ==
  /\ word \in [Fields -> [Procs -> Int]]
  /\ flight \in [Fields -> [Procs -> Nat]]
  /\ at \in [Procs -> [pc : {"idle", "low", "excl", "shared", "high"},
                       target : Targets \cup {NoTarget}, added : BOOLEAN]]
  /\ locks \in [Procs -> [Targets -> {"none", "shared", "exclusive"}]]
  /\ all \in [Procs -> BOOLEAN]
  /\ demand \in [Procs -> SUBSET Targets]
  /\ epochs \in [Procs -> Int]

\* Where a process is agrees with its epochs.
CallOf(p) ==
  /\ at[p].added => Pc(p) \in {"low", "high", "shared"}
  /\ Pc(p) \in {"low", "excl", "shared"} => Target(p) \in Targets
  /\ Pc(p) \in {"low", "excl"} => ~all[p] /\ locks[p][Target(p)] = "none"
  /\ Pc(p) = "shared" /\ all[p] => ~TwoLevel /\ Target(p) \notin demand[p]
  /\ Pc(p) = "shared" /\ ~all[p] => locks[p][Target(p)] = "none"
  /\ Pc(p) = "high" => all[p] /\ TwoLevel
  /\ Pc(p) = "low" => TwoLevel
  /\ ~all[p] \/ TwoLevel => demand[p] = {}
  /\ all[p] => \A t \in Targets : locks[p][t] = "none"
CallOK == \A p \in Procs : CallOf(p)

PastLow(p) == Pc(p) = "excl" \/ ExclusiveLocks(p) # {}
PastHigh(p) == all[p] /\ Pc(p) # "high"

\* On one target.
Alone ==
  \A p, q \in Procs, t \in Targets :
    p # q /\ locks[p][t] = "exclusive" => locks[q][t] = "none" /\ t \notin demand[q]

\* Between a lock on a target and lock_all.
Apart ==
  TwoLevel => \A p, q \in Procs : p # q => ~(PastLow(p) /\ PastHigh(q))

\* The inductive invariant.
IInv == TypeOK /\ CallOK /\ WordsAreOwned /\ Alone /\ Apart

-----------------------------------------------------------------------------
(* Facts about the operators *)

\* The fields of the words are different fields.
LEMMA FieldsDiffer ==
  /\ Low \in Fields /\ High \in Fields /\ Low # High
  /\ \A t \in Targets : Excl(t) \in Fields /\ Shared(t) \in Fields
  /\ \A t : Excl(t) # Low /\ Excl(t) # High /\ Shared(t) # Low /\ Shared(t) # High
  /\ \A t, u : Excl(t) # Shared(u)
  /\ \A t, u : Excl(t) = Excl(u) => t = u
  /\ \A t, u : Shared(t) = Shared(u) => t = u
<1>1. Low \in Fields /\ High \in Fields
  BY DEF Fields
<1>2. Low # High
  BY DEF Low, High
<1>3. \A t \in Targets : Excl(t) \in Fields /\ Shared(t) \in Fields
  BY DEF Fields
<1>4. ASSUME NEW t PROVE Excl(t) # Low /\ Excl(t) # High /\ Shared(t) # Low /\ Shared(t) # High
  BY DEF Excl, Shared, Low, High
<1>5. ASSUME NEW t, NEW u PROVE Excl(t) # Shared(u)
  BY DEF Excl, Shared
<1>6. ASSUME NEW t, NEW u, Excl(t) = Excl(u) PROVE t = u
  BY <1>6 DEF Excl
<1>7. ASSUME NEW t, NEW u, Shared(t) = Shared(u) PROVE t = u
  BY <1>7 DEF Shared
<1> QED
  BY <1>1, <1>2, <1>3, <1>4, <1>5, <1>6, <1>7

\* The count of the exclusive locks of a process is a number.
LEMMA LowIsNat ==
  ASSUME LockingAssumption, NEW p \in Procs
  PROVE  /\ IsFiniteSet(ExclusiveLocks(p))
         /\ Cardinality(ExclusiveLocks(p)) \in Nat
         /\ Cardinality(ExclusiveLocks(p)) = 0 <=> ExclusiveLocks(p) = {}
<1>1. IsFiniteSet(ExclusiveLocks(p))
  BY FS_Subset DEF LockingAssumption, ExclusiveLocks
<1> QED
  BY <1>1, FS_CardinalityType, FS_EmptySet

\* What a process has in a field is a natural.
LEMMA HeldIsNat ==
  ASSUME LockingAssumption, NEW p \in Procs, NEW f
  PROVE  Held(p, f) \in Nat /\ InVain(p, f) \in Nat
BY LowIsNat DEF Held, InVain, InLow

\* A field of which a process owns nothing, seen from the holders.
LEMMA ZeroMeansFree ==
  ASSUME LockingAssumption, IInv, NEW q \in Procs
  PROVE  /\ Zero(High) /\ TwoLevel => ~PastHigh(q)
         /\ Zero(Low) /\ TwoLevel => ~PastLow(q)
         /\ \A t \in Targets : Zero(Excl(t)) => locks[q][t] # "exclusive"
         /\ \A t \in Targets : Zero(Shared(t)) => locks[q][t] # "shared" /\ t \notin demand[q]
<1>1. ASSUME NEW f \in Fields, Zero(f) PROVE Held(q, f) = 0
  <2>1. word[f][q] = 0 /\ word[f][q] = flight[f][q] + Held(q, f) + InVain(q, f)
    BY <1>1 DEF Zero, IInv, WordsAreOwned
  <2>2. flight[f][q] \in Nat /\ Held(q, f) \in Nat /\ InVain(q, f) \in Nat
    BY HeldIsNat DEF IInv, TypeOK
  <2> QED
    BY <2>1, <2>2
<1>2. ASSUME Zero(High), TwoLevel PROVE ~PastHigh(q)
  <2>1. Held(q, High) = 0
    BY <1>1, <1>2, FieldsDiffer
  <2> QED
    BY <2>1, <1>2, FieldsDiffer DEF Held, Holds, PastHigh
<1>3. ASSUME Zero(Low), TwoLevel PROVE ~PastLow(q)
  <2>1. InLow(q) = 0
    BY <1>1, <1>3, FieldsDiffer DEF Held
  <2> QED
    BY <2>1, <1>3, LowIsNat DEF InLow, PastLow
<1>4. ASSUME NEW t \in Targets, Zero(Excl(t)) PROVE locks[q][t] # "exclusive"
  <2>1. Held(q, Excl(t)) = 0
    BY <1>1, <1>4, FieldsDiffer
  <2> QED
    BY <2>1, FieldsDiffer DEF Held, Holds
<1>5. ASSUME NEW t \in Targets, Zero(Shared(t)) PROVE locks[q][t] # "shared" /\ t \notin demand[q]
  <2>1. Held(q, Shared(t)) = 0
    BY <1>1, <1>5, FieldsDiffer
  <2> QED
    BY <2>1, FieldsDiffer DEF Held, Holds
<1> QED
  BY <1>2, <1>3, <1>4, <1>5

-----------------------------------------------------------------------------
(* The types, and where the processes are *)

\* A release is one more in flight, for each of its fields.
LEMMA ReleaseType ==
  ASSUME TypeOK, NEW p \in Procs, NEW fs, Release(fs, p)
  PROVE  /\ flight' \in [Fields -> [Procs -> Nat]]
         /\ \A f \in Fields, q \in Procs :
              flight'[f][q] = flight[f][q] + (IF q = p /\ f \in fs THEN 1 ELSE 0)
BY DEF TypeOK, Release

\* An attempt adds one to one field.
LEMMA AddType ==
  ASSUME TypeOK, NEW p \in Procs, NEW g \in Fields, Add(g, p)
  PROVE  /\ word' \in [Fields -> [Procs -> Int]]
         /\ \A f \in Fields, q \in Procs :
              word'[f][q] = word[f][q] + (IF q = p /\ f = g THEN 1 ELSE 0)
BY DEF TypeOK, Add

\* A call that is under way tries a field that exists.
LEMMA FieldType ==
  ASSUME IInv, NEW p \in Procs, Pc(p) \in {"low", "high", "shared"}
  PROVE  field(p) \in Fields
BY FieldsDiffer DEF IInv, CallOK, CallOf, field

\* Every step keeps the types.
LEMMA TypeStep ==
  ASSUME LockingAssumption, IInv, [Next]_vars
  PROVE  TypeOK'
<1> USE DEF IInv
<1>1. ASSUME NEW f \in Fields, NEW p \in Procs, Arrive(f, p) PROVE TypeOK'
  BY <1>1 DEF TypeOK, Arrive
<1>2. ASSUME NEW p \in Procs, Refused(p) PROVE TypeOK'
  <2>1. word' \in [Fields -> [Procs -> Int]]
    BY <1>2, AddType, FieldType DEF Refused, Acquires
  <2> QED
    BY ZenonT(60), <2>1, <1>2 DEF TypeOK, Refused, Goto
<1>3. ASSUME NEW p \in Procs, BackOff(p) PROVE TypeOK'
  <2>1. flight' \in [Fields -> [Procs -> Nat]]
    BY <1>3, ReleaseType DEF BackOff
  <2> QED
    BY ZenonT(60), <2>1, <1>3 DEF TypeOK, BackOff, Goto
<1>4. ASSUME NEW p \in Procs, NEW t \in Targets, NEW type \in {"shared", "exclusive"},
             Lock(p, t, type)
      PROVE  TypeOK'
  BY <1>4 DEF TypeOK, Lock, Goto, At
<1>5. ASSUME NEW p \in Procs, LowGranted(p) PROVE TypeOK'
  <2>1. word' \in [Fields -> [Procs -> Int]]
    BY <1>5, AddType, FieldType DEF LowGranted, Granted, Acquires
  <2>2. Target(p) \in Targets
    BY <1>5 DEF LowGranted, CallOK, CallOf
  <2> QED
    BY <2>1, <2>2, <1>5 DEF TypeOK, LowGranted, Goto, At
<1>6. ASSUME NEW p \in Procs, TryExclusive(p) PROVE TypeOK'
  <2>1. Target(p) \in Targets
    BY <1>6 DEF TryExclusive, CallOK, CallOf
  <2>2. word' \in [Fields -> [Procs -> Int]]
    BY <1>6, <2>1, AddType, FieldsDiffer DEF TryExclusive
  <2> QED
    BY <2>1, <2>2, <1>6 DEF TypeOK, TryExclusive, Goto, At, Idle
<1>7. ASSUME NEW p \in Procs, TryFails(p) PROVE TypeOK'
  <2>1. flight' \in [Fields -> [Procs -> Nat]]
    BY <1>7, ReleaseType DEF TryFails
  <2>2. Target(p) \in Targets
    BY <1>7 DEF TryFails, CallOK, CallOf
  <2> QED
    BY <2>1, <2>2, <1>7 DEF TypeOK, TryFails, Goto, At
<1>8. ASSUME NEW p \in Procs, SharedGranted(p) PROVE TypeOK'
  <2>1. word' \in [Fields -> [Procs -> Int]]
    BY <1>8, AddType, FieldType DEF SharedGranted, Granted, Acquires
  <2>2. Target(p) \in Targets
    BY <1>8 DEF SharedGranted, CallOK, CallOf
  <2>3. at' = [at EXCEPT ![p] = Idle] /\ UNCHANGED <<flight, all, epochs>>
    BY <1>8 DEF SharedGranted, Goto
  <2>4. CASE all[p]
    <3>1. demand' = [demand EXCEPT ![p] = @ \cup {Target(p)}] /\ UNCHANGED locks
      BY <1>8, <2>4 DEF SharedGranted
    <3> QED
      BY <2>1, <2>2, <2>3, <3>1 DEF TypeOK, At, Idle
  <2>5. CASE ~all[p]
    <3>1. locks' = [locks EXCEPT ![p][Target(p)] = "shared"] /\ UNCHANGED demand
      BY <1>8, <2>5 DEF SharedGranted
    <3> QED
      BY <2>1, <2>2, <2>3, <3>1 DEF TypeOK, At, Idle
  <2> QED
    BY <2>4, <2>5
<1>9. ASSUME NEW p \in Procs, NEW t \in Targets, Unlock(p, t) PROVE TypeOK'
  <2>1. flight' \in [Fields -> [Procs -> Nat]]
    BY <1>9, ReleaseType DEF Unlock
  <2> QED
    BY <2>1, <1>9 DEF TypeOK, Unlock
<1>10. ASSUME NEW p \in Procs, NEW t \in Targets, Lookup(p, t) PROVE TypeOK'
  BY <1>10 DEF TypeOK, Lookup, Goto, At
<1>11. ASSUME NEW p \in Procs, LockAll(p) PROVE TypeOK'
  <2>1. /\ UNCHANGED <<word, flight, locks, demand>>
        /\ all' = [all EXCEPT ![p] = TRUE] /\ epochs' = [epochs EXCEPT ![p] = @ - 1]
    BY <1>11 DEF LockAll
  <2>2. \/ at' = [at EXCEPT ![p] = At("high", NoTarget)]
        \/ p \in Targets /\ at' = [at EXCEPT ![p] = At("shared", p)]
        \/ at' = at
    BY <1>11 DEF LockAll, Goto
  <2>3. CASE at' = [at EXCEPT ![p] = At("high", NoTarget)]
    BY <2>1, <2>3 DEF TypeOK, At
  <2>4. CASE p \in Targets /\ at' = [at EXCEPT ![p] = At("shared", p)]
    BY <2>1, <2>4 DEF TypeOK, At
  <2>5. CASE at' = at
    BY <2>1, <2>5 DEF TypeOK
  <2> QED
    BY <2>2, <2>3, <2>4, <2>5
<1>12. ASSUME NEW p \in Procs, HighGranted(p) PROVE TypeOK'
  <2>1. word' \in [Fields -> [Procs -> Int]]
    BY <1>12, AddType, FieldType DEF HighGranted, Granted, Acquires
  <2> QED
    BY <2>1, <1>12 DEF TypeOK, HighGranted, Goto, At, Idle
<1>13. ASSUME NEW p \in Procs, UnlockAll(p) PROVE TypeOK'
  <2>1. flight' \in [Fields -> [Procs -> Nat]]
    BY <1>13, ReleaseType DEF UnlockAll
  <2> QED
    BY <2>1, <1>13 DEF TypeOK, UnlockAll
<1>14. CASE UNCHANGED vars
  BY <1>14 DEF TypeOK, vars
<1> QED
  BY <1>1, <1>2, <1>3, <1>4, <1>5, <1>6, <1>7, <1>8, <1>9, <1>10, <1>11, <1>12, <1>13, <1>14
  DEF Next

\* Only p moves.
OnlyMoves(p) ==
  \A q \in Procs \ {p} :
    at'[q] = at[q] /\ locks'[q] = locks[q] /\ all'[q] = all[q] /\ demand'[q] = demand[q]

\* A step of p says nothing new about the calls of the others.
LEMMA CallOfOne ==
  ASSUME CallOK, NEW p \in Procs, OnlyMoves(p), CallOf(p)'
  PROVE  CallOK'
<1> SUFFICES ASSUME NEW q \in Procs PROVE CallOf(q)'
  BY DEF CallOK
<1>1. CASE q = p
  BY <1>1
<1>2. CASE q # p
  <2>1. CallOf(q)
    BY DEF CallOK
  <2>2. at'[q] = at[q] /\ locks'[q] = locks[q] /\ all'[q] = all[q] /\ demand'[q] = demand[q]
    BY <1>2 DEF OnlyMoves
  <2> QED
    BY <2>1, <2>2 DEF CallOf, Pc, Target
<1> QED
  BY <1>1, <1>2

-----------------------------------------------------------------------------
(* What is in the words *)

\* The words agree with what p holds after the step, and the step has changed
\* nothing else.
Balanced(p) ==
  \A f \in Fields :
    /\ word'[f][p] = flight'[f][p] + Held(p, f)' + InVain(p, f)'
    /\ \A q \in Procs \ {p} :
         word'[f][q] - flight'[f][q] = word[f][q] - flight[f][q]

\* A step of p that balances what p has keeps the sum in every field.
LEMMA BalancedOne ==
  ASSUME LockingAssumption, IInv, TypeOK', NEW p \in Procs, OnlyMoves(p), Balanced(p)
  PROVE  WordsAreOwned'
<1> SUFFICES ASSUME NEW f \in Fields, NEW q \in Procs
             PROVE  word'[f][q] = flight'[f][q] + Held(q, f)' + InVain(q, f)'
  BY DEF WordsAreOwned
<1>1. CASE q = p
  BY <1>1 DEF Balanced
<1>2. CASE q # p
  <2>1. at'[q] = at[q] /\ locks'[q] = locks[q] /\ all'[q] = all[q] /\ demand'[q] = demand[q]
    BY <1>2 DEF OnlyMoves
  <2>2. Held(q, f)' = Held(q, f)
    BY <2>1 DEF Held, InLow, Holds, ExclusiveLocks, Pc
  <2>3. InVain(q, f)' = InVain(q, f)
    BY <2>1 DEF InVain, field, Pc, Target
  <2>4. word'[f][q] - flight'[f][q] = word[f][q] - flight[f][q]
    BY <1>2 DEF Balanced
  <2>5. word[f][q] = flight[f][q] + Held(q, f) + InVain(q, f)
    BY DEF IInv, WordsAreOwned
  <2>6. /\ word[f][q] \in Int /\ flight[f][q] \in Nat
        /\ word'[f][q] \in Int /\ flight'[f][q] \in Nat
        /\ Held(q, f) \in Nat /\ InVain(q, f) \in Nat
    BY HeldIsNat DEF IInv, TypeOK
  <2> QED
    BY <2>2, <2>3, <2>4, <2>5, <2>6
<1> QED
  BY <1>1, <1>2

\* The hypotheses of a step, as numbers.
LEMMA Before ==
  ASSUME LockingAssumption, IInv, NEW p \in Procs, NEW f \in Fields
  PROVE  /\ word[f][p] = flight[f][p] + Held(p, f) + InVain(p, f)
         /\ word[f][p] \in Int /\ flight[f][p] \in Nat
         /\ Held(p, f) \in Nat /\ InVain(p, f) \in Nat
BY HeldIsNat DEF IInv, TypeOK, WordsAreOwned

\* A refused attempt has added to its field in vain, until it backs off.
LEMMA RefusedStep ==
  ASSUME LockingAssumption, IInv, NEW p \in Procs, Refused(p)
  PROVE  OnlyMoves(p) /\ CallOf(p)' /\ Balanced(p)
<1>1. /\ at' = [at EXCEPT ![p] = [at[p] EXCEPT !.added = TRUE]] /\ ~at[p].added
      /\ Pc(p) \in {"low", "high", "shared"} /\ Add(field(p), p)
      /\ UNCHANGED <<flight, locks, all, demand>>
  BY DEF Refused, Goto, Acquires
<1>2. at \in [Procs -> [pc : {"idle", "low", "excl", "shared", "high"},
                        target : Targets \cup {NoTarget}, added : BOOLEAN]]
  BY DEF IInv, TypeOK
<1>3. at'[p].pc = at[p].pc /\ at'[p].target = at[p].target /\ at'[p].added
  BY <1>1, <1>2
<1>4. OnlyMoves(p)
  BY <1>1, <1>2 DEF OnlyMoves
<1>5. CallOf(p)'
  BY <1>1, <1>3 DEF IInv, CallOK, CallOf, Pc, Target
<1>6. ASSUME NEW f \in Fields PROVE Held(p, f)' = Held(p, f)
  BY <1>1, <1>3 DEF Held, InLow, Holds, ExclusiveLocks, Pc
<1>7. ASSUME NEW f \in Fields
      PROVE  InVain(p, f) = 0 /\ InVain(p, f)' = IF f = field(p) THEN 1 ELSE 0
  BY <1>1, <1>3 DEF InVain, field, Pc, Target
<1>8. Balanced(p)
  BY <1>1, <1>6, <1>7, AddType, FieldType, Before DEF Balanced, IInv
<1> QED
  BY <1>4, <1>5, <1>8

\* An attempt that was refused is taken back.
LEMMA BackOffStep ==
  ASSUME LockingAssumption, IInv, NEW p \in Procs, BackOff(p)
  PROVE  OnlyMoves(p) /\ CallOf(p)' /\ Balanced(p)
<1>1. /\ at' = [at EXCEPT ![p] = [at[p] EXCEPT !.added = FALSE]] /\ at[p].added
      /\ Release({field(p)}, p)
      /\ UNCHANGED <<word, locks, all, demand>>
  BY DEF BackOff, Goto
<1>2. at \in [Procs -> [pc : {"idle", "low", "excl", "shared", "high"},
                        target : Targets \cup {NoTarget}, added : BOOLEAN]]
  BY DEF IInv, TypeOK
<1>3. at'[p].pc = at[p].pc /\ at'[p].target = at[p].target /\ ~at'[p].added
  BY <1>1, <1>2
<1>4. OnlyMoves(p)
  BY <1>1, <1>2 DEF OnlyMoves
<1>5. CallOf(p)'
  BY <1>1, <1>3 DEF IInv, CallOK, CallOf, Pc, Target
<1>6. ASSUME NEW f \in Fields PROVE Held(p, f)' = Held(p, f)
  BY <1>1, <1>3 DEF Held, InLow, Holds, ExclusiveLocks, Pc
<1>7. ASSUME NEW f \in Fields
      PROVE  InVain(p, f)' = 0 /\ InVain(p, f) = IF f = field(p) THEN 1 ELSE 0
  BY <1>1, <1>3 DEF InVain
<1>8. Balanced(p)
  BY <1>1, <1>6, <1>7, ReleaseType, Before DEF Balanced, IInv
<1> QED
  BY <1>4, <1>5, <1>8

\* What arrives leaves the word and the flight together.
LEMMA ArriveStep ==
  ASSUME LockingAssumption, IInv, NEW g \in Fields, NEW p \in Procs, Arrive(g, p)
  PROVE  OnlyMoves(p) /\ CallOf(p)' /\ Balanced(p)
<1>1. UNCHANGED <<at, locks, all, demand>>
  BY DEF Arrive
<1>2. OnlyMoves(p)
  BY <1>1 DEF OnlyMoves
<1>3. CallOf(p)'
  BY <1>1 DEF IInv, CallOK, CallOf, Pc, Target
<1>4. ASSUME NEW f \in Fields PROVE Held(p, f)' = Held(p, f) /\ InVain(p, f)' = InVain(p, f)
  BY <1>1 DEF Held, InLow, Holds, ExclusiveLocks, InVain, field, Pc, Target
<1>5. ASSUME NEW f \in Fields, NEW q \in Procs
      PROVE  word'[f][q] - flight'[f][q] = word[f][q] - flight[f][q]
             /\ word'[f][q] \in Int /\ flight'[f][q] \in Int
  <2>1. word[f][q] \in Int /\ flight[f][q] \in Nat
    BY DEF IInv, TypeOK
  <2>2. CASE f = g /\ q = p
    <3>1. word'[f][q] = word[f][q] - 1 /\ flight'[f][q] = flight[f][q] - 1
      BY <2>2 DEF Arrive, IInv, TypeOK
    <3> QED
      BY <2>1, <3>1
  <2>3. CASE ~(f = g /\ q = p)
    <3>1. word'[f][q] = word[f][q] /\ flight'[f][q] = flight[f][q]
      BY <2>3 DEF Arrive, IInv, TypeOK
    <3> QED
      BY <2>1, <3>1
  <2> QED
    BY <2>2, <2>3
<1>6. ASSUME NEW f \in Fields
      PROVE  word'[f][p] = flight'[f][p] + Held(p, f)' + InVain(p, f)'
  <2>1. word'[f][p] - flight'[f][p] = word[f][p] - flight[f][p]
    BY <1>5
  <2>2. word'[f][p] \in Int /\ flight'[f][p] \in Int
    BY <1>5
  <2> QED
    BY <2>1, <2>2, <1>4, Before
<1>7. Balanced(p)
  BY <1>5, <1>6 DEF Balanced
<1> QED
  BY <1>2, <1>3, <1>7

\* A step that begins and ends with nothing added in vain.
LEMMA NotInVain ==
  ASSUME NEW p \in Procs, ~at[p].added, ~at'[p].added, NEW f
  PROVE  InVain(p, f) = 0 /\ InVain(p, f)' = 0
BY DEF InVain

\* A step that changes neither words nor holdings.
LEMMA WordsStay ==
  ASSUME LockingAssumption, IInv, NEW p \in Procs, ~at[p].added, ~at'[p].added,
         UNCHANGED <<word, flight>>, \A f \in Fields : Held(p, f)' = Held(p, f)
  PROVE  Balanced(p)
<1> SUFFICES ASSUME NEW f \in Fields
             PROVE  word'[f][p] = flight'[f][p] + Held(p, f)' + InVain(p, f)'
  BY DEF Balanced
<1> QED
  BY NotInVain, Before

\* MPI_Win_lock begins.
LEMMA LockStep ==
  ASSUME LockingAssumption, IInv, NEW p \in Procs, NEW u \in Targets,
         NEW type \in {"shared", "exclusive"}, Lock(p, u, type)
  PROVE  OnlyMoves(p) /\ CallOf(p)' /\ Balanced(p)
<1>1. PICK l \in {"shared", "low", "excl"} :
        /\ at' = [at EXCEPT ![p] = At(l, u)]
        /\ l = "low" => TwoLevel
        /\ l = "excl" => ~TwoLevel
  BY Zenon DEF Lock, Goto
<1>2. /\ Pc(p) = "idle" /\ ~all[p] /\ locks[p][u] = "none"
      /\ UNCHANGED <<word, flight, locks, all, demand>>
  BY DEF Lock
<1>3. at'[p] = At(l, u) /\ OnlyMoves(p)
  BY <1>1, <1>2 DEF OnlyMoves, IInv, TypeOK
<1>4. CallOf(p)'
  BY <1>1, <1>2, <1>3 DEF IInv, CallOK, CallOf, Pc, Target, At
<1>5. ~at[p].added
  BY <1>2 DEF IInv, CallOK, CallOf
<1>6. ASSUME NEW f \in Fields PROVE Held(p, f)' = Held(p, f)
  BY <1>1, <1>2, <1>3 DEF Held, InLow, Holds, ExclusiveLocks, Pc, At
<1>7. Balanced(p)
  BY <1>2, <1>3, <1>5, <1>6, WordsStay DEF At
<1> QED
  BY <1>3, <1>4, <1>7

\* A process in lock_all locks a target before it accesses it.
LEMMA LookupStep ==
  ASSUME LockingAssumption, IInv, NEW p \in Procs, NEW u \in Targets, Lookup(p, u)
  PROVE  OnlyMoves(p) /\ CallOf(p)' /\ Balanced(p)
<1>1. /\ at' = [at EXCEPT ![p] = At("shared", u)]
      /\ Pc(p) = "idle" /\ all[p] /\ ~TwoLevel /\ u \notin demand[p]
      /\ UNCHANGED <<word, flight, locks, all, demand>>
  BY DEF Lookup, Goto
<1>2. at'[p] = At("shared", u) /\ OnlyMoves(p)
  BY <1>1 DEF OnlyMoves, IInv, TypeOK
<1>3. CallOf(p)'
  BY <1>1, <1>2 DEF IInv, CallOK, CallOf, Pc, Target, At
<1>4. ~at[p].added
  BY <1>1 DEF IInv, CallOK, CallOf
<1>5. ASSUME NEW f \in Fields PROVE Held(p, f)' = Held(p, f)
  BY Zenon, <1>1, <1>2 DEF Held, InLow, Holds, ExclusiveLocks, Pc, At
<1>6. Balanced(p)
  BY <1>1, <1>2, <1>4, <1>5, WordsStay DEF At
<1> QED
  BY <1>2, <1>3, <1>6

\* A step that adds what p then holds.
LEMMA WordsUp ==
  ASSUME LockingAssumption, IInv, NEW p \in Procs, ~at[p].added, ~at'[p].added,
         NEW g \in Fields, Add(g, p), UNCHANGED flight,
         \A f \in Fields : Held(p, f)' = Held(p, f) + (IF f = g THEN 1 ELSE 0)
  PROVE  Balanced(p)
<1> SUFFICES ASSUME NEW f \in Fields
             PROVE  /\ word'[f][p] = flight'[f][p] + Held(p, f)' + InVain(p, f)'
                    /\ \A q \in Procs \ {p} : word'[f][q] = word[f][q]
  BY DEF Balanced
<1>1. /\ word'[f][p] = word[f][p] + (IF f = g THEN 1 ELSE 0)
      /\ \A q \in Procs \ {p} : word'[f][q] = word[f][q]
  BY AddType DEF IInv, TypeOK
<1> QED
  BY <1>1, NotInVain, Before

\* A step that sends off what p held.
LEMMA WordsDown ==
  ASSUME LockingAssumption, IInv, NEW p \in Procs, ~at[p].added, ~at'[p].added,
         NEW fs, Release(fs, p), UNCHANGED word,
         \A f \in Fields : Held(p, f)' = Held(p, f) - (IF f \in fs THEN 1 ELSE 0)
  PROVE  Balanced(p)
<1> SUFFICES ASSUME NEW f \in Fields
             PROVE  /\ word'[f][p] = flight'[f][p] + Held(p, f)' + InVain(p, f)'
                    /\ \A q \in Procs \ {p} : flight'[f][q] = flight[f][q]
  BY DEF Balanced
<1>1. /\ flight'[f][p] = flight[f][p] + (IF f \in fs THEN 1 ELSE 0)
      /\ \A q \in Procs \ {p} : flight'[f][q] = flight[f][q]
  BY ReleaseType DEF IInv, TypeOK
<1> QED
  BY <1>1, NotInVain, Before

\* The master lock is had: no process is in lock_all.
LEMMA LowGrantedStep ==
  ASSUME LockingAssumption, IInv, NEW p \in Procs, LowGranted(p)
  PROVE  OnlyMoves(p) /\ CallOf(p)' /\ Balanced(p)
<1>1. /\ at' = [at EXCEPT ![p] = At("excl", Target(p))]
      /\ Pc(p) = "low" /\ ~at[p].added /\ Add(Low, p)
      /\ UNCHANGED <<flight, locks, all, demand>>
  BY DEF LowGranted, Goto, Acquires, Granted, field
<1>2. TwoLevel /\ Target(p) \in Targets
  BY <1>1 DEF IInv, CallOK, CallOf
<1>3. at'[p] = At("excl", Target(p)) /\ OnlyMoves(p)
  BY <1>1 DEF OnlyMoves, IInv, TypeOK
<1>4. CallOf(p)'
  BY <1>1, <1>2, <1>3 DEF IInv, CallOK, CallOf, Pc, Target, At
<1>5. InLow(p)' = InLow(p) + 1
  BY <1>1, <1>2, <1>3, LowIsNat DEF InLow, ExclusiveLocks, Pc, At
<1>6. ASSUME NEW f \in Fields
      PROVE  Held(p, f)' = Held(p, f) + (IF f = Low THEN 1 ELSE 0)
  <2>1. CASE f = Low
    BY <2>1, <1>5 DEF Held
  <2>2. CASE f # Low
    <3>1. Held(p, f)' = Held(p, f)
      BY <2>2, <1>1, <1>3 DEF Held, Holds, Pc, At
    <3> QED
      BY <2>2, <3>1, HeldIsNat
  <2> QED
    BY <2>1, <2>2
<1>7. Balanced(p)
  BY <1>1, <1>3, <1>6, WordsUp, FieldsDiffer DEF At
<1> QED
  BY <1>3, <1>4, <1>7

\* lock_all is granted: no process has or tries an exclusive lock.
LEMMA HighGrantedStep ==
  ASSUME LockingAssumption, IInv, NEW p \in Procs, HighGranted(p)
  PROVE  OnlyMoves(p) /\ CallOf(p)' /\ Balanced(p)
<1>1. /\ at' = [at EXCEPT ![p] = Idle]
      /\ Pc(p) = "high" /\ ~at[p].added /\ Add(High, p)
      /\ UNCHANGED <<flight, locks, all, demand>>
  BY DEF HighGranted, Goto, Acquires, Granted, field
<1>2. TwoLevel /\ all[p]
  BY <1>1 DEF IInv, CallOK, CallOf
<1>3. at'[p] = Idle /\ OnlyMoves(p)
  BY <1>1 DEF OnlyMoves, IInv, TypeOK
<1>4. CallOf(p)'
  BY <1>1, <1>2, <1>3 DEF IInv, CallOK, CallOf, Pc, Target, At, Idle
<1>5. InLow(p)' = InLow(p)
  BY <1>1, <1>3 DEF InLow, ExclusiveLocks, Pc, At, Idle
<1>6. ASSUME NEW f \in Fields
      PROVE  Held(p, f)' = Held(p, f) + (IF f = High THEN 1 ELSE 0)
  <2>1. CASE f = High
    BY <2>1, <1>1, <1>2, <1>3, FieldsDiffer DEF Held, Holds, Pc, At, Idle
  <2>2. CASE f # High
    <3>1. Held(p, f)' = Held(p, f)
      BY <2>2, <1>1, <1>3, <1>5 DEF Held, Holds
    <3> QED
      BY <2>2, <3>1, HeldIsNat
  <2> QED
    BY <2>1, <2>2
<1>7. Balanced(p)
  BY <1>1, <1>3, <1>6, WordsUp, FieldsDiffer DEF At, Idle
<1> QED
  BY <1>3, <1>4, <1>7

\* The target refuses an exclusive lock: the master lock is given back.
LEMMA TryFailsStep ==
  ASSUME LockingAssumption, IInv, NEW p \in Procs, TryFails(p)
  PROVE  OnlyMoves(p) /\ CallOf(p)' /\ Balanced(p)
<1> DEFINE l == IF TwoLevel THEN "low" ELSE "excl"
           fs == IF TwoLevel THEN {Low} ELSE {}
<1>1. /\ at' = [at EXCEPT ![p] = At(l, Target(p))]
      /\ Pc(p) = "excl" /\ Release(fs, p)
      /\ UNCHANGED <<word, locks, all, demand>>
  BY DEF TryFails, Goto
<1>2. Target(p) \in Targets /\ ~at[p].added
  BY <1>1 DEF IInv, CallOK, CallOf
<1>3. at'[p] = At(l, Target(p)) /\ OnlyMoves(p)
  BY <1>1 DEF OnlyMoves, IInv, TypeOK
<1>4. CallOf(p)'
  BY <1>1, <1>2, <1>3 DEF IInv, CallOK, CallOf, Pc, Target, At
<1>5. InLow(p)' = InLow(p) - (IF TwoLevel THEN 1 ELSE 0)
  <2>1. ExclusiveLocks(p)' = ExclusiveLocks(p)
    BY <1>1 DEF ExclusiveLocks
  <2>2. at'[p].pc = l
    BY <1>3 DEF At
  <2> QED
    BY <1>1, <2>1, <2>2, LowIsNat DEF InLow, Pc
<1>6. ASSUME NEW f \in Fields
      PROVE  Held(p, f)' = Held(p, f) - (IF f \in fs THEN 1 ELSE 0)
  <2>1. CASE f = Low
    BY <2>1, <1>5 DEF Held
  <2>2. CASE f # Low
    <3>1. Held(p, f)' = Held(p, f)
      BY <2>2, <1>1, <1>3 DEF Held, Holds, Pc, At
    <3> QED
      BY <2>2, <3>1, HeldIsNat
  <2> QED
    BY <2>1, <2>2
<1>7. Balanced(p)
  <2>1. ~at'[p].added
    BY <1>3 DEF At
  <2> HIDE DEF fs
  <2> QED
    BY <1>1, <1>2, <1>6, <2>1, WordsDown
<1> QED
  BY <1>3, <1>4, <1>7

\* The master lock of the attempt becomes the master lock of the epoch.
LEMMA TryExclusiveStep ==
  ASSUME LockingAssumption, IInv, NEW p \in Procs, TryExclusive(p)
  PROVE  OnlyMoves(p) /\ CallOf(p)' /\ Balanced(p)
<1> DEFINE u == Target(p)
<1>1. /\ at' = [at EXCEPT ![p] = Idle] /\ locks' = [locks EXCEPT ![p][u] = "exclusive"]
      /\ Pc(p) = "excl" /\ Add(Excl(u), p)
      /\ UNCHANGED <<flight, all, demand>>
  BY DEF TryExclusive, Goto
<1>2. u \in Targets /\ ~at[p].added /\ ~all[p] /\ locks[p][u] = "none" /\ demand[p] = {}
  BY <1>1 DEF IInv, CallOK, CallOf
<1> HIDE DEF u
<1>3. at'[p] = Idle /\ OnlyMoves(p)
  BY <1>1 DEF OnlyMoves, IInv, TypeOK
<1>4. \A t \in Targets : locks'[p][t] = IF t = u THEN "exclusive" ELSE locks[p][t]
  BY <1>1, <1>2 DEF IInv, TypeOK
<1>5. CallOf(p)'
  BY <1>1, <1>2, <1>3 DEF IInv, CallOK, CallOf, Pc, Target, At, Idle
<1>6. InLow(p)' = InLow(p)
  <2>1. ExclusiveLocks(p)' = ExclusiveLocks(p) \cup {u} /\ u \notin ExclusiveLocks(p)
    BY <1>2, <1>4 DEF ExclusiveLocks
  <2>2. Cardinality(ExclusiveLocks(p)') = Cardinality(ExclusiveLocks(p)) + 1
    BY Zenon, <2>1, LowIsNat, FS_AddElement
  <2> QED
    BY <1>1, <1>3, <2>2, LowIsNat DEF InLow, Pc, At, Idle
<1>7. ASSUME NEW f \in Fields
      PROVE  Held(p, f)' = Held(p, f) + (IF f = Excl(u) THEN 1 ELSE 0)
  <2>1. CASE f = Excl(u)
    BY <2>1, <1>2, <1>4, FieldsDiffer DEF Held, Holds
  <2>2. CASE f # Excl(u)
    <3>1. Holds(p, f)' <=> Holds(p, f)
      BY <2>2, <1>1, <1>2, <1>3, <1>4 DEF Holds, Pc, At, Idle
    <3>2. Held(p, f)' = Held(p, f)
      BY <3>1, <1>6 DEF Held
    <3> QED
      BY <2>2, <3>2, HeldIsNat
  <2> QED
    BY <2>1, <2>2
<1>8. Balanced(p)
  BY <1>1, <1>2, <1>3, <1>7, WordsUp, FieldsDiffer DEF At, Idle
<1> QED
  BY <1>3, <1>5, <1>8

\* An idle process agrees with its epochs when they agree with each other.
LEMMA IdleCall ==
  ASSUME NEW p \in Procs, at'[p] = Idle,
         ~all'[p] \/ TwoLevel => demand'[p] = {},
         all'[p] => \A t \in Targets : locks'[p][t] = "none"
  PROVE  CallOf(p)' /\ at'[p].pc = "idle"
<1>1. at'[p].pc = "idle" /\ ~at'[p].added
  BY DEF Idle, At
<1> QED BY <1>1 DEF CallOf, Pc, Target

\* The epochs of a process agree with each other.
LEMMA EpochsAgree ==
  ASSUME IInv, NEW p \in Procs
  PROVE  /\ ~all[p] \/ TwoLevel => demand[p] = {}
         /\ all[p] => \A t \in Targets : locks[p][t] = "none"
<1>1. CallOf(p)
  BY Zenon DEF IInv, CallOK
<1> QED BY Zenon, <1>1 DEF CallOf

\* A shared lock is granted, asked for by MPI_Win_lock or on demand.
LEMMA SharedGrantedStep ==
  ASSUME LockingAssumption, IInv, NEW p \in Procs, SharedGranted(p)
  PROVE  OnlyMoves(p) /\ CallOf(p)' /\ Balanced(p)
<1> DEFINE u == Target(p)
<1>1. /\ at' = [at EXCEPT ![p] = Idle]
      /\ Pc(p) = "shared" /\ ~at[p].added /\ Add(Shared(u), p)
      /\ UNCHANGED <<flight, all>>
  BY DEF SharedGranted, Goto, Acquires, Granted, field
<1>2. \/ /\ all[p] /\ UNCHANGED locks
         /\ demand' = [demand EXCEPT ![p] = @ \cup {u}]
      \/ /\ ~all[p] /\ UNCHANGED demand
         /\ locks' = [locks EXCEPT ![p][u] = "shared"]
  BY DEF SharedGranted
<1>3. u \in Targets /\ locks[p][u] = "none" /\ u \notin demand[p] /\ (all[p] => ~TwoLevel)
  BY <1>1 DEF IInv, CallOK, CallOf
<1> HIDE DEF u
<1>4. at'[p] = Idle /\ OnlyMoves(p)
  BY <1>1, <1>2 DEF OnlyMoves, IInv, TypeOK
<1>5. CASE all[p]
  <2>1. locks'[p] = locks[p] /\ demand'[p] = demand[p] \cup {u} /\ all'[p]
    BY <1>1, <1>2, <1>5 DEF IInv, TypeOK
  <2>2. CallOf(p)'
    BY <1>3, <1>4, <1>5, <2>1, IdleCall, EpochsAgree
  <2>3. InLow(p)' = InLow(p)
    BY <1>1, <1>4, <2>1 DEF InLow, ExclusiveLocks, Pc, At, Idle
  <2>4. ASSUME NEW f \in Fields
        PROVE  Held(p, f)' = Held(p, f) + (IF f = Shared(u) THEN 1 ELSE 0)
    <3>1. CASE f = Shared(u)
      BY <3>1, <1>3, <2>1, FieldsDiffer DEF Held, Holds
    <3>2. CASE f # Shared(u)
      <4>1. Holds(p, f)' <=> Holds(p, f)
        BY Zenon, <3>2, <1>3, <1>5, <2>1 DEF Holds
      <4>2. Held(p, f)' = Held(p, f)
        BY <4>1, <2>3 DEF Held
      <4> QED
        BY <3>2, <4>2, HeldIsNat
    <3> QED
      BY <3>1, <3>2
  <2>5. Balanced(p)
    BY <1>1, <1>3, <1>4, <2>4, WordsUp, FieldsDiffer DEF At, Idle
  <2> QED
    BY <1>4, <2>2, <2>5
<1>6. CASE ~all[p]
  <2>1. /\ \A t \in Targets : locks'[p][t] = IF t = u THEN "shared" ELSE locks[p][t]
        /\ demand'[p] = demand[p] /\ ~all'[p]
    <3>1. locks \in [Procs -> [Targets -> {"none", "shared", "exclusive"}]]
      BY DEF IInv, TypeOK
    <3>2. locks' = [locks EXCEPT ![p][u] = "shared"] /\ UNCHANGED <<demand, all>>
      BY <1>1, <1>2, <1>6
    <3>3. locks'[p] = [locks[p] EXCEPT ![u] = "shared"]
      BY Zenon, <3>1, <3>2
    <3> QED BY <1>3, <1>6, <3>1, <3>2, <3>3
  <2>2. CallOf(p)'
    BY <1>4, <1>6, <2>1, IdleCall, EpochsAgree
  <2>3. InLow(p)' = InLow(p)
    <3>1. ExclusiveLocks(p)' = ExclusiveLocks(p)
      BY Zenon, <1>3, <2>1 DEF ExclusiveLocks
    <3> QED
      BY <1>1, <1>4, <3>1 DEF InLow, Pc, At, Idle
  <2>4. ASSUME NEW f \in Fields
        PROVE  Held(p, f)' = Held(p, f) + (IF f = Shared(u) THEN 1 ELSE 0)
    <3>1. CASE f = Shared(u)
      BY <3>1, <1>3, <2>1, FieldsDiffer DEF Held, Holds
    <3>2. CASE f # Shared(u)
      <4>1. Holds(p, f)' <=> Holds(p, f)
        BY <3>2, <1>3, <1>6, <2>1 DEF Holds
      <4>2. Held(p, f)' = Held(p, f)
        BY <4>1, <2>3 DEF Held
      <4> QED
        BY <3>2, <4>2, HeldIsNat
    <3> QED
      BY <3>1, <3>2
  <2>5. Balanced(p)
    BY <1>1, <1>3, <1>4, <2>4, WordsUp, FieldsDiffer DEF At, Idle
  <2> QED
    BY <1>4, <2>2, <2>5
<1> QED
  BY <1>5, <1>6

\* MPI_Win_lock_all begins.
LEMMA LockAllStep ==
  ASSUME LockingAssumption, IInv, NEW p \in Procs, LockAll(p)
  PROVE  OnlyMoves(p) /\ CallOf(p)' /\ Balanced(p)
<1>1. /\ Pc(p) = "idle" /\ ~all[p] /\ \A t \in Targets : locks[p][t] = "none"
      /\ all' = [all EXCEPT ![p] = TRUE]
      /\ UNCHANGED <<word, flight, locks, demand>>
  BY DEF LockAll
<1>2. /\ all'[p] /\ \A q \in Procs \ {p} : all'[q] = all[q]
      /\ ~at[p].added /\ demand[p] = {}
  BY Zenon, <1>1 DEF IInv, TypeOK, CallOK, CallOf
<1>3. /\ \A q \in Procs \ {p} : at'[q] = at[q]
      /\ \/ TwoLevel /\ at'[p] = At("high", NoTarget)
         \/ ~TwoLevel /\ p \in Targets /\ at'[p] = At("shared", p)
         \/ ~TwoLevel /\ at'[p] = at[p]
  BY DEF LockAll, Goto, IInv, TypeOK
<1>4. OnlyMoves(p)
  BY ZenonT(60), <1>1, <1>2, <1>3 DEF OnlyMoves
<1>5. CallOf(p)' /\ ~at'[p].added /\ at'[p].pc # "excl" /\ (TwoLevel => at'[p].pc = "high")
  BY <1>1, <1>2, <1>3 DEF CallOf, Pc, Target, At
<1>6. ASSUME NEW f \in Fields PROVE Held(p, f)' = Held(p, f)
  <2>1. ExclusiveLocks(p)' = ExclusiveLocks(p)
    BY Zenon, <1>1 DEF ExclusiveLocks
  <2>2. InLow(p)' = InLow(p)
    BY <1>1, <1>5, <2>1 DEF InLow, Pc
  <2>3. Holds(p, f)' <=> Holds(p, f)
    BY <1>1, <1>5 DEF Holds, Pc
  <2> QED
    BY <2>2, <2>3 DEF Held
<1>7. Balanced(p)
  BY <1>1, <1>2, <1>5, <1>6, WordsStay
<1> QED
  BY <1>4, <1>5, <1>7

\* MPI_Win_unlock_all sends its releases.
LEMMA UnlockAllStep ==
  ASSUME LockingAssumption, IInv, NEW p \in Procs, UnlockAll(p)
  PROVE  OnlyMoves(p) /\ CallOf(p)' /\ Balanced(p)
<1> DEFINE fs == IF TwoLevel THEN {High} ELSE { Shared(t) : t \in demand[p] }
<1>1. /\ Pc(p) = "idle" /\ all[p] /\ Release(fs, p)
      /\ all' = [all EXCEPT ![p] = FALSE] /\ demand' = [demand EXCEPT ![p] = {}]
      /\ UNCHANGED <<word, at, locks>>
  BY DEF UnlockAll
<1>2. /\ ~at[p].added /\ demand[p] \subseteq Targets /\ (TwoLevel => demand[p] = {})
      /\ \A t \in Targets : locks[p][t] = "none"
  BY <1>1 DEF IInv, TypeOK, CallOK, CallOf
<1>3. /\ ~all'[p] /\ demand'[p] = {} /\ OnlyMoves(p)
  BY <1>1 DEF OnlyMoves, IInv, TypeOK
<1>4. CallOf(p)'
  BY <1>1, <1>2, <1>3 DEF CallOf, Pc, Target
<1>5. ASSUME NEW f \in Fields
      PROVE  Held(p, f)' = Held(p, f) - (IF f \in fs THEN 1 ELSE 0)
  <2>1. CASE f = Low
    <3>1. f \notin fs
      BY <2>1, FieldsDiffer
    <3>2. InLow(p)' = InLow(p)
      BY <1>1 DEF InLow, ExclusiveLocks, Pc
    <3>3. Held(p, f)' = Held(p, f)
      BY <2>1, <3>2 DEF Held
    <3> HIDE DEF fs
    <3> QED
      BY <3>1, <3>3, HeldIsNat
  <2>2. CASE f # Low
    <3>1. ~Holds(p, f)'
      BY <1>1, <1>2, <1>3 DEF Holds
    <3>2. Holds(p, f) <=> f \in fs
      BY <1>1, <1>2, FieldsDiffer DEF Holds
    <3> HIDE DEF fs
    <3> QED
      BY <2>2, <3>1, <3>2 DEF Held
  <2> QED
    BY <2>1, <2>2
<1>6. Balanced(p)
  <2>1. ~at'[p].added
    BY <1>1, <1>2
  <2> HIDE DEF fs
  <2> QED
    BY <1>1, <1>2, <1>5, <2>1, WordsDown
<1> QED
  BY <1>3, <1>4, <1>6

\* MPI_Win_unlock sends its releases.
LEMMA UnlockStep ==
  ASSUME LockingAssumption, IInv, NEW p \in Procs, NEW u \in Targets, Unlock(p, u)
  PROVE  OnlyMoves(p) /\ CallOf(p)' /\ Balanced(p)
<1> DEFINE fs == IF locks[p][u] = "shared" THEN {Shared(u)}
                 ELSE IF TwoLevel THEN {Excl(u), Low} ELSE {Excl(u)}
<1>1. /\ Pc(p) = "idle" /\ locks[p][u] # "none" /\ Release(fs, p)
      /\ locks' = [locks EXCEPT ![p][u] = "none"]
      /\ UNCHANGED <<word, at, all, demand>>
  BY DEF Unlock
<1>2. ~at[p].added /\ ~all[p] /\ demand[p] = {} /\ locks[p][u] \in {"shared", "exclusive"}
  <2>1. CallOf(p) /\ TypeOK
    BY Zenon DEF IInv, CallOK
  <2>2. ~at[p].added /\ ~all[p]
    BY <1>1, <2>1 DEF CallOf
  <2> QED BY <1>1, <2>1, <2>2 DEF TypeOK, CallOf
<1>3. /\ \A t \in Targets : locks'[p][t] = IF t = u THEN "none" ELSE locks[p][t]
      /\ OnlyMoves(p)
  BY <1>1 DEF OnlyMoves, IInv, TypeOK
<1>4. CallOf(p)'
  BY <1>1, <1>2, <1>3 DEF CallOf, Pc, Target
<1>5. InLow(p)' = InLow(p) - (IF TwoLevel /\ locks[p][u] = "exclusive" THEN 1 ELSE 0)
  <2>1. Pc(p)' = Pc(p)
    BY <1>1 DEF Pc
  <2>2. CASE locks[p][u] = "shared"
    <3>1. ExclusiveLocks(p)' = ExclusiveLocks(p)
      BY <1>3, <2>2 DEF ExclusiveLocks
    <3> QED
      BY <3>1, <2>1, <2>2, LowIsNat DEF InLow
  <2>3. CASE locks[p][u] = "exclusive"
    <3>1. ExclusiveLocks(p)' = ExclusiveLocks(p) \ {u} /\ u \in ExclusiveLocks(p)
      BY <1>3, <2>3 DEF ExclusiveLocks
    <3>2. Cardinality(ExclusiveLocks(p)') = Cardinality(ExclusiveLocks(p)) - 1
      BY Zenon, <3>1, LowIsNat, FS_RemoveElement
    <3> QED
      BY <1>1, <3>2, <2>1, <2>3, LowIsNat DEF InLow
  <2> QED
    BY <1>2, <2>2, <2>3
<1>6. ASSUME NEW f \in Fields
      PROVE  Held(p, f)' = Held(p, f) - (IF f \in fs THEN 1 ELSE 0)
  <2>1. CASE f = Low
    <3>1. f \in fs <=> TwoLevel /\ locks[p][u] = "exclusive"
      BY <1>2, <2>1, FieldsDiffer
    <3> HIDE DEF fs
    <3> QED
      BY <2>1, <3>1, <1>5 DEF Held
  <2>2. CASE f # Low
    <3>1. f \in fs => Holds(p, f) /\ ~Holds(p, f)'
      BY <2>2, <1>1, <1>2, <1>3, FieldsDiffer DEF Holds
    <3>2. f \notin fs => (Holds(p, f)' <=> Holds(p, f))
      BY <2>2, <1>1, <1>2, <1>3, FieldsDiffer DEF Holds, Pc
    <3> HIDE DEF fs
    <3> QED
      BY <2>2, <3>1, <3>2 DEF Held
  <2> QED
    BY <2>1, <2>2
<1>7. Balanced(p)
  <2>1. ~at'[p].added
    BY <1>1, <1>2
  <2> HIDE DEF fs
  <2> QED
    BY <1>1, <1>2, <1>6, <2>1, WordsDown
<1> QED
  BY <1>3, <1>4, <1>7

-----------------------------------------------------------------------------
(* Who excludes whom *)

\* The step gives p no new lock.
NoMoreLocks(p) ==
  /\ \A t \in Targets : locks'[p][t] \in {locks[p][t], "none"}
  /\ demand'[p] \subseteq demand[p]

\* The step takes p past no counter of the global lock.
NoFurther(p) == TwoLevel => (PastLow(p)' => PastLow(p)) /\ (PastHigh(p)' => PastHigh(p))

\* A step of p that gains p no lock leaves exclusive locks alone.
LEMMA StayAlone ==
  ASSUME IInv, NEW p \in Procs, OnlyMoves(p), NoMoreLocks(p)
  PROVE  Alone'
<1> SUFFICES ASSUME NEW q \in Procs, NEW r \in Procs, NEW t \in Targets, q # r,
                    locks'[q][t] = "exclusive"
             PROVE  locks'[r][t] = "none" /\ t \notin demand'[r]
  BY DEF Alone
<1>1. ASSUME NEW s \in Procs
      PROVE  locks'[s][t] \in {locks[s][t], "none"} /\ demand'[s] \subseteq demand[s]
  BY DEF OnlyMoves, NoMoreLocks
<1>2. locks[q][t] = "exclusive"
  BY <1>1
<1>3. locks[r][t] = "none" /\ t \notin demand[r]
  BY <1>2 DEF IInv, Alone
<1> QED
  BY <1>1, <1>3

\* A step of p that brings p no further keeps locks and lock_all apart.
LEMMA StayApart ==
  ASSUME IInv, NEW p \in Procs, OnlyMoves(p), NoFurther(p)
  PROVE  Apart'
<1> SUFFICES ASSUME TwoLevel, NEW q \in Procs, NEW r \in Procs, q # r, PastLow(q)', PastHigh(r)'
             PROVE  FALSE
  BY DEF Apart
<1>1. ASSUME NEW s \in Procs, s # p
      PROVE  (PastLow(s)' <=> PastLow(s)) /\ (PastHigh(s)' <=> PastHigh(s))
  BY <1>1 DEF OnlyMoves, PastLow, PastHigh, ExclusiveLocks, Pc
<1>2. PastLow(q) /\ PastHigh(r)
  BY <1>1 DEF NoFurther
<1> QED
  BY <1>2 DEF IInv, Apart

\* Taking the exclusive lock: the word was zero, so nobody holds a share of it.
LEMMA TryExclusiveAlone ==
  ASSUME LockingAssumption, IInv, NEW p \in Procs, TryExclusive(p), OnlyMoves(p)
  PROVE  Alone' /\ NoFurther(p)
<1> DEFINE u == Target(p)
<1>1. /\ locks' = [locks EXCEPT ![p][u] = "exclusive"] /\ demand' = demand /\ all' = all
      /\ Pc(p) = "excl" /\ Zero(Excl(u)) /\ Zero(Shared(u))
  BY DEF TryExclusive, Unlocked
<1>2. u \in Targets /\ ~all[p] /\ demand[p] = {}
  BY <1>1 DEF IInv, CallOK, CallOf
<1> HIDE DEF u
<1>3. \A q \in Procs : locks[q][u] = "none" /\ u \notin demand[q]
  <2> SUFFICES ASSUME NEW q \in Procs PROVE locks[q][u] = "none" /\ u \notin demand[q]
    OBVIOUS
  <2>1. locks[q][u] # "exclusive" /\ locks[q][u] # "shared" /\ u \notin demand[q]
    BY <1>1, <1>2, ZeroMeansFree
  <2> QED
    BY <1>2, <2>1 DEF IInv, TypeOK
<1>4. \A q \in Procs, t \in Targets :
        locks'[q][t] = IF q = p /\ t = u THEN "exclusive" ELSE locks[q][t]
  BY <1>1, <1>2 DEF IInv, TypeOK
<1>5. Alone'
  BY <1>1, <1>2, <1>3, <1>4 DEF IInv, Alone
<1>6. NoFurther(p)
  BY <1>1, <1>2 DEF NoFurther, PastLow, PastHigh
<1> QED
  BY <1>5, <1>6

\* Taking a shared lock: nobody has the exclusive bit.
LEMMA SharedGrantedAlone ==
  ASSUME LockingAssumption, IInv, NEW p \in Procs, SharedGranted(p), OnlyMoves(p)
  PROVE  Alone' /\ NoFurther(p)
<1> DEFINE u == Target(p)
<1>1. /\ Pc(p) = "shared" /\ Zero(Excl(u)) /\ at' = [at EXCEPT ![p] = Idle] /\ all' = all
      /\ \/ /\ all[p] /\ UNCHANGED locks
            /\ demand' = [demand EXCEPT ![p] = @ \cup {u}]
         \/ /\ ~all[p] /\ UNCHANGED demand
            /\ locks' = [locks EXCEPT ![p][u] = "shared"]
  BY DEF SharedGranted, Granted, check, Goto
<1>2. u \in Targets /\ (all[p] => ~TwoLevel)
  BY <1>1 DEF IInv, CallOK, CallOf
<1> HIDE DEF u
<1>3. \A q \in Procs : locks[q][u] # "exclusive"
  BY Zenon, <1>1, <1>2, ZeroMeansFree
<1>4. ASSUME NEW q \in Procs, NEW t \in Targets
      PROVE  /\ locks'[q][t] \in {locks[q][t], "none"} \/ (t = u /\ locks'[q][t] = "shared")
             /\ t \in demand'[q] => t \in demand[q] \/ t = u
  <2>1. /\ locks \in [Procs -> [Targets -> {"none", "shared", "exclusive"}]]
        /\ demand \in [Procs -> SUBSET Targets]
    BY DEF IInv, TypeOK
  <2>2. CASE all[p]
    <3>1. locks' = locks /\ demand' = [demand EXCEPT ![p] = @ \cup {u}]
      BY <1>1, <2>2
    <3> QED
      BY <2>1, <3>1
  <2>3. CASE ~all[p]
    <3>1. demand' = demand /\ locks' = [locks EXCEPT ![p][u] = "shared"]
      BY <1>1, <2>3
    <3> QED
      BY <2>1, <3>1, <1>2
  <2> QED
    BY <2>2, <2>3
<1>5. Alone'
  <2> SUFFICES ASSUME NEW q \in Procs, NEW r \in Procs, NEW t \in Targets, q # r,
                      locks'[q][t] = "exclusive"
               PROVE  locks'[r][t] = "none" /\ t \notin demand'[r]
    BY DEF Alone
  <2>1. locks[q][t] = "exclusive" /\ t # u
    BY <1>3, <1>4
  <2>2. locks[r][t] = "none" /\ t \notin demand[r]
    BY <2>1 DEF IInv, Alone
  <2> QED
    BY <2>1, <2>2, <1>4
<1>6. NoFurther(p)
  <2> SUFFICES ASSUME TwoLevel PROVE (PastLow(p)' => PastLow(p)) /\ ~PastHigh(p)'
    BY DEF NoFurther
  <2>1. at'[p] = Idle
    BY <1>1 DEF IInv, TypeOK
  <2>2. ExclusiveLocks(p)' \subseteq ExclusiveLocks(p)
    BY <1>4 DEF ExclusiveLocks
  <2> QED
    BY <2>1, <2>2, <1>1, <1>2 DEF PastLow, PastHigh, Pc, Idle, At
<1> QED
  BY <1>5, <1>6

\* Past the low half of the global lock: nobody counts in the high half.
LEMMA LowGrantedApart ==
  ASSUME LockingAssumption, IInv, NEW p \in Procs, LowGranted(p), OnlyMoves(p)
  PROVE  Apart' /\ NoMoreLocks(p)
<1>1. Pc(p) = "low" /\ Zero(High) /\ UNCHANGED <<locks, all, demand>>
  BY DEF LowGranted, Granted, check
<1>2. \A q \in Procs : TwoLevel => ~PastHigh(q)
  BY ZenonT(60), <1>1, ZeroMeansFree
<1>3. \A q \in Procs \ {p} : PastHigh(q)' => PastHigh(q)
  BY DEF OnlyMoves, PastHigh, Pc
<1>4. ~PastHigh(p)'
  BY <1>1 DEF PastHigh, IInv, CallOK, CallOf
<1> QED
  BY <1>1, <1>2, <1>3, <1>4 DEF Apart, NoMoreLocks

\* Past the high half: nobody counts in the low half.
LEMMA HighGrantedApart ==
  ASSUME LockingAssumption, IInv, NEW p \in Procs, HighGranted(p), OnlyMoves(p)
  PROVE  Apart' /\ NoMoreLocks(p)
<1>1. /\ Pc(p) = "high" /\ Zero(Low) /\ UNCHANGED <<locks, all, demand>>
      /\ at' = [at EXCEPT ![p] = Idle]
  BY DEF HighGranted, Granted, check, Goto
<1>2. \A q \in Procs : TwoLevel => ~PastLow(q)
  BY <1>1, ZeroMeansFree
<1>3. \A q \in Procs \ {p} : PastLow(q)' => PastLow(q)
  BY DEF OnlyMoves, PastLow, Pc, ExclusiveLocks
<1>4. TwoLevel => ~PastLow(p)'
  <2>1. at'[p] = Idle
    BY <1>1 DEF IInv, TypeOK
  <2>2. ExclusiveLocks(p)' = ExclusiveLocks(p)
    BY <1>1 DEF ExclusiveLocks
  <2> QED
    BY <1>2, <2>1, <2>2 DEF PastLow, Pc, Idle, At
<1> QED
  BY <1>1, <1>2, <1>3, <1>4 DEF Apart, NoMoreLocks

-----------------------------------------------------------------------------
(* The theorems *)

\* What every action does, for the process that takes it.
Keeps(p) ==
  OnlyMoves(p) /\ CallOf(p)' /\ Balanced(p) /\ Alone' /\ Apart'

\* A step of an action that gives no new lock.
LEMMA QuietKeeps ==
  ASSUME LockingAssumption, IInv, NEW p \in Procs,
         OnlyMoves(p) /\ CallOf(p)' /\ Balanced(p), NoMoreLocks(p), NoFurther(p)
  PROVE  Keeps(p)
BY StayAlone, StayApart DEF Keeps

\* Every action is a step of one process that keeps the invariant.
LEMMA ActionKeeps ==
  ASSUME LockingAssumption, IInv, Next
  PROVE  \E p \in Procs : Keeps(p)
<1> USE DEF NoMoreLocks, NoFurther, PastLow, PastHigh, ExclusiveLocks, Pc
<1>1. ASSUME NEW f \in Fields, NEW p \in Procs, Arrive(f, p) PROVE Keeps(p)
  <2>1. UNCHANGED <<at, locks, all, demand>>
    BY <1>1 DEF Arrive
  <2>2. NoMoreLocks(p) /\ NoFurther(p)
    BY <2>1
  <2> QED
    BY <1>1, <2>2, ArriveStep, QuietKeeps
<1>2. ASSUME NEW p \in Procs, Refused(p) PROVE Keeps(p)
  <2>1. UNCHANGED <<locks, all, demand>> /\ at'[p].pc = at[p].pc
    BY <1>2 DEF Refused, Goto, IInv, TypeOK
  <2>2. NoMoreLocks(p) /\ NoFurther(p)
    BY <2>1
  <2> QED
    BY <1>2, <2>2, RefusedStep, QuietKeeps
<1>3. ASSUME NEW p \in Procs, BackOff(p) PROVE Keeps(p)
  <2>1. UNCHANGED <<locks, all, demand>> /\ at'[p].pc = at[p].pc
    BY ZenonT(60), <1>3 DEF BackOff, Goto, IInv, TypeOK
  <2>2. NoMoreLocks(p) /\ NoFurther(p)
    BY <2>1
  <2> QED
    BY <1>3, <2>2, BackOffStep, QuietKeeps
<1>4. ASSUME NEW p \in Procs, NEW t \in Targets, NEW type \in {"shared", "exclusive"},
             Lock(p, t, type)
      PROVE  Keeps(p)
  <2>1. UNCHANGED <<locks, all, demand>> /\ ~all[p] /\ (TwoLevel => at'[p].pc # "excl")
    BY <1>4 DEF Lock, Goto, At, IInv, TypeOK
  <2>2. NoMoreLocks(p) /\ NoFurther(p)
    BY <2>1
  <2> QED
    BY <1>4, <2>2, LockStep, QuietKeeps
<1>5. ASSUME NEW p \in Procs, LowGranted(p) PROVE Keeps(p)
  BY Zenon, <1>5, LowGrantedStep, LowGrantedApart, StayAlone DEF Keeps
<1>6. ASSUME NEW p \in Procs, TryExclusive(p) PROVE Keeps(p)
  BY ZenonT(60), <1>6, TryExclusiveStep, TryExclusiveAlone, StayApart DEF Keeps
<1>7. ASSUME NEW p \in Procs, TryFails(p) PROVE Keeps(p)
  <2>1. UNCHANGED <<locks, all, demand>> /\ at[p].pc = "excl" /\ ~all[p]
    BY <1>7 DEF TryFails, IInv, CallOK, CallOf
  <2>2. NoMoreLocks(p) /\ NoFurther(p)
    BY Zenon, <2>1
  <2> QED
    BY <1>7, <2>2, TryFailsStep, QuietKeeps
<1>8. ASSUME NEW p \in Procs, SharedGranted(p) PROVE Keeps(p)
  BY Zenon, <1>8, SharedGrantedStep, SharedGrantedAlone, StayApart DEF Keeps
<1>9. ASSUME NEW p \in Procs, NEW t \in Targets, Unlock(p, t) PROVE Keeps(p)
  <2>1. UNCHANGED <<at, all, demand>>
        /\ \A u \in Targets : locks'[p][u] \in {locks[p][u], "none"}
    BY <1>9 DEF Unlock, IInv, TypeOK
  <2>2. ExclusiveLocks(p)' \subseteq ExclusiveLocks(p)
    BY <2>1
  <2>3. NoMoreLocks(p)
    BY <2>1
  <2> HIDE DEF ExclusiveLocks
  <2>4. NoFurther(p)
    BY Zenon, <2>1, <2>2
  <2> QED
    BY <1>9, <2>3, <2>4, UnlockStep, QuietKeeps
<1>10. ASSUME NEW p \in Procs, NEW t \in Targets, Lookup(p, t) PROVE Keeps(p)
  <2>1. UNCHANGED <<locks, all, demand>> /\ ~TwoLevel
    BY <1>10 DEF Lookup
  <2>2. NoMoreLocks(p) /\ NoFurther(p)
    BY <2>1
  <2> QED
    BY <1>10, <2>2, LookupStep, QuietKeeps
<1>11. ASSUME NEW p \in Procs, LockAll(p) PROVE Keeps(p)
  <2>1. UNCHANGED <<locks, demand>> /\ (TwoLevel => at'[p].pc = "high")
    BY <1>11 DEF LockAll, Goto, At, IInv, TypeOK
  <2>2. NoMoreLocks(p) /\ NoFurther(p)
    BY <2>1
  <2> QED
    BY <1>11, <2>2, LockAllStep, QuietKeeps
<1>12. ASSUME NEW p \in Procs, HighGranted(p) PROVE Keeps(p)
  BY <1>12, HighGrantedStep, HighGrantedApart, StayAlone DEF Keeps
<1>13. ASSUME NEW p \in Procs, UnlockAll(p) PROVE Keeps(p)
  <2>1. UNCHANGED <<at, locks>> /\ ~all'[p] /\ demand'[p] = {}
    BY <1>13 DEF UnlockAll, IInv, TypeOK
  <2>2. NoMoreLocks(p) /\ NoFurther(p)
    BY <2>1
  <2> QED
    BY <1>13, <2>2, UnlockAllStep, QuietKeeps
<1> QED
  BY ZenonT(60), <1>1, <1>2, <1>3, <1>4, <1>5, <1>6, <1>7, <1>8, <1>9, <1>10, <1>11, <1>12, <1>13 DEF Next

\* The inductive invariant holds in every reachable state.
THEOREM Inductive ==
  ASSUME LockingAssumption
  PROVE  Spec => []IInv
<1>1. Init => IInv
  <2> SUFFICES ASSUME Init PROVE IInv
    OBVIOUS
  <2>1. /\ word = [f \in Fields |-> [p \in Procs |-> 0]]
        /\ flight = [f \in Fields |-> [p \in Procs |-> 0]]
        /\ at = [p \in Procs |-> [pc |-> "idle", target |-> NoTarget, added |-> FALSE]]
        /\ locks = [p \in Procs |-> [t \in Targets |-> "none"]]
        /\ all = [p \in Procs |-> FALSE] /\ demand = [p \in Procs |-> {}] /\ epochs = Epochs
    BY DEF Init, Idle, At
  <2>2. TypeOK
    BY <2>1 DEF TypeOK, LockingAssumption
  <2>3. CallOK
    BY <2>1 DEF CallOK, CallOf, Pc
  <2>4. ASSUME NEW p \in Procs, NEW f \in Fields PROVE Held(p, f) = 0 /\ InVain(p, f) = 0
    <3>1. ExclusiveLocks(p) = {} /\ Pc(p) = "idle"
      BY <2>1 DEF ExclusiveLocks, Pc
    <3>2. InLow(p) = 0
      BY <3>1, FS_EmptySet DEF InLow
    <3>3. ~Holds(p, f)
      BY <2>1 DEF Holds
    <3> QED
      BY <2>1, <3>2, <3>3 DEF Held, InVain
  <2>5. WordsAreOwned
    BY <2>1, <2>4 DEF WordsAreOwned
  <2>6. Alone /\ Apart
    BY <2>1 DEF Alone, Apart, PastHigh
  <2> QED
    BY <2>2, <2>3, <2>5, <2>6 DEF IInv
<1>2. IInv /\ [Next]_vars => IInv'
  <2> SUFFICES ASSUME IInv, [Next]_vars PROVE IInv'
    OBVIOUS
  <2>1. TypeOK'
    BY TypeStep
  <2>2. CASE Next
    <3>1. PICK p \in Procs : Keeps(p)
      BY <2>2, ActionKeeps
    <3>2. CallOK'
      BY <3>1, CallOfOne DEF Keeps, IInv
    <3>3. WordsAreOwned'
      BY <2>1, <3>1, BalancedOne DEF Keeps
    <3> QED
      BY <2>1, <3>1, <3>2, <3>3 DEF Keeps, IInv
  <2>3. CASE UNCHANGED vars
    <3>1. UNCHANGED <<word, flight, at, locks, all, demand, epochs>>
      BY ZenonT(60), <2>3 DEF vars
    <3>2. CallOK' /\ Alone' /\ Apart'
      BY <3>1 DEF IInv, CallOK, CallOf, Alone, Apart, PastLow, PastHigh, ExclusiveLocks,
                        Pc, Target
    <3>3. WordsAreOwned'
      BY <3>1 DEF IInv, WordsAreOwned, Held, InLow, Holds, ExclusiveLocks, InVain, field,
                        Pc, Target
    <3> QED
      BY <2>1, <3>2, <3>3 DEF IInv
  <2> QED
    BY <2>2, <2>3
<1> QED
  BY <1>1, <1>2, PTL DEF Spec

\* MPI_Win_lock and MPI_Win_lock_all of osc/rdma: while a process has the
\* exclusive lock on a target nobody else has a lock on it, for any number of
\* processes and targets and however late the releases arrive.
THEOREM Exclusion ==
  ASSUME LockingAssumption
  PROVE  Spec => []MutualExclusion
<1>1. IInv => MutualExclusion
  <2> SUFFICES ASSUME IInv, NEW p \in Procs, NEW q \in Procs, NEW t \in Targets, p # q,
                      locks[p][t] = "exclusive"
               PROVE  locks[q][t] # "exclusive" /\ ~SharesAccess(q, t)
    BY DEF MutualExclusion
  <2>1. locks[q][t] = "none" /\ t \notin demand[q]
    BY DEF IInv, Alone
  <2>2. PastLow(p)
    BY DEF PastLow, ExclusiveLocks
  <2>3. TwoLevel => ~PastHigh(q)
    BY <2>2 DEF IInv, Apart
  <2> QED
    BY <2>1, <2>3 DEF SharesAccess, PastHigh
<1> QED
  BY <1>1, Inductive, PTL

\* The lock words of osc/rdma: whatever is in a word is held by a process, has
\* just been added in vain by one, or is on its way to being taken back.
THEOREM Ownership ==
  ASSUME LockingAssumption
  PROVE  Spec => []WordsAreOwned
<1>1. IInv => WordsAreOwned
  BY DEF IInv
<1> QED
  BY <1>1, Inductive, PTL
=============================================================================
