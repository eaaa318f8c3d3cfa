------------------------- MODULE Ob1OrderedListProofs ------------------------
(***************************************************************************)
(* mca_pml_ob1_recv_frag_match's list of out-of-sequence fragments: what   *)
(* append_frag_to_ordered_list and remove_head_from_ordered_list return,   *)
(* for every list and every width of the numbers; and that both keep it in *)
(* order while numbers do not wrap.  The former stops its walk because a   *)
(* set of naturals has a least element, a hypothesis here (Least).         *)
(***************************************************************************)
EXTENDS Ob1OrderedList, LeastElement, TLAPS

(* Sets of numbers and sequences.                                          *)

\* The empty sequence, and only it, has no elements.
LEMMA EmptySequence ==
  ASSUME NEW S
  PROVE  /\ << >> \in Seq(S)
         /\ Len(<< >>) = 0
         /\ \A s \in Seq(S) : s # << >> => Len(s) \in Nat \ {0}
OBVIOUS

\* One sequence after the other.
LEMMA Concatenation ==
  ASSUME NEW S, NEW s \in Seq(S), NEW t \in Seq(S)
  PROVE  /\ s \o t \in Seq(S)
         /\ Len(s \o t) = Len(s) + Len(t)
         /\ \A i \in 1 .. Len(s) + Len(t) :
              (s \o t)[i] = IF i <= Len(s) THEN s[i] ELSE t[i - Len(s)]
OBVIOUS

\* A sequence without its first element.
LEMMA Remainder ==
  ASSUME NEW S, NEW s \in Seq(S), s # << >>
  PROVE  /\ Tail(s) \in Seq(S)
         /\ Len(Tail(s)) = Len(s) - 1
         /\ \A i \in 1 .. Len(Tail(s)) : Tail(s)[i] = s[i + 1]
OBVIOUS

\* The elements from m to n.
LEMMA Extract ==
  ASSUME NEW S, NEW s \in Seq(S), NEW m \in 1 .. Len(s), NEW n \in m - 1 .. Len(s)
  PROVE  /\ SubSeq(s, m, n) \in Seq(S)
         /\ Len(SubSeq(s, m, n)) = n - m + 1
         /\ \A i \in 1 .. n - m + 1 : SubSeq(s, m, n)[i] = s[m + i - 1]
OBVIOUS

------------------------------------------------------------------------------
\* The least of a set of positions.
LEMMA MinExists ==
  ASSUME Least, NEW T, T \subseteq Nat, T # {}
  PROVE  \E x \in T : \A y \in T : x <= y
BY Zenon DEF Least

\* A header carries a number below SeqMod.
LEMMA HdrSeqRange ==
  ASSUME NEW S, Numbered(S), NEW f \in S
  PROVE  hdr_seq(f) \in 0 .. SeqMod - 1
BY SeqModAssumption DEF hdr_seq, Numbered

\* The positions of the ranges after a rotation and after an insertion.
LEMMA RotateSeq ==
  ASSUME NEW X, NEW q \in Seq(X), NEW k \in 1 .. Len(q)
  PROVE  /\ set_head(q, k) \in Seq(X)
         /\ Len(set_head(q, k)) = Len(q)
         /\ \A j \in 1 .. Len(q) : set_head(q, k)[j] =
              IF j <= Len(q) - k + 1 THEN q[k + j - 1]
                                     ELSE q[j - (Len(q) - k + 1)]
<1> DEFINE u == SubSeq(q, k, Len(q))
           v == SubSeq(q, 1, k - 1)
<1>1. /\ u \in Seq(X) /\ Len(u) = Len(q) - k + 1
      /\ \A j \in 1 .. Len(q) - k + 1 : u[j] = q[k + j - 1]
  OBVIOUS
<1>2. /\ v \in Seq(X) /\ Len(v) = k - 1
      /\ \A j \in 1 .. k - 1 : v[j] = q[j]
  OBVIOUS
<1>3. k \in Int /\ Len(q) \in Nat /\ 1 <= k /\ k <= Len(q)
  OBVIOUS
<1> HIDE DEF u, v
<1>4. /\ u \o v \in Seq(X) /\ Len(u \o v) = Len(q)
      /\ \A j \in 1 .. Len(q) : (u \o v)[j] =
           IF j <= Len(u) THEN u[j] ELSE v[j - Len(u)]
  BY <1>1, <1>2, <1>3
<1>5. \A j \in 1 .. Len(q) : (u \o v)[j] =
        IF j <= Len(q) - k + 1 THEN q[k + j - 1] ELSE q[j - (Len(q) - k + 1)]
  <2> SUFFICES ASSUME NEW j \in 1 .. Len(q)
               PROVE  (u \o v)[j] = IF j <= Len(q) - k + 1 THEN q[k + j - 1]
                                     ELSE q[j - (Len(q) - k + 1)]
    BY Zenon
  <2>1. CASE j <= Len(q) - k + 1
    <3>1. j \in 1 .. Len(q) - k + 1
      BY <2>1, <1>3
    <3> QED BY <2>1, <3>1, <1>1, <1>4
  <2>2. CASE ~(j <= Len(q) - k + 1)
    <3>1. j - (Len(q) - k + 1) \in 1 .. k - 1
      BY <2>2, <1>3
    <3> QED BY <2>2, <3>1, <1>1, <1>2, <1>4
  <2> QED BY Zenon, <2>1, <2>2
<1> QED BY <1>4, <1>5 DEF set_head, u, v

\* A range of its own put after the k-th one: the ranges before keep their
\* places, the ones after move up by one.
LEMMA InsertSeq ==
  ASSUME NEW X, NEW q \in Seq(X), NEW k \in 1 .. Len(q), NEW f, <<f>> \in X
  PROVE  /\ insert_after(q, k, f) \in Seq(X)
         /\ Len(insert_after(q, k, f)) = Len(q) + 1
         /\ \A j \in 1 .. Len(q) + 1 : insert_after(q, k, f)[j] =
              IF j <= k THEN q[j] ELSE IF j = k + 1 THEN <<f>> ELSE q[j - 1]
<1> DEFINE z == <<f>>
<1>0. Len(q) \in Nat /\ k \in Nat /\ 1 <= k /\ k <= Len(q)
  OBVIOUS
<1>1. insert_after(q, k, f) =
        (SubSeq(q, 1, k) \o <<z>>) \o SubSeq(q, k + 1, Len(q))
  BY DEF insert_after
<1>2. z \in X
  OBVIOUS
<1> HIDE DEF z
<1>3. /\ SubSeq(q, 1, k) \in Seq(X)
      /\ Len(SubSeq(q, 1, k)) = k
      /\ \A j \in 1 .. k : SubSeq(q, 1, k)[j] = q[j]
  OBVIOUS
<1>4. /\ SubSeq(q, 1, k) \o <<z>> \in Seq(X)
      /\ Len(SubSeq(q, 1, k) \o <<z>>) = k + 1
      /\ \A j \in 1 .. k + 1 : (SubSeq(q, 1, k) \o <<z>>)[j] =
                                  IF j = k + 1 THEN z ELSE q[j]
  BY <1>2, <1>3
<1>5. /\ SubSeq(q, k + 1, Len(q)) \in Seq(X)
      /\ Len(SubSeq(q, k + 1, Len(q))) = Len(q) - k
      /\ \A j \in 1 .. Len(q) - k : SubSeq(q, k + 1, Len(q))[j] = q[k + j]
  OBVIOUS
<1> DEFINE u == SubSeq(q, 1, k) \o <<z>>
           v == SubSeq(q, k + 1, Len(q))
<1> HIDE DEF u, v
<1>6. /\ u \in Seq(X) /\ Len(u) = k + 1
      /\ \A j \in 1 .. k + 1 : u[j] = IF j = k + 1 THEN z ELSE q[j]
  BY Zenon, <1>4 DEF u
<1>7. /\ v \in Seq(X) /\ Len(v) = Len(q) - k
      /\ \A j \in 1 .. Len(q) - k : v[j] = q[k + j]
  BY <1>5 DEF v
<1>7a. /\ u \o v \in Seq(X)
       /\ Len(u \o v) = Len(u) + Len(v)
       /\ \A j \in 1 .. Len(u) + Len(v) : (u \o v)[j] =
              IF j <= Len(u) THEN u[j] ELSE v[j - Len(u)]
  BY Zenon, <1>6, <1>7, Concatenation
<1>7b. Len(u) = k + 1 /\ Len(u) + Len(v) = Len(q) + 1
  BY <1>0, <1>6, <1>7
<1>8. /\ u \o v \in Seq(X)
      /\ Len(u \o v) = Len(q) + 1
      /\ \A j \in 1 .. Len(q) + 1 : (u \o v)[j] =
              IF j <= k + 1 THEN u[j] ELSE v[j - (k + 1)]
  BY <1>7a, <1>7b
<1>9. \A j \in 1 .. Len(q) + 1 : (u \o v)[j] =
              IF j <= k THEN q[j] ELSE IF j = k + 1 THEN z ELSE q[j - 1]
  <2> SUFFICES ASSUME NEW j \in 1 .. Len(q) + 1
               PROVE  (u \o v)[j] = IF j <= k THEN q[j]
                                    ELSE IF j = k + 1 THEN z ELSE q[j - 1]
    BY Zenon
  <2>1. CASE j <= k + 1
    BY <2>1, <1>0, <1>6, <1>8
  <2>2. CASE j > k + 1
    <3>1. j - (k + 1) \in 1 .. Len(q) - k /\ k + (j - (k + 1)) = j - 1
      BY <2>2, <1>0
    <3>2. (u \o v)[j] = v[j - (k + 1)]
      BY <2>2, <1>0, <1>8
    <3>3. v[j - (k + 1)] = q[j - 1]
      BY <3>1, <1>7
    <3> QED BY <2>2, <1>0, <3>2, <3>3
  <2>3. j <= k + 1 \/ j > k + 1
    BY <1>0
  <2> QED BY Zenon, <2>1, <2>2, <2>3
<1>10. insert_after(q, k, f) = u \o v
  BY <1>1 DEF u, v
<1> QED BY <1>8, <1>9, <1>10 DEF z

\* The ranges of r are those of q in another order: at is the permutation.
Relocated(q, r, at) ==
  /\ at \in [1 .. Len(r) -> 1 .. Len(q)]
  /\ \A i, j \in 1 .. Len(r) : at[i] = at[j] => i = j
  /\ \A l \in 1 .. Len(q) : \E j \in 1 .. Len(r) : at[j] = l
  /\ \A j \in 1 .. Len(r) : r[j] = q[at[j]]

\* Moving ranges around keeps a list well formed.
LEMMA Relocate ==
  ASSUME NEW S, NEW q, WellFormed(q, S), NEW r, r \in Lists(S),
         NEW at, Relocated(q, r, at)
  PROVE  WellFormed(r, S) /\ \A x : On(r, x) <=> On(q, x)
<1> USE DEF Relocated
<1>1. Distinct(r)
  <2> SUFFICES ASSUME NEW x \in 1 .. Len(r), NEW y \in 1 .. Len(r),
                      NEW i \in 1 .. Len(r[x]), NEW j \in 1 .. Len(r[y]),
                      r[x][i] = r[y][j]
               PROVE  x = y /\ i = j
    BY DEF Distinct
  <2> DEFINE X == at[x]
             Y == at[y]
  <2>0. /\ X \in 1 .. Len(q) /\ Y \in 1 .. Len(q)
        /\ r[x] = q[X] /\ r[y] = q[Y]
    OBVIOUS
  <2> HIDE DEF X, Y
  <2>1. X = Y /\ i = j
    BY <2>0 DEF WellFormed, Distinct
  <2>2. at[x] = at[y]
    BY <2>1 DEF X, Y
  <2> QED BY <2>1, <2>2
<1>2. Contiguous(r)
  <2> SUFFICES ASSUME NEW x \in 1 .. Len(r), NEW i \in 1 .. Len(r[x])
               PROVE  hdr_seq(r[x][i]) = hdr_seq(r[x][1]) + i - 1
    BY DEF Contiguous
  <2> QED BY DEF WellFormed, Contiguous
<1>3. ASSUME NEW x, On(r, x) PROVE On(q, x)
  <2>1. PICK j \in 1 .. Len(r) : \E i \in 1 .. Len(r[j]) : x = r[j][i]
    BY <1>3 DEF On
  <2> QED BY <2>1 DEF On
<1>4. ASSUME NEW x, On(q, x) PROVE On(r, x)
  <2>1. PICK l \in 1 .. Len(q) : \E i \in 1 .. Len(q[l]) : x = q[l][i]
    BY <1>4 DEF On
  <2>2. PICK j \in 1 .. Len(r) : at[j] = l
    BY Zenon
  <2> QED BY <2>1, <2>2 DEF On
<1> QED BY <1>1, <1>2, <1>3, <1>4 DEF WellFormed

\* Rotating the ring changes the head only.
LEMMA SetHead ==
  ASSUME NEW S, NEW q, WellFormed(q, S), NEW k \in 1 .. Len(q)
  PROVE  LET r == set_head(q, k)
         IN  /\ WellFormed(r, S)
             /\ Len(r) = Len(q)
             /\ r[1] = q[k]
             /\ \A x : On(r, x) <=> On(q, x)
<1> DEFINE r == set_head(q, k)
           N == Len(q)
           at == [j \in 1 .. N |-> IF j <= N - k + 1 THEN k + j - 1
                                                    ELSE j - (N - k + 1)]
<1>1. q \in Lists(S) /\ N \in Nat
  BY DEF WellFormed, Lists
<1>2. r \in Lists(S) /\ Len(r) = N
  BY <1>1, RotateSeq DEF Lists
<1>3. \A j \in 1 .. N : r[j] = IF j <= N - k + 1 THEN q[k + j - 1]
                                                 ELSE q[j - (N - k + 1)]
  BY <1>1, RotateSeq DEF Lists
<1> HIDE DEF r
<1>4. at \in [1 .. N -> 1 .. N]
  BY <1>1
<1>5. \A i, j \in 1 .. N : at[i] = at[j] => i = j
  BY <1>1
<1>6. ASSUME NEW l \in 1 .. N PROVE \E j \in 1 .. N : at[j] = l
  <2>1. CASE l >= k
    <3>1. l - k + 1 \in 1 .. N /\ at[l - k + 1] = l
      BY <2>1, <1>1
    <3> QED BY Zenon, <3>1
  <2>2. CASE l < k
    <3>1. l + (N - k + 1) \in 1 .. N /\ at[l + (N - k + 1)] = l
      BY <2>2, <1>1
    <3> QED BY Zenon, <3>1
  <2> QED BY <2>1, <2>2, <1>1
<1>7. \A j \in 1 .. N : r[j] = q[at[j]]
  BY <1>1, <1>3
<1>8. r[1] = q[k]
  BY <1>1, <1>3
<1> HIDE DEF at
<1>9. WellFormed(r, S) /\ \A x : On(r, x) <=> On(q, x)
  <2>1. at \in [1 .. Len(r) -> 1 .. Len(q)]
    BY <1>2, <1>4
  <2>2. \A i, j \in 1 .. Len(r) : at[i] = at[j] => i = j
    BY <1>2, <1>5
  <2>3. \A l \in 1 .. Len(q) : \E j \in 1 .. Len(r) : at[j] = l
    BY <1>2, <1>6
  <2>4. \A j \in 1 .. Len(r) : r[j] = q[at[j]]
    BY <1>2, <1>7
  <2>5. Relocated(q, r, at)
    BY <2>1, <2>2, <2>3, <2>4 DEF Relocated
  <2> QED BY <1>2, <2>5, Relocate
<1> QED BY <1>2, <1>8, <1>9 DEF r

\* A fragment in a range of its own is added and nothing else changes.
LEMMA InsertAfter ==
  ASSUME NEW S, NEW q, WellFormed(q, S), Numbered(S),
         NEW k \in 1 .. Len(q), NEW f \in S, ~On(q, f)
  PROVE  LET r == insert_after(q, k, f)
         IN  /\ WellFormed(r, S)
             /\ Len(r) = Len(q) + 1
             /\ r[k + 1] = <<f>>
             /\ \A x : On(r, x) <=> On(q, x) \/ x = f
<1> DEFINE r == insert_after(q, k, f)
           N == Len(q)
           at(j) == IF j <= k THEN j ELSE j - 1
           from(j) == IF j <= k THEN j ELSE j + 1
<1>1. q \in Seq(Seq(S) \ {<< >>}) /\ N \in Nat
  BY DEF WellFormed, Lists
<1> DEFINE X == Seq(S) \ {<< >>}
<1>00. q \in Seq(X) /\ Lists(S) = Seq(X) /\ <<f>> \in X
  BY <1>1 DEF Lists
<1> HIDE DEF X
<1>01. /\ r \in Seq(X)
       /\ Len(r) = N + 1
       /\ \A j \in 1 .. N + 1 : r[j] =
            IF j <= k THEN q[j] ELSE IF j = k + 1 THEN <<f>> ELSE q[j - 1]
  BY <1>00, InsertSeq
<1> HIDE DEF r
<1>2. r \in Lists(S) /\ Len(r) = N + 1
  BY <1>00, <1>01
<1>3. \A j \in 1 .. N + 1 : j # k + 1 => at(j) \in 1 .. N /\ r[j] = q[at(j)]
  BY <1>1, <1>01
<1>4. r[k + 1] = <<f>>
  BY <1>1, <1>01
<1>5. \A j \in 1 .. N : from(j) \in 1 .. N + 1 /\ from(j) # k + 1 /\ at(from(j)) = j
  BY <1>1
<1>6. \A i, j \in 1 .. N + 1 : i # k + 1 /\ j # k + 1 /\ at(i) = at(j) => i = j
  BY <1>1
<1>0. hdr_seq(f) \in Int
  BY HdrSeqRange
<1>10. /\ k + 1 \in 1 .. N + 1
       /\ 1 \in 1 .. Len(r[k + 1])
       /\ \A i \in 1 .. Len(r[k + 1]) : i = 1 /\ r[k + 1][i] = f
  BY <1>1, <1>4
<1> HIDE DEF r, at, from, N
<1>11. \A j \in 1 .. N + 1 : j # k + 1 => \A i \in 1 .. Len(r[j]) : r[j][i] # f
  BY <1>3 DEF On, N
<1>7. Distinct(r)
  <2> SUFFICES ASSUME NEW x \in 1 .. N + 1, NEW y \in 1 .. N + 1,
                      NEW i \in 1 .. Len(r[x]), NEW j \in 1 .. Len(r[y]),
                      r[x][i] = r[y][j]
               PROVE  x = y /\ i = j
    BY <1>2 DEF Distinct
  <2>1. CASE x = k + 1 \/ y = k + 1
    BY <2>1, <1>10, <1>11
  <2>2. CASE x # k + 1 /\ y # k + 1
    <3> DEFINE ax == at(x)
               ay == at(y)
    <3>1. ax \in 1 .. N /\ ay \in 1 .. N /\ r[x] = q[ax] /\ r[y] = q[ay]
      BY <2>2, <1>3
    <3> HIDE DEF ax, ay
    <3>4. /\ i \in 1 .. Len(q[ax]) /\ j \in 1 .. Len(q[ay])
          /\ q[ax][i] = q[ay][j]
      BY <3>1
    <3>5. Distinct(q)
      BY DEF WellFormed
    <3>6. \A u \in 1 .. Len(q[ax]), v \in 1 .. Len(q[ay]) :
            q[ax][u] = q[ay][v] => ax = ay /\ u = v
      BY ZenonT(60), <3>1, <3>5 DEF Distinct, N
    <3>2. ax = ay /\ i = j
      BY Zenon, <3>4, <3>6
    <3>3. x = y
      BY <2>2, <3>2, <1>6 DEF ax, ay
    <3> QED BY <3>2, <3>3
  <2> QED BY <2>1, <2>2
<1>8. Contiguous(r)
  <2> SUFFICES ASSUME NEW x \in 1 .. N + 1, NEW i \in 1 .. Len(r[x])
               PROVE  hdr_seq(r[x][i]) = hdr_seq(r[x][1]) + i - 1
    BY <1>2 DEF Contiguous
  <2>1. CASE x = k + 1
    BY <2>1, <1>0, <1>10
  <2>2. CASE x # k + 1
    BY <2>2, <1>3 DEF WellFormed, Contiguous, N
  <2> QED BY <2>1, <2>2
<1>9. \A x : On(r, x) <=> On(q, x) \/ x = f
  <2> SUFFICES ASSUME NEW x PROVE On(r, x) <=> On(q, x) \/ x = f
    OBVIOUS
  <2>1. ASSUME On(r, x) PROVE On(q, x) \/ x = f
    <3>1. PICK j \in 1 .. N + 1 : \E i \in 1 .. Len(r[j]) : x = r[j][i]
      BY <2>1, <1>2 DEF On
    <3>2. CASE j = k + 1
      BY Zenon, <3>1, <3>2, <1>10
    <3>3. CASE j # k + 1
      BY Zenon, <3>1, <3>3, <1>3 DEF On, N
    <3> QED BY <3>2, <3>3
  <2>2. ASSUME On(q, x) PROVE On(r, x)
    BY <2>2, <1>2, <1>3, <1>5 DEF On, N
  <2>3. ASSUME x = f PROVE On(r, x)
    BY <2>3, <1>2, <1>10 DEF On
  <2> QED BY <2>1, <2>2, <2>3
<1>12. WellFormed(r, S)
  BY <1>2, <1>7, <1>8 DEF WellFormed
<1> QED BY <1>2, <1>4, <1>9, <1>12 DEF r, N

\* Range a and range b of q become range m of r, the others move: at tells
\* where they come from.
Merged(q, r, at, m, a, b) ==
  /\ a \in 1 .. Len(q) /\ b \in 1 .. Len(q) /\ a # b
  /\ m \in 1 .. Len(r)
  /\ r[m] = q[a] \o q[b]
  /\ upper(q, a) + 1 = chain_seq(q, b)
  /\ at \in [1 .. Len(r) -> 1 .. Len(q)]
  /\ \A j \in 1 .. Len(r) : j # m => r[j] = q[at[j]] /\ at[j] # a /\ at[j] # b
  /\ \A i, j \in 1 .. Len(r) : i # m /\ j # m /\ at[i] = at[j] => i = j
  /\ \A l \in 1 .. Len(q) :
        l # a /\ l # b => \E j \in 1 .. Len(r) : j # m /\ at[j] = l

\* Merging two contiguous ranges keeps a list well formed.
LEMMA MergeTwo ==
  ASSUME NEW S, Numbered(S), NEW q, WellFormed(q, S), NEW r, r \in Lists(S),
         NEW at, NEW m, NEW a, NEW b, Merged(q, r, at, m, a, b)
  PROVE  WellFormed(r, S) /\ \A x : On(r, x) <=> On(q, x)
<1>a. /\ a \in 1 .. Len(q) /\ b \in 1 .. Len(q) /\ a # b
      /\ m \in 1 .. Len(r)
      /\ r[m] = q[a] \o q[b]
  BY DEF Merged
<1>b. \A j \in 1 .. Len(r) : j # m => /\ at[j] \in 1 .. Len(q)
                                     /\ r[j] = q[at[j]]
                                     /\ at[j] # a /\ at[j] # b
  BY DEF Merged
<1>c. \A i, j \in 1 .. Len(r) : i # m /\ j # m /\ at[i] = at[j] => i = j
  BY DEF Merged
<1>d. \A l \in 1 .. Len(q) :
        l # a /\ l # b => \E j \in 1 .. Len(r) : j # m /\ at[j] = l
  BY DEF Merged
<1> DEFINE La == Len(q[a])
           Lb == Len(q[b])
           col(j, i) == IF j # m THEN at[j] ELSE IF i <= La THEN a ELSE b
           row(j, i) == IF j = m /\ i > La THEN i - La ELSE i
<1>1. /\ \A l \in 1 .. Len(q) : q[l] \in Seq(S) /\ Len(q[l]) \in Nat \ {0}
      /\ \A l \in 1 .. Len(r) : r[l] \in Seq(S) /\ Len(r[l]) \in Nat \ {0}
  <2>1. ASSUME NEW z \in Lists(S), NEW l \in 1 .. Len(z)
        PROVE  z[l] \in Seq(S) /\ Len(z[l]) \in Nat \ {0}
    <3>1. z[l] \in Seq(S) /\ z[l] # << >>
      BY <2>1 DEF Lists
    <3> QED BY <3>1, EmptySequence
  <2> QED BY <2>1 DEF WellFormed
<1>2. /\ La \in Nat /\ Lb \in Nat /\ La >= 1 /\ Lb >= 1
      /\ Len(r[m]) = La + Lb
      /\ \A i \in 1 .. La + Lb : r[m][i] = IF i <= La THEN q[a][i]
                                                     ELSE q[b][i - La]
  <2>1. q[a] \in Seq(S) /\ q[b] \in Seq(S)
    BY <1>1, <1>a
  <2>2. La \in Nat /\ Lb \in Nat /\ La >= 1 /\ Lb >= 1
    BY <1>1, <1>a
  <2> DEFINE u == q[a]
             v == q[b]
  <2> HIDE DEF u, v
  <2>3. u \in Seq(S) /\ v \in Seq(S)
    BY <2>1 DEF u, v
  <2>4. /\ Len(u \o v) = Len(u) + Len(v)
        /\ \A i \in 1 .. Len(u) + Len(v) : (u \o v)[i] =
                     IF i <= Len(u) THEN u[i] ELSE v[i - Len(u)]
    BY <2>3, Concatenation
  <2> QED BY Zenon, <2>2, <2>4, <1>a DEF u, v
<1>l. Len(q[a]) = La /\ Len(q[b]) = Lb
  OBVIOUS
<1>u. hdr_seq(q[a][La]) + 1 = hdr_seq(q[b][1])
  BY DEF Merged, upper, chain_seq
<1> HIDE DEF La, Lb
<1>3. ASSUME NEW j \in 1 .. Len(r), NEW i \in 1 .. Len(r[j])
      PROVE  /\ col(j, i) \in 1 .. Len(q)
             /\ row(j, i) \in 1 .. Len(q[col(j, i)])
             /\ r[j][i] = q[col(j, i)][row(j, i)]
  <2>1. CASE j # m
    BY <2>1, <1>b
  <2>2. CASE j = m /\ i <= La
    <3>1. i \in 1 .. La /\ i \in 1 .. La + Lb /\ ~(i > La)
      BY <2>2, <1>2
    <3> QED BY Zenon, <2>2, <3>1, <1>2, <1>a, <1>l
  <2>3. CASE j = m /\ i > La
    <3>1. i - La \in 1 .. Lb /\ i \in 1 .. La + Lb /\ ~(i <= La)
      BY <2>3, <1>2
    <3>2. r[j][i] = q[b][i - La]
      BY <2>3, <3>1, <1>2
    <3>3. col(j, i) = b /\ row(j, i) = i - La
      BY <2>3, <3>1
    <3> QED BY Zenon, <3>1, <3>2, <3>3, <1>a, <1>l
  <2>4. j # m \/ i <= La \/ i > La
    BY <1>1, <1>2
  <2> QED BY <2>1, <2>2, <2>3, <2>4
<1>4. Distinct(r)
  <2> SUFFICES ASSUME NEW x \in 1 .. Len(r), NEW y \in 1 .. Len(r),
                      NEW i \in 1 .. Len(r[x]), NEW j \in 1 .. Len(r[y]),
                      r[x][i] = r[y][j]
               PROVE  x = y /\ i = j
    BY DEF Distinct
  <2>1. i \in Int /\ j \in Int
    OBVIOUS
  <2>2. q[col(x, i)][row(x, i)] = q[col(y, j)][row(y, j)]
    BY Zenon, <1>3
  <2>3. col(x, i) = col(y, j) /\ row(x, i) = row(y, j)
    <3> DEFINE c == col(x, i)
               d == col(y, j)
               e == row(x, i)
               g == row(y, j)
    <3>1. c \in 1 .. Len(q) /\ d \in 1 .. Len(q) /\ e \in 1 .. Len(q[c]) /\ g \in 1 .. Len(q[d])
      BY <1>3
    <3>2. q[c][e] = q[d][g]
      BY <2>2
    <3> HIDE DEF c, d, e, g, col, row
    <3>4. Distinct(q)
      BY DEF WellFormed
    <3>5. \A u \in 1 .. Len(q[c]), v \in 1 .. Len(q[d]) :
            q[c][u] = q[d][v] => c = d /\ u = v
      BY ZenonT(60), <3>1, <3>4 DEF Distinct
    <3>3. c = d /\ e = g
      BY Zenon, <3>1, <3>2, <3>5
    <3> QED BY <3>3 DEF c, d, e, g
  <2>4. CASE x # m /\ y # m
    BY <2>3, <2>4, <1>c
  <2>5. CASE x = m /\ y = m
    BY <2>1, <2>3, <2>5, <1>2, <1>a
  <2>6. CASE x = m /\ y # m
    BY <2>3, <2>6, <1>b
  <2>7. CASE x # m /\ y = m
    BY <2>3, <2>7, <1>b
  <2> QED BY <2>4, <2>5, <2>6, <2>7
<1>5. Contiguous(r)
  <2> SUFFICES ASSUME NEW x \in 1 .. Len(r), NEW i \in 1 .. Len(r[x])
               PROVE  hdr_seq(r[x][i]) = hdr_seq(r[x][1]) + i - 1
    BY DEF Contiguous
  <2>0. Contiguous(q)
    BY DEF WellFormed
  <2>1. CASE x # m
    <3>1. at[x] \in 1 .. Len(q) /\ r[x] = q[at[x]]
      BY <2>1, <1>b
    <3> QED BY <2>0, <3>1 DEF Contiguous
  <2>2. CASE x = m /\ i <= La
    <3>1. r[m][i] = q[a][i] /\ r[m][1] = q[a][1] /\ i \in 1 .. La
      BY <2>2, <1>2
    <3> QED BY <2>0, <2>2, <3>1, <1>a, <1>l DEF Contiguous
  <2>3. CASE x = m /\ i > La
    <3>0. /\ i \in 1 .. La + Lb /\ ~(i <= La) /\ i - La \in 1 .. Lb
          /\ La \in 1 .. La /\ 1 \in 1 .. La + Lb /\ 1 <= La
      BY <2>3, <1>2
    <3>1. /\ r[m][i] = q[b][i - La] /\ r[m][1] = q[a][1]
          /\ i - La \in 1 .. Lb /\ La \in 1 .. La
      BY Zenon, <3>0, <1>2
    <3>2. hdr_seq(q[b][i - La]) = hdr_seq(q[b][1]) + (i - La) - 1
      BY Zenon, <2>0, <3>1, <1>a, <1>l DEF Contiguous
    <3>3. hdr_seq(q[a][La]) = hdr_seq(q[a][1]) + La - 1
      BY Zenon, <2>0, <3>1, <1>a, <1>l DEF Contiguous
    <3>4. hdr_seq(q[a][La]) + 1 = hdr_seq(q[b][1])
      BY <1>u
    <3>5. q[a][1] \in S
      BY <1>1, <1>a
    <3>6. hdr_seq(q[a][1]) \in Int
      BY <3>5, HdrSeqRange
    <3> QED BY <2>3, <1>2, <3>1, <3>2, <3>3, <3>4, <3>6
  <2>4. x # m \/ i <= La \/ i > La
    BY <1>1, <1>2
  <2> QED BY <2>1, <2>2, <2>3, <2>4
<1>6. ASSUME NEW x, On(r, x) PROVE On(q, x)
  <2>0. PICK j \in 1 .. Len(r) : \E i \in 1 .. Len(r[j]) : x = r[j][i]
    BY <1>6 DEF On
  <2>1. PICK i \in 1 .. Len(r[j]) : x = r[j][i]
    BY <2>0
  <2> DEFINE c == col(j, i)
             e == row(j, i)
  <2>2. c \in 1 .. Len(q) /\ e \in 1 .. Len(q[c]) /\ x = q[c][e]
    BY <2>1, <1>3
  <2> HIDE DEF c, e
  <2> QED BY <2>2 DEF On
<1>7. ASSUME NEW x, On(q, x) PROVE On(r, x)
  <2>0. PICK l \in 1 .. Len(q) : \E i \in 1 .. Len(q[l]) : x = q[l][i]
    BY <1>7 DEF On
  <2>1. PICK i \in 1 .. Len(q[l]) : x = q[l][i]
    BY <2>0
  <2>2. CASE l # a /\ l # b
    <3>1. PICK j \in 1 .. Len(r) : j # m /\ at[j] = l
      BY <2>2, <1>d
    <3>2. i \in 1 .. Len(r[j]) /\ x = r[j][i]
      BY <2>1, <3>1, <1>b
    <3> QED BY <3>2 DEF On
  <2>3. CASE l = a
    <3>1. i \in 1 .. Len(r[m]) /\ r[m][i] = x
      BY <2>1, <2>3, <1>2, <1>l
    <3> QED BY Zenon, <3>1, <1>a DEF On
  <2>4. CASE l = b
    <3>1. La + i \in 1 .. La + Lb /\ ~(La + i <= La) /\ (La + i) - La = i
      BY <2>1, <2>4, <1>2, <1>l
    <3>2. La + i \in 1 .. Len(r[m]) /\ r[m][La + i] = x
      BY <2>1, <2>4, <3>1, <1>2
    <3> QED BY Zenon, <3>2, <1>a DEF On
  <2> QED BY <2>2, <2>3, <2>4
<1> QED BY <1>4, <1>5, <1>6, <1>7 DEF WellFormed

\* The positions of the ranges after a merge.
LEMMA MergeSeqLast ==
  ASSUME NEW X, NEW q \in Seq(X), Len(q) >= 2, NEW z \in X
  PROVE  LET r == <<z>> \o SubSeq(q, 2, Len(q) - 1)
         IN  /\ r \in Seq(X)
             /\ Len(r) = Len(q) - 1
             /\ \A j \in 1 .. Len(q) - 1 : r[j] = IF j = 1 THEN z ELSE q[j]
<1> DEFINE v == SubSeq(q, 2, Len(q) - 1)
<1>0. Len(q) \in Nat /\ 2 <= Len(q)
  OBVIOUS
<1>1. /\ v \in Seq(X) /\ Len(v) = Len(q) - 2
      /\ \A j \in 1 .. Len(q) - 2 : v[j] = q[j + 1]
  <2>1. 2 \in 1 .. Len(q) /\ Len(q) - 1 \in 2 - 1 .. Len(q)
    BY <1>0
  <2>2. /\ v \in Seq(X)
        /\ Len(v) = (Len(q) - 1) - 2 + 1
        /\ \A j \in 1 .. (Len(q) - 1) - 2 + 1 : v[j] = q[2 + j - 1]
    BY Zenon, <2>1, Extract
  <2> HIDE DEF v
  <2> QED BY <1>0, <2>2
<1> HIDE DEF v
<1>2. /\ <<z>> \o v \in Seq(X)
      /\ Len(<<z>> \o v) = Len(q) - 1
      /\ \A j \in 1 .. Len(q) - 1 : (<<z>> \o v)[j] = IF j = 1 THEN z ELSE v[j - 1]
  BY <1>0, <1>1
<1>3. ASSUME NEW j \in 1 .. Len(q) - 1
      PROVE  (<<z>> \o v)[j] = IF j = 1 THEN z ELSE q[j]
  BY <1>0, <1>1, <1>2
<1> QED BY <1>2, <1>3 DEF v

Spliced(q, k, z) ==
  SubSeq(q, 1, k - 1) \o <<z>> \o SubSeq(q, k + 2, Len(q))

\* Two neighbours replaced by one range: the ranges before keep their places,
\* the ones after move down by one.
LEMMA MergeSeqInner ==
  ASSUME NEW X, NEW q \in Seq(X), NEW k \in 1 .. Len(q) - 1, NEW z \in X
  PROVE  LET r == Spliced(q, k, z)
         IN  /\ r \in Seq(X)
             /\ Len(r) = Len(q) - 1
             /\ \A j \in 1 .. Len(q) - 1 : r[j] =
                   IF j < k THEN q[j] ELSE IF j = k THEN z ELSE q[j + 1]
<1> DEFINE u == SubSeq(q, 1, k - 1) \o <<z>>
           v == SubSeq(q, k + 2, Len(q))
<1>0. Len(q) \in Nat /\ k \in Nat /\ 1 <= k /\ k <= Len(q) - 1
  OBVIOUS
<1>1. /\ SubSeq(q, 1, k - 1) \in Seq(X) /\ Len(SubSeq(q, 1, k - 1)) = k - 1
      /\ \A j \in 1 .. k - 1 : SubSeq(q, 1, k - 1)[j] = q[j]
  BY <1>0
<1>2. /\ u \in Seq(X) /\ Len(u) = k
      /\ \A j \in 1 .. k : u[j] = IF j = k THEN z ELSE q[j]
  BY <1>0, <1>1
<1>3. /\ v \in Seq(X) /\ Len(v) = Len(q) - k - 1
      /\ \A j \in 1 .. Len(q) - k - 1 : v[j] = q[k + 1 + j]
  BY <1>0
<1> HIDE DEF u, v
<1>4. /\ u \o v \in Seq(X)
      /\ Len(u \o v) = Len(u) + Len(v)
      /\ \A j \in 1 .. Len(u) + Len(v) : (u \o v)[j] =
              IF j <= Len(u) THEN u[j] ELSE v[j - Len(u)]
  BY Zenon, <1>2, <1>3, Concatenation
<1>5. Len(u) = k /\ Len(u) + Len(v) = Len(q) - 1
  BY <1>0, <1>2, <1>3
<1>6. ASSUME NEW j \in 1 .. Len(q) - 1
      PROVE  (u \o v)[j] = IF j < k THEN q[j] ELSE IF j = k THEN z ELSE q[j + 1]
  <2>1. CASE j <= k
    BY <2>1, <1>0, <1>2, <1>4, <1>5
  <2>2. CASE j > k
    <3>1. j - k \in 1 .. Len(q) - k - 1 /\ k + 1 + (j - k) = j + 1
      BY <2>2, <1>0
    <3>2. (u \o v)[j] = v[j - k]
      BY <2>2, <1>0, <1>4, <1>5
    <3>3. v[j - k] = q[j + 1]
      BY <3>1, <1>3
    <3> QED BY <2>2, <1>0, <3>2, <3>3
  <2>3. j <= k \/ j > k
    BY <1>0
  <2> QED BY Zenon, <2>1, <2>2, <2>3
<1>7. Spliced(q, k, z) = u \o v
  BY DEF Spliced, u, v
<1> QED BY <1>4, <1>5, <1>6, <1>7

\* merge_ranges keeps a list well formed and its fragments.
LEMMA MergeRanges ==
  ASSUME NEW S, Numbered(S), NEW q, WellFormed(q, S), NEW k \in 1 .. Len(q)
  PROVE  /\ WellFormed(merge_ranges(q, k), S)
         /\ \A x : On(merge_ranges(q, k), x) <=> On(q, x)
<1> DEFINE next == opal_list_next(q, k)
           r == merge_ranges(q, k)
           z == q[k] \o q[next]
           X == Seq(S) \ {<< >>}
<1>0. q \in Seq(X) /\ Lists(S) = Seq(X) /\ Len(q) \in Nat /\ k \in Nat /\ 1 <= k /\ k <= Len(q)
  BY DEF WellFormed, Lists
<1>1. CASE upper(q, k) + 1 # chain_seq(q, next)
  BY <1>1 DEF merge_ranges
<1>2. CASE upper(q, k) + 1 = chain_seq(q, next)
  <2>0. next \in 1 .. Len(q)
    BY <1>0 DEF opal_list_next
  <2>1. next # k
    <3> SUFFICES ASSUME next = k PROVE FALSE
      OBVIOUS
    <3>1. q[k] \in Seq(S) /\ q[k] # << >>
      BY <1>0
    <3>2. Len(q[k]) \in Nat /\ Len(q[k]) >= 1 /\ q[k][1] \in S
      BY <3>1, EmptySequence
    <3>3. hdr_seq(q[k][Len(q[k])]) = hdr_seq(q[k][1]) + Len(q[k]) - 1
      BY <3>2 DEF WellFormed, Contiguous
    <3>4. hdr_seq(q[k][1]) \in Int
      BY <3>2, HdrSeqRange
    <3> QED BY <1>2, <3>2, <3>3, <3>4 DEF upper, chain_seq
  <2>2. z \in X
    <3> DEFINE u == q[k]
               v == q[next]
    <3>1. u \in Seq(S) /\ u # << >> /\ v \in Seq(S)
      BY <1>0, <2>0
    <3> HIDE DEF u, v
    <3>2. u \o v \in Seq(S) /\ Len(u \o v) = Len(u) + Len(v)
      BY <3>1, Concatenation
    <3>3. Len(u) # 0 /\ Len(u) \in Nat /\ Len(v) \in Nat
      BY <3>1, EmptySequence
    <3>4. u \o v # << >>
      BY <3>2, <3>3, EmptySequence
    <3> QED BY <3>2, <3>4 DEF u, v
  <2>3. CASE next = 1
    <3>1. k = Len(q) /\ Len(q) >= 2
      BY <2>1, <2>3, <1>0 DEF opal_list_next
    <3>2. r = <<z>> \o SubSeq(q, 2, Len(q) - 1)
      BY <1>2, <2>3, <3>1 DEF merge_ranges
    <3> DEFINE at == [j \in 1 .. Len(q) - 1 |-> j]
    <3> HIDE DEF X, z
    <3>3. /\ r \in Seq(X)
          /\ Len(r) = Len(q) - 1
          /\ \A j \in 1 .. Len(q) - 1 : r[j] = IF j = 1 THEN z ELSE q[j]
      BY <1>0, <2>2, <3>1, <3>2, MergeSeqLast
    <3> HIDE DEF r, next
    <3>4. Merged(q, r, at, 1, k, 1)
      <4>1. r[1] = q[k] \o q[1]
        <5>1. r[1] = z
          BY <1>0, <3>1, <3>3
        <5> QED BY <5>1, <2>3 DEF z
      <4>2. upper(q, k) + 1 = chain_seq(q, 1)
        BY <1>2, <2>3
      <4>3. /\ at \in [1 .. Len(r) -> 1 .. Len(q)]
            /\ \A j \in 1 .. Len(r) : j # 1 => r[j] = q[at[j]] /\ at[j] # k /\ at[j] # 1
        BY <1>0, <3>1, <3>3
      <4>4. /\ \A i, j \in 1 .. Len(r) : i # 1 /\ j # 1 /\ at[i] = at[j] => i = j
            /\ \A l \in 1 .. Len(q) :
                 l # k /\ l # 1 => \E j \in 1 .. Len(r) : j # 1 /\ at[j] = l
        BY <1>0, <3>1, <3>3
      <4> QED BY <1>0, <3>1, <3>3, <4>1, <4>2, <4>3, <4>4 DEF Merged
    <3> QED BY <1>0, <3>3, <3>4, MergeTwo DEF r
  <2>4. CASE next # 1
    <3>1. k \in 1 .. Len(q) - 1 /\ next = k + 1 /\ k < Len(q)
      BY <2>4, <1>0 DEF opal_list_next
    <3>2. r = SubSeq(q, 1, k - 1) \o <<z>> \o SubSeq(q, k + 2, Len(q))
      <4>1. r = SubSeq(q, 1, k - 1) \o <<z>> \o SubSeq(q, next + 1, Len(q))
        BY Zenon, <1>2, <2>4 DEF merge_ranges
      <4>2. next + 1 = k + 2
        BY <1>0, <3>1
      <4> HIDE DEF r, z, next
      <4> QED BY Zenon, <4>1, <4>2
    <3> DEFINE at == [j \in 1 .. Len(q) - 1 |-> IF j < k THEN j ELSE j + 1]
    <3> HIDE DEF X, z
    <3>3. /\ r \in Seq(X)
          /\ Len(r) = Len(q) - 1
          /\ \A j \in 1 .. Len(q) - 1 : r[j] =
               IF j < k THEN q[j] ELSE IF j = k THEN z ELSE q[j + 1]
      <4>1. q \in Seq(X) /\ z \in X /\ k \in 1 .. Len(q) - 1
        BY <1>0, <2>2, <3>1
      <4> HIDE DEF r, at, next
      <4> DEFINE w == Spliced(q, k, z)
      <4>2. /\ w \in Seq(X)
            /\ Len(w) = Len(q) - 1
            /\ \A j \in 1 .. Len(q) - 1 : w[j] =
                 IF j < k THEN q[j] ELSE IF j = k THEN z ELSE q[j + 1]
        BY <4>1, MergeSeqInner
      <4> HIDE DEF w
      <4>3. r = w
        BY <3>2 DEF w, Spliced
      <4> QED BY <4>2, <4>3
    <3> HIDE DEF r, next
    <3>4. Merged(q, r, at, k, k, k + 1)
      <4>1. r[k] = q[k] \o q[k + 1]
        <5>1. r[k] = z
          BY <1>0, <3>1, <3>3
        <5> QED BY <5>1, <3>1 DEF z
      <4>2. upper(q, k) + 1 = chain_seq(q, k + 1)
        BY <1>2, <3>1
      <4>3. at \in [1 .. Len(r) -> 1 .. Len(q)]
        BY <1>0, <3>1, <3>3
      <4>4. ASSUME NEW j \in 1 .. Len(r), j # k
            PROVE r[j] = q[at[j]] /\ at[j] # k /\ at[j] # k + 1
        BY <1>0, <3>1, <3>3, <4>4
      <4>5. \A i, j \in 1 .. Len(r) : i # k /\ j # k /\ at[i] = at[j] => i = j
        BY <1>0, <3>1, <3>3
      <4>6. ASSUME NEW l \in 1 .. Len(q), l # k, l # k + 1
            PROVE  \E j \in 1 .. Len(r) : j # k /\ at[j] = l
        <5>1. CASE l < k
          <6>1. l \in 1 .. Len(r) /\ at[l] = l
            BY <5>1, <1>0, <3>1, <3>3
          <6> QED BY <6>1, <4>6
        <5>2. CASE l > k + 1
          <6>1. l - 1 \in 1 .. Len(r) /\ l - 1 # k /\ at[l - 1] = l
            BY <5>2, <1>0, <3>1, <3>3
          <6> QED BY Zenon, <6>1
        <5>3. l < k \/ l > k + 1
          BY <4>6, <1>0
        <5> QED BY Zenon, <5>1, <5>2, <5>3
      <4>7. k \in 1 .. Len(q) /\ k + 1 \in 1 .. Len(q) /\ k # k + 1 /\ k \in 1 .. Len(r)
        BY <1>0, <3>1, <3>3
      <4> HIDE DEF at
      <4> QED BY <4>1, <4>2, <4>3, <4>4, <4>5, <4>6, <4>7 DEF Merged
    <3> QED BY <1>0, <3>3, <3>4, MergeTwo DEF r
  <2> QED BY <2>3, <2>4
<1> QED BY <1>1, <1>2

\* A range is not empty.
LEMMA RangeType ==
  ASSUME NEW S, NEW q, q \in Lists(S), NEW k \in 1 .. Len(q)
  PROVE  /\ q[k] \in Seq(S) /\ Len(q[k]) \in Nat /\ 1 <= Len(q[k])
         /\ \A i \in 1 .. Len(q[k]) : q[k][i] \in S
         /\ q[k][1] \in S
<1>1. q[k] \in Seq(S) /\ q[k] # << >>
  BY DEF Lists
<1>2. Len(q[k]) \in Nat /\ Len(q[k]) # 0
  BY <1>1, EmptySequence
<1>3. \A i \in 1 .. Len(q[k]) : q[k][i] \in S
  BY <1>1
<1>4. 1 <= Len(q[k]) /\ 1 \in 1 .. Len(q[k])
  BY <1>2
<1> QED BY <1>1, <1>2, <1>3, <1>4

\* A fragment that continues a range is added to it and nothing else changes.
LEMMA ExtendRange ==
  ASSUME NEW S, Numbered(S), NEW q, WellFormed(q, S), NEW k \in 1 .. Len(q),
         NEW f \in S, ~On(q, f), upper(q, k) + 1 = hdr_seq(f)
  PROVE  LET r == [q EXCEPT ![k] = Append(@, f)]
         IN  /\ WellFormed(r, S)
             /\ Len(r) = Len(q)
             /\ \A x : On(r, x) <=> On(q, x) \/ x = f
<1> DEFINE r == [q EXCEPT ![k] = Append(@, f)]
           L == Len(q[k])
           X == Seq(S) \ {<< >>}
<1>1. q \in Lists(S) /\ q \in Seq(X) /\ Lists(S) = Seq(X)
  BY DEF WellFormed, Lists
<1>2. /\ q[k] \in Seq(S) /\ L \in Nat /\ 1 <= L
      /\ \A i \in 1 .. L : q[k][i] \in S
      /\ q[k][1] \in S
  BY <1>1, RangeType
<1>3. Append(q[k], f) \in X
  BY <1>2
<1>4. r \in Seq(X) /\ Len(r) = Len(q)
  <2> HIDE DEF X
  <2> QED BY <1>1, <1>3
<1>5. \A j \in 1 .. Len(q) : j # k => r[j] = q[j]
  BY <1>1
<1>6. r[k] = Append(q[k], f)
  BY <1>1
<1>7. /\ Len(r[k]) = L + 1
      /\ \A i \in 1 .. L + 1 : r[k][i] = IF i <= L THEN q[k][i] ELSE f
  BY <1>2, <1>6
<1>8. L \in 1 .. L /\ L + 1 \in 1 .. L + 1 /\ ~(L + 1 <= L) /\ Len(q[k]) = L /\ 1 \in 1 .. L + 1
  BY <1>2
<1>9. hdr_seq(q[k][L]) + 1 = hdr_seq(f)
  BY DEF upper
<1> HIDE DEF r, L, X
<1>10. Distinct(r)
  <2> SUFFICES ASSUME NEW x \in 1 .. Len(r), NEW y \in 1 .. Len(r),
                      NEW i \in 1 .. Len(r[x]), NEW j \in 1 .. Len(r[y]),
                      r[x][i] = r[y][j]
               PROVE  x = y /\ i = j
    BY DEF Distinct
  <2>1. ASSUME NEW l \in 1 .. Len(r), NEW e \in 1 .. Len(r[l])
        PROVE  \/ l = k /\ e = L + 1 /\ r[l][e] = f
               \/ e \in 1 .. Len(q[l]) /\ r[l][e] = q[l][e] /\ r[l][e] # f
    <3>1. CASE l # k
      BY <3>1, <1>4, <1>5 DEF On
    <3>2. CASE l = k /\ e <= L
      <4>1. e \in 1 .. Len(q[k]) /\ r[k][e] = q[k][e]
        BY <3>2, <1>2, <1>7, <1>8
      <4> QED BY <3>2, <4>1 DEF On
    <3>3. CASE l = k /\ e > L
      BY <3>3, <1>2, <1>7
    <3>4. e <= L \/ e > L
      BY <1>2
    <3> QED BY <3>1, <3>2, <3>3, <3>4
  <2>2. CASE r[x][i] = f
    <3>1. x = k /\ i = L + 1
      BY <2>1, <2>2
    <3>2. r[y][j] = f
      BY <2>2
    <3>3. y = k /\ j = L + 1
      BY <2>1, <3>2
    <3> QED BY <3>1, <3>3
  <2>3. CASE r[x][i] # f
    <3>1. i \in 1 .. Len(q[x]) /\ j \in 1 .. Len(q[y]) /\ q[x][i] = q[y][j]
      BY <2>1, <2>3
    <3>2. Distinct(q) /\ x \in 1 .. Len(q) /\ y \in 1 .. Len(q)
      BY <1>4 DEF WellFormed
    <3> QED BY <3>1, <3>2 DEF Distinct
  <2> QED BY <2>2, <2>3
<1>11. Contiguous(r)
  <2> SUFFICES ASSUME NEW x \in 1 .. Len(r), NEW i \in 1 .. Len(r[x])
               PROVE  hdr_seq(r[x][i]) = hdr_seq(r[x][1]) + i - 1
    BY DEF Contiguous
  <2>0. Contiguous(q) /\ x \in 1 .. Len(q)
    BY <1>4 DEF WellFormed
  <2>1. CASE x # k
    BY Zenon, <2>0, <2>1, <1>5 DEF Contiguous
  <2>2. CASE x = k /\ i <= L
    <3>1. i \in 1 .. Len(q[k]) /\ r[k][i] = q[k][i] /\ r[k][1] = q[k][1]
      BY <2>2, <1>2, <1>7, <1>8
    <3> QED BY Zenon, <2>0, <2>2, <3>1 DEF Contiguous
  <2>3. CASE x = k /\ i > L
    <3>1. i = L + 1 /\ r[k][i] = f /\ r[k][1] = q[k][1]
      BY <2>3, <1>2, <1>7, <1>8
    <3>2. hdr_seq(q[k][L]) = hdr_seq(q[k][1]) + L - 1
      BY <2>0, <1>8 DEF Contiguous
    <3>3. hdr_seq(q[k][1]) \in Int
      BY <1>2, HdrSeqRange
    <3> QED BY <2>3, <3>1, <3>2, <3>3, <1>2, <1>9
  <2>4. i <= L \/ i > L
    BY <1>2
  <2> QED BY <2>1, <2>2, <2>3, <2>4
<1>12. ASSUME NEW x, On(r, x) PROVE On(q, x) \/ x = f
  <2>1. PICK j \in 1 .. Len(r) : \E i \in 1 .. Len(r[j]) : x = r[j][i]
    BY <1>12 DEF On
  <2>2. PICK i \in 1 .. Len(r[j]) : x = r[j][i]
    BY <2>1
  <2>3. CASE j # k
    BY <2>2, <2>3, <1>4, <1>5 DEF On
  <2>4. CASE j = k
    BY <2>2, <2>4, <1>2, <1>7, <1>8 DEF On
  <2> QED BY <2>3, <2>4
<1>13. ASSUME NEW x, On(q, x) PROVE On(r, x)
  <2>1. PICK j \in 1 .. Len(q) : \E i \in 1 .. Len(q[j]) : x = q[j][i]
    BY <1>13 DEF On
  <2>2. PICK i \in 1 .. Len(q[j]) : x = q[j][i]
    BY <2>1
  <2>3. CASE j # k
    BY <2>2, <2>3, <1>4, <1>5 DEF On
  <2>4. CASE j = k
    <3>1. i \in 1 .. Len(r[k]) /\ r[k][i] = x
      BY <2>2, <2>4, <1>2, <1>7, <1>8
    <3> QED BY <2>4, <3>1, <1>4 DEF On
  <2> QED BY <2>3, <2>4
<1>14. On(r, f)
  <2>1. L + 1 \in 1 .. Len(r[k]) /\ r[k][L + 1] = f
    BY <1>7, <1>8
  <2> QED BY <2>1, <1>4 DEF On
<1>15. WellFormed(r, S)
  BY <1>1, <1>4, <1>10, <1>11 DEF WellFormed
<1>16. \A x : On(r, x) <=> On(q, x) \/ x = f
  BY <1>12, <1>13, <1>14
<1> QED BY Zenon, <1>4, <1>15, <1>16 DEF r

\* Both searches stop at a range of the list.
LEMMA PriorInList ==
  ASSUME Least, NEW S, Numbered(S), NEW q, WellFormed(q, S), q # << >>, NEW s \in Int
  PROVE  prior(q, s) \in 1 .. Len(q)
<1>0. q \in Lists(S) /\ Len(q) \in Nat /\ Len(q) >= 1 /\ 1 \in 1 .. Len(q)
  BY EmptySequence DEF WellFormed, Lists
<1>1. \A k \in 1 .. Len(q) : chain_seq(q, k) \in 0 .. SeqMod - 1
  BY <1>0, RangeType, HdrSeqRange DEF chain_seq
<1>2. \A k \in 1 .. Len(q) : opal_list_next(q, k) \in 1 .. Len(q)
  BY <1>0 DEF opal_list_next
<1>3. prior_backward(q, s) \in 1 .. Len(q)
  <2> DEFINE d(k) == (chain_seq(q, k) - s) % SeqMod
             stop(k) == \/ s >= chain_seq(q, k)
                        \/ d(opal_list_next(q, k)) <= d(k)
                        \/ k = 1
             T == { Len(q) - k : k \in { j \in 1 .. Len(q) : stop(j) } }
  <2>0. stop(1)
    OBVIOUS
  <2> HIDE DEF stop, d
  <2>1. T \subseteq Nat /\ T # {}
    BY <2>0, <1>0
  <2>2. PICK m \in T : \A y \in T : m <= y
    BY Zenon, <2>1, MinExists
  <2>3. PICK k \in 1 .. Len(q) : stop(k) /\ m = Len(q) - k
    BY <2>2
  <2>4. ASSUME NEW j \in 1 .. Len(q), stop(j) PROVE j <= k
    <3>1. Len(q) - j \in T
      BY <2>4
    <3>2. Len(q) - k <= Len(q) - j
      BY Zenon, <2>2, <2>3, <3>1
    <3> QED BY <3>2, <1>0
  <2>5. \E i \in 1 .. Len(q) : stop(i) /\ \A j \in 1 .. Len(q) : stop(j) => j <= i
    BY <2>3, <2>4
  <2> QED BY Zenon, <2>5 DEF prior_backward, stop, d
<1>4. prior_forward(q, s) \in 1 .. Len(q)
  <2> DEFINE stop(k) == \/ s <= chain_seq(q, k)
                        \/ s <= chain_seq(q, opal_list_next(q, k))
                        \/ chain_seq(q, k) >= chain_seq(q, opal_list_next(q, k))
             U == { SeqMod - chain_seq(q, k) : k \in 1 .. Len(q) }
             T == { k \in 1 .. Len(q) : stop(k) }
  <2>1. U \subseteq Nat /\ U # {}
    BY <1>0, <1>1, SeqModAssumption
  <2>2. PICK u \in U : \A y \in U : u <= y
    BY Zenon, <2>1, MinExists
  <2>3. PICK k \in 1 .. Len(q) : u = SeqMod - chain_seq(q, k)
    BY <2>2
  <2>4. SeqMod - chain_seq(q, opal_list_next(q, k)) \in U
    BY <1>2
  <2>5. SeqMod - chain_seq(q, k) <= SeqMod - chain_seq(q, opal_list_next(q, k))
    BY <2>2, <2>3, <2>4
  <2>6. chain_seq(q, k) >= chain_seq(q, opal_list_next(q, k))
    <3>1. PICK x \in 0 .. SeqMod - 1 : x = chain_seq(q, k)
      BY Zenon, <1>1
    <3>2. PICK y \in 0 .. SeqMod - 1 : y = chain_seq(q, opal_list_next(q, k))
      BY Zenon, <1>1, <1>2
    <3>3. SeqMod - x <= SeqMod - y
      BY Zenon, <2>5, <3>1, <3>2
    <3>4. x >= y
      BY <3>3, SeqModAssumption
    <3> QED BY Zenon, <3>1, <3>2, <3>4
  <2>7. T \subseteq Nat /\ T # {}
    BY <2>6, <1>0
  <2>8. PICK m \in T : \A y \in T : m <= y
    BY Zenon, <2>7, MinExists
  <2> HIDE DEF stop, U
  <2>9. \E i \in 1 .. Len(q) : stop(i) /\ \A j \in 1 .. Len(q) : stop(j) => i <= j
    BY <2>8
  <2> QED BY Zenon, <2>9 DEF prior_forward, stop
<1> QED BY <1>3, <1>4 DEF prior

\* append_frag_to_ordered_list adds f to the list, once, and loses nothing:
\* whichever of its paths (own range, end of a range, merge, new head) it
\* takes.
LEMMA AppendTo ==
  ASSUME Least, NEW S, Numbered(S), NEW q, WellFormed(q, S),
         NEW f \in S, ~On(q, f), NEW seq
  PROVE  LET r == append_frag_to_ordered_list(q, f, seq)
         IN  /\ WellFormed(r, S)
             /\ \A x : On(r, x) <=> On(q, x) \/ x = f
<1> DEFINE s == hdr_seq(f)
           k == prior(q, s)
           r == append_frag_to_ordered_list(q, f, seq)
<1>0. s \in Int
  BY HdrSeqRange
<1>1. CASE q = << >>
  <2>1. r = << <<f>> >>
    BY <1>1 DEF append_frag_to_ordered_list
  <2> HIDE DEF r
  <2>2. /\ r \in Lists(S) /\ Len(r) = 1 /\ Len(q) = 0
        /\ \A i \in 1 .. Len(r) : i = 1 /\ r[i] = <<f>>
    BY <2>1, <1>1 DEF Lists
  <2>3. \A i \in 1 .. Len(r) : Len(r[i]) = 1 /\ r[i][1] = f
    <3>1. Len(<<f>>) = 1 /\ <<f>>[1] = f
      OBVIOUS
    <3> QED BY Zenon, <2>2, <3>1
  <2>4. Distinct(r)
    BY <2>2, <2>3 DEF Distinct
  <2>5. Contiguous(r)
    BY <2>2, <2>3, <1>0 DEF Contiguous
  <2>6. \A x : ~On(q, x)
    BY <2>2 DEF On
  <2>7. \A x : On(r, x) <=> x = f
    BY <2>2, <2>3 DEF On
  <2> QED BY <2>2, <2>4, <2>5, <2>6, <2>7 DEF WellFormed, r
<1>2. CASE q # << >>
  <2>0. k \in 1 .. Len(q) /\ Len(q) \in Nat
    BY <1>0, <1>2, PriorInList DEF WellFormed, Lists
  <2> HIDE DEF k
  <2>1. CASE upper(q, k) + 1 = s
    <3> DEFINE e == [q EXCEPT ![k] = Append(@, f)]
    <3>1. r = merge_ranges(e, k)
      BY <1>2, <2>1 DEF append_frag_to_ordered_list, k
    <3>2. /\ WellFormed(e, S)
          /\ Len(e) = Len(q)
          /\ \A x : On(e, x) <=> On(q, x) \/ x = f
      BY Zenon, <2>0, <2>1, ExtendRange
    <3> HIDE DEF e, r
    <3>3. WellFormed(r, S) /\ \A x : On(r, x) <=> On(e, x)
      BY <2>0, <3>1, <3>2, MergeRanges
    <3> QED BY <3>2, <3>3 DEF r
  <2>2. CASE upper(q, k) + 1 # s
    <3> DEFINE e == insert_after(q, k, f)
               h == set_head(e, k + 1)
    <3>1. /\ WellFormed(e, S)
          /\ Len(e) = Len(q) + 1
          /\ \A x : On(e, x) <=> On(q, x) \/ x = f
      BY <2>0, InsertAfter
    <3>2. k + 1 \in 1 .. Len(e) /\ 1 \in 1 .. Len(e)
      BY <2>0, <3>1
    <3>3. /\ WellFormed(h, S)
          /\ Len(h) = Len(e)
          /\ \A x : On(h, x) <=> On(e, x)
      BY <3>1, <3>2, SetHead
    <3>4. CASE closer_than_head(q, s, seq)
      <4>1. r = merge_ranges(h, 1)
        BY <1>2, <2>2, <3>4 DEF append_frag_to_ordered_list, k
      <4> HIDE DEF e, h, r
      <4>2. WellFormed(r, S) /\ \A x : On(r, x) <=> On(h, x)
        BY <3>2, <3>3, <4>1, MergeRanges
      <4> QED BY <3>1, <3>3, <4>2 DEF r
    <3>5. CASE ~closer_than_head(q, s, seq)
      <4>1. r = merge_ranges(e, k + 1)
        BY <1>2, <2>2, <3>5 DEF append_frag_to_ordered_list, k
      <4> HIDE DEF e, h, r
      <4>2. WellFormed(r, S) /\ \A x : On(r, x) <=> On(e, x)
        BY <3>1, <3>2, <4>1, MergeRanges
      <4> QED BY <3>1, <4>2 DEF r
    <3> QED BY <3>4, <3>5
  <2> QED BY <2>1, <2>2
<1> QED BY <1>1, <1>2

\* remove_head_from_ordered_list takes the head off the list and nothing else,
\* also when the head's range has to be relinked in its place.
THEOREM RemoveHeadRemoves ==
  ASSUME NEW S, Numbered(S), NEW q, WellFormed(q, S), q # << >>
  PROVE  LET r == remove_head_from_ordered_list(q)
         IN  /\ WellFormed(r, S)
             /\ \A x : On(r, x) <=> On(q, x) /\ x # q[1][1]
             /\ On(q, q[1][1])
<1> DEFINE r == remove_head_from_ordered_list(q)
           X == Seq(S) \ {<< >>}
<1>0. q \in Lists(S) /\ Len(q) \in Nat /\ Len(q) >= 1 /\ 1 \in 1 .. Len(q)
  BY EmptySequence DEF WellFormed, Lists
<1>1. /\ q[1] \in Seq(S) /\ Len(q[1]) \in Nat /\ 1 <= Len(q[1])
      /\ q[1][1] \in S /\ 1 \in 1 .. Len(q[1])
  BY <1>0, RangeType
<1>2. Distinct(q) /\ Contiguous(q) /\ q \in Seq(X) /\ Lists(S) = Seq(X)
  BY DEF WellFormed, Lists
<1>3. On(q, q[1][1])
  BY <1>0, <1>1 DEF On
<1>4. CASE Len(q[1]) = 1
  <2>1. r = Tail(q)
    BY <1>4 DEF remove_head_from_ordered_list
  <2> HIDE DEF r, X
  <2>2. /\ r \in Lists(S) /\ Len(r) = Len(q) - 1
        /\ \A j \in 1 .. Len(r) : r[j] = q[j + 1]
    BY <2>1, <1>0, <1>2, Remainder
  <2>3. \A j \in 1 .. Len(r) : j + 1 \in 1 .. Len(q) /\ j + 1 # 1
    BY <2>2, <1>0
  <2>4. Distinct(r)
    <3> SUFFICES ASSUME NEW x \in 1 .. Len(r), NEW y \in 1 .. Len(r),
                        NEW i \in 1 .. Len(r[x]), NEW j \in 1 .. Len(r[y]),
                        r[x][i] = r[y][j]
                 PROVE  x = y /\ i = j
      BY DEF Distinct
    <3>1. x + 1 = y + 1 /\ i = j
      <4> DEFINE a == x + 1
                 b == y + 1
      <4>1. /\ a \in 1 .. Len(q) /\ b \in 1 .. Len(q)
            /\ i \in 1 .. Len(q[a]) /\ j \in 1 .. Len(q[b])
            /\ q[a][i] = q[b][j]
        BY Zenon, <2>2, <2>3
      <4> HIDE DEF a, b
      <4>2. a = b /\ i = j
        <5>1. Distinct(q)
          BY <1>2
        <5> QED BY <4>1, <5>1 DEF Distinct
      <4> QED BY <4>2 DEF a, b
    <3> QED BY <3>1, <2>2
  <2>5. Contiguous(r)
    BY Zenon, <2>2, <2>3, <1>2 DEF Contiguous
  <2>6. ASSUME NEW x, On(r, x) PROVE On(q, x) /\ x # q[1][1]
    <3>1. PICK j \in 1 .. Len(r) : \E i \in 1 .. Len(r[j]) : x = r[j][i]
      BY <2>6 DEF On
    <3>2. PICK i \in 1 .. Len(r[j]) : x = r[j][i]
      BY <3>1
    <3>3. j + 1 \in 1 .. Len(q) /\ j + 1 # 1 /\ i \in 1 .. Len(q[j + 1]) /\ x = q[j + 1][i]
      BY <3>2, <2>2, <2>3
    <3>4. On(q, x)
      BY <3>3 DEF On
    <3>5. x # q[1][1]
      BY <3>3, <1>0, <1>1, <1>2 DEF Distinct
    <3> QED BY <3>4, <3>5
  <2>7. ASSUME NEW x, On(q, x), x # q[1][1] PROVE On(r, x)
    <3>1. PICK j \in 1 .. Len(q) : \E i \in 1 .. Len(q[j]) : x = q[j][i]
      BY <2>7 DEF On
    <3>2. PICK i \in 1 .. Len(q[j]) : x = q[j][i]
      BY <3>1
    <3>3. j # 1
      BY <3>2, <2>7, <1>4
    <3>4. j - 1 \in 1 .. Len(r) /\ (j - 1) + 1 = j
      BY <3>3, <2>2, <1>0
    <3>5. r[j - 1] = q[j]
      BY <3>4, <2>2
    <3> QED BY <3>2, <3>4, <3>5 DEF On
  <2>8. WellFormed(r, S)
    BY <2>2, <2>4, <2>5 DEF WellFormed
  <2>9. \A x : On(r, x) <=> On(q, x) /\ x # q[1][1]
    BY <2>6, <2>7
  <2> QED BY <2>8, <2>9, <1>3 DEF r
<1>5. CASE Len(q[1]) # 1
  <2>1. r = [q EXCEPT ![1] = Tail(@)]
    BY <1>5 DEF remove_head_from_ordered_list
  <2>2. /\ Tail(q[1]) \in X /\ Len(Tail(q[1])) = Len(q[1]) - 1
        /\ \A i \in 1 .. Len(q[1]) - 1 : Tail(q[1])[i] = q[1][i + 1]
    <3>1. q[1] # << >>
      BY <1>1
    <3>2. /\ Tail(q[1]) \in Seq(S) /\ Len(Tail(q[1])) = Len(q[1]) - 1
          /\ \A i \in 1 .. Len(Tail(q[1])) : Tail(q[1])[i] = q[1][i + 1]
      BY <1>1, <3>1, Remainder
    <3>3. Len(q[1]) - 1 # 0
      BY <1>1, <1>5
    <3>4. Tail(q[1]) # << >>
      BY Zenon, <3>2, <3>3
    <3> QED BY <3>2, <3>4
  <2> HIDE DEF r, X
  <2>3. /\ r \in Lists(S) /\ Len(r) = Len(q)
        /\ \A j \in 1 .. Len(q) : j # 1 => r[j] = q[j]
        /\ r[1] = Tail(q[1])
    BY <2>1, <2>2, <1>0, <1>2
  <2> DEFINE row(j, i) == IF j = 1 THEN i + 1 ELSE i
  <2>4. ASSUME NEW j \in 1 .. Len(r), NEW i \in 1 .. Len(r[j])
        PROVE  /\ j \in 1 .. Len(q) /\ row(j, i) \in 1 .. Len(q[j])
               /\ r[j][i] = q[j][row(j, i)]
               /\ ~(j = 1 /\ row(j, i) = 1)
               /\ hdr_seq(r[j][i]) = hdr_seq(q[j][1]) + row(j, i) - 1
    <3>1. /\ j \in 1 .. Len(q) /\ row(j, i) \in 1 .. Len(q[j])
          /\ r[j][i] = q[j][row(j, i)]
          /\ ~(j = 1 /\ row(j, i) = 1)
      <4>1. CASE j = 1
        BY <4>1, <2>2, <2>3, <1>0, <1>1
      <4>2. CASE j # 1
        BY <4>2, <2>3
      <4> QED BY <4>1, <4>2
    <3> HIDE DEF row
    <3> QED BY <3>1, <1>2 DEF Contiguous
  <2>5. Distinct(r)
    <3> SUFFICES ASSUME NEW x \in 1 .. Len(r), NEW y \in 1 .. Len(r),
                        NEW i \in 1 .. Len(r[x]), NEW j \in 1 .. Len(r[y]),
                        r[x][i] = r[y][j]
                 PROVE  x = y /\ i = j
      BY DEF Distinct
    <3> DEFINE a == row(x, i)
               b == row(y, j)
    <3>1. /\ x \in 1 .. Len(q) /\ y \in 1 .. Len(q)
          /\ a \in 1 .. Len(q[x]) /\ b \in 1 .. Len(q[y])
          /\ q[x][a] = q[y][b]
      BY Zenon, <2>4
    <3> HIDE DEF a, b
    <3>2. x = y /\ a = b
      <4>1. Distinct(q)
        BY <1>2
      <4> QED BY Zenon, <3>1, <4>1 DEF Distinct
    <3>3. i \in Int /\ j \in Int
      OBVIOUS
    <3> QED BY <3>2, <3>3 DEF a, b
  <2>6. Contiguous(r)
    <3> SUFFICES ASSUME NEW x \in 1 .. Len(r), NEW i \in 1 .. Len(r[x])
                 PROVE  hdr_seq(r[x][i]) = hdr_seq(r[x][1]) + i - 1
      BY DEF Contiguous
    <3>1. 1 \in 1 .. Len(r[x]) /\ x \in 1 .. Len(q)
      BY <2>3, RangeType
    <3>2. hdr_seq(r[x][i]) = hdr_seq(q[x][1]) + row(x, i) - 1
      BY <2>4
    <3>3. hdr_seq(r[x][1]) = hdr_seq(q[x][1]) + row(x, 1) - 1
      BY <2>4, <3>1
    <3>4. q[x][1] \in S
      BY <3>1, <1>0, RangeType
    <3>5. hdr_seq(q[x][1]) \in Int /\ i \in Int
      BY <3>4, HdrSeqRange
    <3> QED BY <3>2, <3>3, <3>5
  <2>7. ASSUME NEW x, On(r, x) PROVE On(q, x) /\ x # q[1][1]
    <3>1. PICK j \in 1 .. Len(r) : \E i \in 1 .. Len(r[j]) : x = r[j][i]
      BY <2>7 DEF On
    <3>2. PICK i \in 1 .. Len(r[j]) : x = r[j][i]
      BY <3>1
    <3> DEFINE a == row(j, i)
    <3>3. j \in 1 .. Len(q) /\ a \in 1 .. Len(q[j]) /\ x = q[j][a] /\ ~(j = 1 /\ a = 1)
      BY <2>4, <3>2
    <3> HIDE DEF a
    <3>4. On(q, x)
      BY <3>3 DEF On
    <3>5. x # q[1][1]
      BY <3>3, <1>0, <1>1, <1>2 DEF Distinct
    <3> QED BY <3>4, <3>5
  <2>8. ASSUME NEW x, On(q, x), x # q[1][1] PROVE On(r, x)
    <3>1. PICK j \in 1 .. Len(q) : \E i \in 1 .. Len(q[j]) : x = q[j][i]
      BY <2>8 DEF On
    <3>2. PICK i \in 1 .. Len(q[j]) : x = q[j][i]
      BY <3>1
    <3>3. CASE j # 1
      BY <3>2, <3>3, <2>3 DEF On
    <3>4. CASE j = 1
      <4>1. i # 1
        BY <3>2, <3>4, <2>8
      <4>2. i - 1 \in 1 .. Len(q[1]) - 1 /\ (i - 1) + 1 = i
        BY <3>2, <3>4, <4>1, <1>1
      <4>3. i - 1 \in 1 .. Len(r[1]) /\ r[1][i - 1] = x
        BY <3>2, <3>4, <4>2, <2>2, <2>3
      <4> QED BY Zenon, <4>3, <2>3, <1>0 DEF On
    <3> QED BY <3>3, <3>4
  <2>9. WellFormed(r, S)
    BY <2>3, <2>5, <2>6 DEF WellFormed
  <2>10. \A x : On(r, x) <=> On(q, x) /\ x # q[1][1]
    BY <2>7, <2>8
  <2> QED BY <2>9, <2>10, <1>3 DEF r
<1> QED BY <1>4, <1>5

------------------------------------------------------------------------------
(* The order of the list while sequence numbers do not wrap.               *)

\* The horizontal chain goes up from the head.
Sorted(q) ==
  \A k, l \in 1 .. Len(q) : k < l => chain_seq(q, k) < chain_seq(q, l)

\* The types of a list that is not empty.
LEMMA ChainTypes ==
  ASSUME NEW S, Numbered(S), NEW q, WellFormed(q, S)
  PROVE  /\ Len(q) \in Nat
         /\ q # << >> => Len(q) >= 1 /\ 1 \in 1 .. Len(q) /\ Len(q) \in 1 .. Len(q)
         /\ \A k \in 1 .. Len(q) : /\ chain_seq(q, k) \in 0 .. SeqMod - 1
                                   /\ q[k] \in Seq(S) /\ Len(q[k]) \in Nat /\ 1 <= Len(q[k])
                                   /\ 1 \in 1 .. Len(q[k]) /\ On(q, q[k][1])
<1>1. q \in Lists(S) /\ Len(q) \in Nat
  BY DEF WellFormed, Lists
<1>2. q # << >> => Len(q) >= 1 /\ 1 \in 1 .. Len(q) /\ Len(q) \in 1 .. Len(q)
  BY <1>1, EmptySequence DEF Lists
<1>3. ASSUME NEW k \in 1 .. Len(q)
      PROVE  /\ chain_seq(q, k) \in 0 .. SeqMod - 1
             /\ q[k] \in Seq(S) /\ Len(q[k]) \in Nat /\ 1 <= Len(q[k])
             /\ 1 \in 1 .. Len(q[k]) /\ On(q, q[k][1])
  <2>1. q[k] \in Seq(S) /\ Len(q[k]) \in Nat /\ 1 <= Len(q[k]) /\ q[k][1] \in S
    BY Zenon, <1>1, RangeType
  <2>2. 1 \in 1 .. Len(q[k])
    BY <2>1
  <2>3. chain_seq(q, k) \in 0 .. SeqMod - 1
    BY Zenon, <2>1, HdrSeqRange DEF chain_seq
  <2>4. On(q, q[k][1])
    BY Zenon, <2>2 DEF On
  <2> QED BY Zenon, <2>1, <2>2, <2>3, <2>4
<1> QED BY Zenon, <1>1, <1>2, <1>3

\* No range of a sorted list starts below the head.
LEMMA ChainLeast ==
  ASSUME NEW S, Numbered(S), NEW q, WellFormed(q, S), Sorted(q), NEW k \in 1 .. Len(q)
  PROVE  1 \in 1 .. Len(q) /\ chain_seq(q, 1) <= chain_seq(q, k)
<1>1. Len(q) \in Nat /\ chain_seq(q, k) \in Int
  BY ChainTypes
<1>2. 1 \in 1 .. Len(q) /\ (k = 1 \/ 1 < k)
  BY <1>1
<1>3. 1 < k => chain_seq(q, 1) < chain_seq(q, k)
  BY Zenon, <1>2 DEF Sorted
<1>4. chain_seq(q, 1) \in Int
  BY <1>2, ChainTypes
<1> QED BY <1>1, <1>2, <1>3, <1>4

\* The head of a sorted list has the least number: who finds at the head
\* another number than the expected one knows that it is not on the list.
LEMMA HeadLeast ==
  ASSUME NEW S, Numbered(S), NEW q, WellFormed(q, S), Sorted(q), NEW x, On(q, x)
  PROVE  q # << >> /\ chain_seq(q, 1) <= hdr_seq(x)
<1>1. PICK k \in 1 .. Len(q) : \E i \in 1 .. Len(q[k]) : x = q[k][i]
  BY Zenon DEF On
<1>2. PICK i \in 1 .. Len(q[k]) : x = q[k][i]
  BY Zenon, <1>1
<1>3. hdr_seq(x) = chain_seq(q, k) + i - 1
  BY Zenon, <1>2 DEF WellFormed, Contiguous, chain_seq
<1>4. q # << >>
  BY EmptySequence
<1>5. /\ 1 \in 1 .. Len(q) /\ chain_seq(q, 1) \in Int /\ chain_seq(q, k) \in Int
      /\ Len(q) \in Nat /\ Len(q[k]) \in Nat
  BY <1>4, ChainTypes
<1>6. chain_seq(q, 1) <= chain_seq(q, k)
  BY Zenon, ChainLeast
<1>7. i \in Int /\ 1 <= i
  BY <1>5
<1> QED BY <1>3, <1>4, <1>5, <1>6, <1>7

\* A number below the modulus is its own remainder.
LEMMA SmallMod ==
  ASSUME NEW M \in Nat \ {0}, NEW a \in 0 .. M - 1
  PROVE  a % M = a
BY SMT

\* A number below the head: the search stops at the end of the ring.
LEMMA PriorLast ==
  ASSUME NEW S, Numbered(S), NEW q, WellFormed(q, S), q # << >>, Sorted(q),
         NEW s \in 0 .. SeqMod - 1, s < chain_seq(q, 1)
  PROVE  prior(q, s) = Len(q)
<1> DEFINE d(k) == (chain_seq(q, k) - s) % SeqMod
           stop(k) == \/ s >= chain_seq(q, k)
                      \/ d(opal_list_next(q, k)) <= d(k)
                      \/ k = 1
           n == Len(q)
<1>0. /\ n \in Nat /\ n \in 1 .. n /\ 1 \in 1 .. n
      /\ chain_seq(q, 1) \in 0 .. SeqMod - 1 /\ chain_seq(q, n) \in 0 .. SeqMod - 1
  BY ChainTypes
<1>1. chain_seq(q, 1) <= chain_seq(q, n)
  BY Zenon, <1>0, ChainLeast
<1>2. chain_seq(q, 1) - s \in 0 .. SeqMod - 1 /\ chain_seq(q, n) - s \in 0 .. SeqMod - 1
  BY <1>0, <1>1, SeqModAssumption
<1>3. d(1) = chain_seq(q, 1) - s /\ d(n) = chain_seq(q, n) - s
  BY Zenon, <1>2, SmallMod, SeqModAssumption
<1>4. opal_list_next(q, n) = 1
  BY Zenon DEF opal_list_next
<1>5. d(1) <= d(n)
  BY <1>0, <1>1, <1>3
<1>6. stop(n)
  BY Zenon, <1>4, <1>5
<1> HIDE DEF stop, d
<1>7. \A k \in 1 .. n : stop(k) /\ (\A j \in 1 .. n : stop(j) => j <= k) => k = n
  BY <1>0, <1>6
<1>8. \A j \in 1 .. n : stop(j) => j <= n
  BY <1>0
<1>9. n = CHOOSE k \in 1 .. n : stop(k) /\ \A j \in 1 .. n : stop(j) => j <= k
  BY Zenon, <1>0, <1>6, <1>7, <1>8
<1>10. prior_backward(q, s) = n
  BY Zenon, <1>9 DEF prior_backward, stop, d
<1> QED BY Zenon, <1>10 DEF prior

\* A number above the head: the search stops where the number belongs.
LEMMA PriorBefore ==
  ASSUME Least, NEW S, Numbered(S), NEW q, WellFormed(q, S), q # << >>, Sorted(q),
         NEW s \in 0 .. SeqMod - 1, ~(s < chain_seq(q, 1)),
         \A k \in 1 .. Len(q) : s # chain_seq(q, k)
  PROVE  LET k == prior(q, s)
         IN  /\ k \in 1 .. Len(q) /\ chain_seq(q, k) < s
             /\ k < Len(q) => s < chain_seq(q, k + 1)
<1> DEFINE n == Len(q)
           stop(k) == \/ s <= chain_seq(q, k)
                      \/ s <= chain_seq(q, opal_list_next(q, k))
                      \/ chain_seq(q, k) >= chain_seq(q, opal_list_next(q, k))
           T == { k \in 1 .. n : stop(k) }
<1>0. /\ n \in Nat /\ n \in 1 .. n /\ 1 \in 1 .. n
      /\ \A k \in 1 .. n : chain_seq(q, k) \in Int
  BY ChainTypes
<1>1. opal_list_next(q, n) = 1 /\ \A k \in 1 .. n : k < n => opal_list_next(q, k) = k + 1
  BY <1>0 DEF opal_list_next
<1>2. chain_seq(q, n) >= chain_seq(q, 1)
  <2>1. chain_seq(q, 1) <= chain_seq(q, n)
    BY Zenon, <1>0, ChainLeast
  <2> QED BY <1>0, <2>1
<1>3. n \in T
  BY Zenon, <1>0, <1>1, <1>2
<1>4. PICK k \in T : \A j \in T : k <= j
  <2>1. T \subseteq Nat /\ T # {}
    BY <1>0, <1>3
  <2> HIDE DEF T
  <2> QED BY Zenon, <2>1, MinExists
<1>5. k \in 1 .. n /\ stop(k) /\ \A j \in 1 .. n : stop(j) => k <= j
  BY Zenon, <1>4
<1>6. \A i \in 1 .. n : stop(i) /\ (\A j \in 1 .. n : stop(j) => i <= j) => i = k
  <2> HIDE DEF stop
  <2> QED BY <1>0, <1>5
<1>7. k = CHOOSE i \in 1 .. n : stop(i) /\ \A j \in 1 .. n : stop(j) => i <= j
  <2> HIDE DEF stop
  <2> QED BY Zenon, <1>5, <1>6
<1>8. prior(q, s) = k
  BY Zenon, <1>7 DEF prior, prior_forward
<1>9. chain_seq(q, k) < s
  <2>1. CASE k = 1
    BY <1>0, <2>1
  <2>2. CASE k # 1
    <3>1. k - 1 \in 1 .. n /\ ~(k <= k - 1) /\ k - 1 < n /\ (k - 1) + 1 = k
      BY <1>0, <1>5, <2>2
    <3>2. ~stop(k - 1) /\ opal_list_next(q, k - 1) = k
      BY Zenon, <1>1, <1>5, <3>1
    <3>3. ~(s <= chain_seq(q, k))
      BY Zenon, <3>2
    <3> QED BY <1>0, <1>5, <3>3
  <2> QED BY Zenon, <2>1, <2>2
<1>10. ASSUME k < n PROVE s < chain_seq(q, k + 1)
  <2>1. opal_list_next(q, k) = k + 1 /\ k + 1 \in 1 .. n
    BY <1>0, <1>1, <1>5, <1>10
  <2>2. k < k + 1
    BY <1>5
  <2>3. chain_seq(q, k) < chain_seq(q, k + 1)
    BY Zenon, <1>5, <2>1, <2>2 DEF Sorted
  <2>4. \/ s <= chain_seq(q, k) \/ s <= chain_seq(q, k + 1)
        \/ chain_seq(q, k) >= chain_seq(q, k + 1)
    BY Zenon, <1>5, <2>1
  <2>5. PICK a \in Int, b \in Int : a = chain_seq(q, k) /\ b = chain_seq(q, k + 1)
    BY Zenon, <1>0, <1>5, <2>1
  <2>6. s # b
    BY Zenon, <2>1, <2>5
  <2> QED BY <1>9, <2>3, <2>4, <2>5, <2>6
<1> HIDE DEF stop, T
<1> QED BY Zenon, <1>5, <1>8, <1>9, <1>10

\* Two ranges together are not empty.
LEMMA TwoLengths ==
  ASSUME NEW a \in Nat, NEW b \in Nat, 1 <= a
  PROVE  1 \in 1 .. a + b /\ a + b # 0
OBVIOUS

\* Positions of a sequence and of the same one with k + 1 left out.
LEMMA SkipOne ==
  ASSUME NEW n \in Nat, NEW k \in Nat, NEW i \in 1 .. n - 1, NEW j \in 1 .. n - 1, i < j
  PROVE  LET a == IF i <= k THEN i ELSE i + 1
             b == IF j <= k THEN j ELSE j + 1
         IN  a \in 1 .. n /\ b \in 1 .. n /\ a < b
OBVIOUS

\* A range that swallows its successor leaves the others in order, and the
\* last range never swallows the head.
LEMMA MergeSorted ==
  ASSUME NEW S, Numbered(S), NEW q, WellFormed(q, S), Sorted(q), NEW k \in 1 .. Len(q)
  PROVE  Sorted(merge_ranges(q, k))
<1> DEFINE n == Len(q)
           r == merge_ranges(q, k)
           z == q[k] \o q[k + 1]
           X == Seq(S) \ {<< >>}
<1>0. /\ n \in Nat /\ 1 \in 1 .. n /\ q \in Seq(X)
      /\ \A j \in 1 .. n : /\ chain_seq(q, j) \in Int
                           /\ q[j] \in Seq(S) /\ Len(q[j]) \in Nat /\ 1 <= Len(q[j])
  <2>1. q # << >> /\ q \in Seq(X)
    BY EmptySequence DEF WellFormed, Lists
  <2> QED BY <2>1, ChainTypes
<1>1. CASE upper(q, k) + 1 # chain_seq(q, opal_list_next(q, k))
  <2>1. r = q
    BY Zenon, <1>1 DEF merge_ranges
  <2> QED BY Zenon, <2>1
<1>2. CASE upper(q, k) + 1 = chain_seq(q, opal_list_next(q, k))
  <2>1. upper(q, k) = chain_seq(q, k) + Len(q[k]) - 1
    <3>1. Len(q[k]) \in 1 .. Len(q[k])
      BY <1>0
    <3> QED BY Zenon, <3>1 DEF WellFormed, Contiguous, upper, chain_seq
  <2>2. chain_seq(q, 1) <= chain_seq(q, k)
    BY Zenon, ChainLeast
  <2>3. opal_list_next(q, k) # 1
    <3>1. upper(q, k) + 1 > chain_seq(q, 1)
      BY <1>0, <2>1, <2>2
    <3>2. PICK a \in Int : a = chain_seq(q, 1)
      BY Zenon, <1>0
    <3>3. upper(q, k) + 1 # chain_seq(q, 1)
      BY <3>1, <3>2
    <3> QED BY Zenon, <1>2, <3>3
  <2>4. opal_list_next(q, k) = k + 1 /\ k \in 1 .. n - 1 /\ k + 1 \in 1 .. n
    BY <1>0, <2>3 DEF opal_list_next
  <2>5. r = Spliced(q, k, z)
    <3>1. (k + 1) + 1 = k + 2
      BY <1>0
    <3> QED BY Zenon, <1>2, <2>3, <2>4, <3>1 DEF merge_ranges, Spliced
  <2>6. z \in X /\ z[1] = q[k][1]
    <3>1. /\ z \in Seq(S) /\ Len(z) = Len(q[k]) + Len(q[k + 1])
          /\ \A i \in 1 .. Len(q[k]) + Len(q[k + 1]) :
               z[i] = IF i <= Len(q[k]) THEN q[k][i] ELSE q[k + 1][i - Len(q[k])]
      <4>1. q[k] \in Seq(S) /\ q[k + 1] \in Seq(S)
        BY Zenon, <1>0, <2>4
      <4> QED BY Zenon, <4>1, Concatenation
    <3> HIDE DEF z
    <3>2. 1 \in 1 .. Len(q[k]) + Len(q[k + 1]) /\ 1 <= Len(q[k]) /\ Len(z) # 0
      <4>1. PICK a \in Nat, b \in Nat :
              a = Len(q[k]) /\ b = Len(q[k + 1]) /\ 1 <= a /\ 1 <= b
        BY Zenon, <1>0, <2>4
      <4>2. Len(z) = a + b
        BY Zenon, <3>1, <4>1
      <4>3. 1 \in 1 .. a + b /\ a + b # 0
        BY Zenon, <4>1, TwoLengths
      <4> QED BY Zenon, <4>1, <4>2, <4>3
    <3>3. z # << >>
      BY Zenon, <3>2, EmptySequence
    <3> QED BY Zenon, <3>1, <3>2, <3>3
  <2>7. /\ Len(r) = n - 1
        /\ \A j \in 1 .. n - 1 : r[j] = IF j < k THEN q[j] ELSE IF j = k THEN z ELSE q[j + 1]
    <3>1. k \in 1 .. Len(q) - 1 /\ z \in X /\ q \in Seq(X)
      BY Zenon, <1>0, <2>4, <2>6
    <3> HIDE DEF z, X, r
    <3>2. /\ Len(Spliced(q, k, z)) = Len(q) - 1
          /\ \A j \in 1 .. Len(q) - 1 : Spliced(q, k, z)[j] =
               IF j < k THEN q[j] ELSE IF j = k THEN z ELSE q[j + 1]
      BY <3>1, MergeSeqInner
    <3> QED BY Zenon, <2>5, <3>2
  <2> HIDE DEF r, z
  <2>8. \A j \in 1 .. n - 1 : chain_seq(r, j) = chain_seq(q, IF j <= k THEN j ELSE j + 1)
    <3> SUFFICES ASSUME NEW j \in 1 .. n - 1
                 PROVE  r[j][1] = q[IF j <= k THEN j ELSE j + 1][1]
      BY Zenon DEF chain_seq
    <3>1. j < k \/ j = k \/ (~(j < k) /\ j # k /\ ~(j <= k))
      BY <1>0, <2>4
    <3>2. j < k \/ j = k => j <= k
      BY <1>0, <2>4
    <3> QED BY Zenon, <2>6, <2>7, <3>1, <3>2
  <2>9. ASSUME NEW i \in 1 .. Len(r), NEW j \in 1 .. Len(r), i < j
        PROVE  chain_seq(r, i) < chain_seq(r, j)
    <3> DEFINE a == IF i <= k THEN i ELSE i + 1
               b == IF j <= k THEN j ELSE j + 1
    <3>1. n \in Nat /\ k \in Nat /\ i \in 1 .. n - 1 /\ j \in 1 .. n - 1
      BY <1>0, <2>4, <2>7
    <3>3. a \in 1 .. n /\ b \in 1 .. n /\ a < b
      BY Zenon, <2>9, <3>1, SkipOne
    <3>2. chain_seq(r, i) = chain_seq(q, a) /\ chain_seq(r, j) = chain_seq(q, b)
      BY Zenon, <2>8, <3>1
    <3> HIDE DEF a, b
    <3> QED BY Zenon, <3>2, <3>3 DEF Sorted
  <2> QED BY Zenon, <2>9 DEF Sorted, r
<1> QED BY Zenon, <1>1, <1>2

\* A list made of the ranges of q with f in a range of its own is sorted when
\* f is where it belongs.
LEMMA InsertSorted ==
  ASSUME NEW S, Numbered(S), NEW q, WellFormed(q, S), q # << >>, Sorted(q),
         NEW f \in S, NEW k \in 0 .. Len(q), NEW r, Len(r) = Len(q) + 1,
         \A j \in 1 .. Len(q) + 1 :
            r[j] = IF j <= k THEN q[j] ELSE IF j = k + 1 THEN <<f>> ELSE q[j - 1],
         k > 0 => chain_seq(q, k) < hdr_seq(f),
         k < Len(q) => hdr_seq(f) < chain_seq(q, k + 1)
  PROVE  Sorted(r)
<1> DEFINE n == Len(q)
           s == hdr_seq(f)
           c(j) == chain_seq(q, j)
<1>0. n \in Nat /\ s \in Int /\ (\A j \in 1 .. n : c(j) \in Int)
  BY ChainTypes, HdrSeqRange
<1>1. \A j \in 1 .. n + 1 :
         chain_seq(r, j) = IF j <= k THEN c(j) ELSE IF j = k + 1 THEN s ELSE c(j - 1)
  <2>1. <<f>>[1] = f
    OBVIOUS
  <2> QED BY Zenon, <2>1 DEF chain_seq
<1>2. \A i, j \in 1 .. n : i < j => c(i) < c(j)
  BY Zenon DEF Sorted
<1>3. \A j \in 1 .. n : j <= k => c(j) < s
  <2> SUFFICES ASSUME NEW j \in 1 .. n, j <= k PROVE c(j) < s
    OBVIOUS
  <2>1. k \in 1 .. n /\ k > 0 /\ (j = k \/ j < k)
    BY <1>0
  <2>2. c(k) < s /\ (j = k \/ c(j) < c(k)) /\ c(k) \in Int /\ c(j) \in Int
    BY Zenon, <1>0, <1>2, <2>1
  <2> HIDE DEF c, s
  <2> QED BY <1>0, <2>2
<1>4. \A j \in 1 .. n : j > k => s < c(j)
  <2> SUFFICES ASSUME NEW j \in 1 .. n, j > k PROVE s < c(j)
    OBVIOUS
  <2>1. k + 1 \in 1 .. n /\ k < n /\ (j = k + 1 \/ k + 1 < j)
    BY <1>0
  <2>2. s < c(k + 1) /\ (j = k + 1 \/ c(k + 1) < c(j)) /\ c(k + 1) \in Int /\ c(j) \in Int
    BY Zenon, <1>0, <1>2, <2>1
  <2> HIDE DEF c, s
  <2> QED BY <1>0, <2>2
<1> HIDE DEF c, s
<1>5. ASSUME NEW i \in 1 .. n + 1, NEW j \in 1 .. n + 1, i < j
      PROVE  chain_seq(r, i) < chain_seq(r, j)
  <2>1. CASE i <= k /\ j <= k
    <3>1. i \in 1 .. n /\ j \in 1 .. n
      BY <1>0, <2>1
    <3> QED BY Zenon, <1>1, <1>2, <1>5, <2>1, <3>1
  <2>2. CASE i <= k /\ j = k + 1
    <3>1. i \in 1 .. n /\ ~(j <= k)
      BY <1>0, <2>2
    <3> QED BY Zenon, <1>1, <1>3, <2>2, <3>1
  <2>3. CASE i <= k /\ j > k + 1
    <3>1. i \in 1 .. n /\ j - 1 \in 1 .. n /\ ~(j <= k) /\ j # k + 1 /\ i < j - 1
      BY <1>0, <2>3
    <3> QED BY Zenon, <1>1, <1>2, <2>3, <3>1
  <2>4. CASE i = k + 1
    <3>1. j - 1 \in 1 .. n /\ ~(j <= k) /\ j # k + 1 /\ j - 1 > k /\ ~(i <= k)
      BY <1>0, <1>5, <2>4
    <3> QED BY Zenon, <1>1, <1>4, <2>4, <3>1
  <2>5. CASE i > k + 1
    <3>1. /\ i - 1 \in 1 .. n /\ ~(i <= k) /\ i # k + 1
          /\ j - 1 \in 1 .. n /\ ~(j <= k) /\ j # k + 1 /\ i - 1 < j - 1
      BY <1>0, <1>5, <2>5
    <3> QED BY Zenon, <1>1, <1>2, <3>1
  <2>6. \/ i <= k /\ (j <= k \/ j = k + 1 \/ j > k + 1)
        \/ i = k + 1 \/ i > k + 1
    BY <1>0
  <2> QED BY Zenon, <2>1, <2>2, <2>3, <2>4, <2>5, <2>6
<1> QED BY Zenon, <1>5 DEF Sorted

\* A longer range starts where it did.
LEMMA ExtendSorted ==
  ASSUME NEW S, Numbered(S), NEW q, WellFormed(q, S), Sorted(q), NEW f \in S,
         NEW k \in 1 .. Len(q)
  PROVE  Sorted([q EXCEPT ![k] = Append(@, f)])
<1> DEFINE r == [q EXCEPT ![k] = Append(@, f)]
<1>1. Len(r) = Len(q) /\ \A j \in 1 .. Len(q) : r[j] = IF j = k THEN Append(q[k], f) ELSE q[j]
  BY DEF WellFormed, Lists
<1>2. Append(q[k], f)[1] = q[k][1]
  <2>1. q[k] \in Seq(S) /\ Len(q[k]) \in Nat /\ 1 <= Len(q[k])
    BY Zenon, ChainTypes
  <2> QED BY <2>1
<1>3. \A j \in 1 .. Len(q) : chain_seq(r, j) = chain_seq(q, j)
  BY Zenon, <1>1, <1>2 DEF chain_seq
<1> HIDE DEF r
<1>4. Sorted(r)
  BY <1>1, <1>3 DEF Sorted
<1> QED BY Zenon, <1>4 DEF r

\* append_frag_to_ordered_list keeps the list sorted as long as the fragment
\* is later than the expected one, none on the list is earlier, and no two
\* have the same number.  (After a wrap they are later and yet have smaller
\* numbers.)
LEMMA AppendSorted ==
  ASSUME Least, NEW S, Numbered(S), NEW q, WellFormed(q, S), Sorted(q),
         NEW f \in S, ~On(q, f), NEW seq \in Int, seq < hdr_seq(f),
         \A x : On(q, x) => seq <= hdr_seq(x) /\ hdr_seq(x) # hdr_seq(f)
  PROVE  Sorted(append_frag_to_ordered_list(q, f, seq))
<1> DEFINE s == hdr_seq(f)
           k == prior(q, s)
           r == append_frag_to_ordered_list(q, f, seq)
           X == Seq(S) \ {<< >>}
<1>0. s \in 0 .. SeqMod - 1 /\ s \in Int
  BY HdrSeqRange
<1>1. CASE q = << >>
  <2>1. Len(<< <<f>> >>) = 1
    OBVIOUS
  <2>2. Sorted(<< <<f>> >>)
    BY <2>1 DEF Sorted
  <2> QED BY Zenon, <1>1, <2>2 DEF append_frag_to_ordered_list
<1>2. CASE q # << >>
  <2>0. /\ Len(q) \in Nat /\ 1 \in 1 .. Len(q) /\ Len(q) \in 1 .. Len(q) /\ q \in Seq(X)
        /\ \A j \in 1 .. Len(q) : /\ chain_seq(q, j) \in Int
                                  /\ seq <= chain_seq(q, j) /\ s # chain_seq(q, j)
    <3>1. \A j \in 1 .. Len(q) : chain_seq(q, j) \in Int /\ On(q, q[j][1])
      BY ChainTypes
    <3>2. \A j \in 1 .. Len(q) : seq <= chain_seq(q, j) /\ s # chain_seq(q, j)
      BY Zenon, <3>1 DEF chain_seq
    <3>3. q \in Seq(X)
      BY Zenon DEF WellFormed, Lists
    <3> QED BY Zenon, <1>2, <3>1, <3>2, <3>3, ChainTypes
  <2>1. k \in 1 .. Len(q)
    BY Zenon, <1>0, <1>2, PriorInList
  <2>2. <<f>> \in X
    OBVIOUS
  <2> HIDE DEF X
  <2>3. CASE upper(q, k) + 1 = s
    <3> DEFINE e == [q EXCEPT ![k] = Append(@, f)]
    <3>1. r = merge_ranges(e, k)
      BY Zenon, <1>2, <2>3 DEF append_frag_to_ordered_list
    <3> HIDE DEF k
    <3>2. WellFormed(e, S) /\ Len(e) = Len(q)
      BY <2>1, <2>3, ExtendRange
    <3>3. Sorted(e)
      BY Zenon, <2>1, ExtendSorted
    <3>4. k \in 1 .. Len(e)
      BY Zenon, <2>1, <3>2
    <3> HIDE DEF e
    <3>5. Sorted(merge_ranges(e, k))
      BY Zenon, <3>2, <3>3, <3>4, MergeSorted
    <3> QED BY Zenon, <3>1, <3>5
  <2>4. CASE upper(q, k) + 1 # s
    <3> DEFINE e == insert_after(q, k, f)
               h == set_head(e, k + 1)
    <3>1. /\ WellFormed(e, S) /\ Len(e) = Len(q) + 1 /\ e \in Seq(X)
          /\ \A j \in 1 .. Len(q) + 1 :
               e[j] = IF j <= k THEN q[j] ELSE IF j = k + 1 THEN <<f>> ELSE q[j - 1]
      <4> HIDE DEF k
      <4>1. WellFormed(e, S)
        BY <2>1, InsertAfter
      <4> QED BY <2>0, <2>1, <2>2, <4>1, InsertSeq
    <3>2. k + 1 \in 1 .. Len(e) /\ 1 \in 1 .. Len(e)
      <4> HIDE DEF k, e
      <4> QED BY <2>0, <2>1, <3>1
    <3>3. WellFormed(h, S) /\ Len(h) = Len(e)
      <4> HIDE DEF k, e
      <4> QED BY <3>1, <3>2, SetHead
    <3>4. CASE closer_than_head(q, s, seq)
      <4>1. r = merge_ranges(h, 1)
        BY Zenon, <1>2, <2>4, <3>4 DEF append_frag_to_ordered_list
      <4>2. s < chain_seq(q, 1)
        <5>1. Abs(s - seq) < Abs(chain_seq(q, 1) - seq) /\ seq <= chain_seq(q, 1)
          BY Zenon, <2>0, <3>4 DEF closer_than_head
        <5>2. PICK c \in Int : c = chain_seq(q, 1)
          BY Zenon, <2>0
        <5>3. Abs(s - seq) = s - seq /\ Abs(c - seq) = c - seq
          BY <1>0, <5>1, <5>2 DEF Abs
        <5> QED BY <1>0, <5>1, <5>2, <5>3
      <4>3. k = Len(q)
        BY Zenon, <1>0, <1>2, <4>2, PriorLast
      <4>4. /\ Len(h) = Len(q) + 1
            /\ \A j \in 1 .. Len(q) + 1 :
                 h[j] = IF j <= 0 THEN q[j] ELSE IF j = 0 + 1 THEN <<f>> ELSE q[j - 1]
        <5>1. \A j \in 1 .. Len(e) : h[j] =
                 IF j <= Len(e) - (k + 1) + 1 THEN e[(k + 1) + j - 1]
                                              ELSE e[j - (Len(e) - (k + 1) + 1)]
          <6> HIDE DEF k, e
          <6> QED BY Zenon, <3>1, <3>2, RotateSeq
        <5> HIDE DEF k, e, h
        <5> QED BY <2>0, <3>1, <3>3, <4>3, <5>1
      <4> HIDE DEF k, e, h
      <4>5. 0 \in 0 .. Len(q) /\ ~(0 > 0) /\ 0 + 1 = 1
        BY <2>0
      <4>6. Sorted(h)
        BY Zenon, <1>2, <4>2, <4>4, <4>5, InsertSorted
      <4>7. 1 \in 1 .. Len(h)
        BY Zenon, <3>2, <3>3
      <4>8. Sorted(merge_ranges(h, 1))
        BY Zenon, <3>3, <4>6, <4>7, MergeSorted
      <4> QED BY Zenon, <4>1, <4>8
    <3>5. CASE ~closer_than_head(q, s, seq)
      <4>1. r = merge_ranges(e, k + 1)
        BY Zenon, <1>2, <2>4, <3>5 DEF append_frag_to_ordered_list
      <4>2. ~(s < chain_seq(q, 1))
        <5>1. PICK c \in Int : c = chain_seq(q, 1) /\ seq <= c
          BY Zenon, <2>0
        <5>2. ~(s >= seq /\ Abs(s - seq) < Abs(c - seq))
          BY Zenon, <3>5, <5>1 DEF closer_than_head
        <5>3. Abs(s - seq) = s - seq /\ Abs(c - seq) = c - seq /\ s >= seq
          BY <1>0, <5>1 DEF Abs
        <5> QED BY <1>0, <5>1, <5>2, <5>3
      <4>3. /\ chain_seq(q, k) < s
            /\ k < Len(q) => s < chain_seq(q, k + 1)
        BY Zenon, <1>0, <1>2, <2>0, <4>2, PriorBefore
      <4> HIDE DEF k, e, h
      <4>4. k \in 0 .. Len(q)
        BY <2>0, <2>1
      <4>5. Sorted(e)
        BY Zenon, <1>2, <3>1, <4>3, <4>4, InsertSorted
      <4>6. Sorted(merge_ranges(e, k + 1))
        BY Zenon, <3>1, <3>2, <4>5, MergeSorted
      <4> QED BY Zenon, <4>1, <4>6
    <3> QED BY Zenon, <3>4, <3>5
  <2> QED BY Zenon, <2>3, <2>4
<1> QED BY Zenon, <1>1, <1>2

\* A range that is more than its first fragment.
LEMMA AtLeastTwo ==
  ASSUME NEW n \in Nat, 1 <= n
  PROVE  n # 0 /\ (n # 1 => 1 \in 1 .. n - 1 /\ 1 + 1 = 2 /\ 2 \in 1 .. n)
OBVIOUS

\* remove_head_from_ordered_list keeps the list sorted: the next fragment of
\* the head's range still comes before the next range.
LEMMA RemoveSorted ==
  ASSUME NEW S, Numbered(S), NEW q, WellFormed(q, S), q # << >>, Sorted(q),
         \A x, y : On(q, x) /\ On(q, y) /\ hdr_seq(x) = hdr_seq(y) => x = y
  PROVE  Sorted(remove_head_from_ordered_list(q))
<1> DEFINE r == remove_head_from_ordered_list(q)
           X == Seq(S) \ {<< >>}
<1>0. /\ Len(q) \in Nat /\ Len(q) >= 1 /\ 1 \in 1 .. Len(q) /\ q \in Seq(X)
      /\ \A j \in 1 .. Len(q) : /\ chain_seq(q, j) \in Int
                                /\ q[j] \in Seq(S) /\ Len(q[j]) \in Nat /\ 1 <= Len(q[j])
                                /\ 1 \in 1 .. Len(q[j]) /\ On(q, q[j][1])
  <2>1. q \in Seq(X)
    BY Zenon DEF WellFormed, Lists
  <2>2. \A j \in 1 .. Len(q) : chain_seq(q, j) \in Int
    BY ChainTypes
  <2> QED BY Zenon, <2>1, <2>2, ChainTypes
<1>1. \A i, j \in 1 .. Len(q) : i < j => chain_seq(q, i) < chain_seq(q, j)
  BY Zenon DEF Sorted
<1>2. CASE Len(q[1]) = 1
  <2>1. r = Tail(q)
    BY Zenon, <1>2 DEF remove_head_from_ordered_list
  <2> HIDE DEF r, X
  <2>2. Len(r) = Len(q) - 1 /\ \A j \in 1 .. Len(r) : r[j] = q[j + 1]
    BY Zenon, <1>0, <2>1, Remainder
  <2>3. ASSUME NEW i \in 1 .. Len(r), NEW j \in 1 .. Len(r), i < j
        PROVE  chain_seq(r, i) < chain_seq(r, j)
    <3>1. i + 1 \in 1 .. Len(q) /\ j + 1 \in 1 .. Len(q) /\ i + 1 < j + 1
      BY <1>0, <2>2, <2>3
    <3>2. chain_seq(r, i) = chain_seq(q, i + 1) /\ chain_seq(r, j) = chain_seq(q, j + 1)
      BY Zenon, <2>2 DEF chain_seq
    <3> QED BY Zenon, <1>1, <3>1, <3>2
  <2> QED BY Zenon, <2>3 DEF Sorted, r
<1>3. CASE Len(q[1]) # 1
  <2>1. r = [q EXCEPT ![1] = Tail(@)]
    BY Zenon, <1>3 DEF remove_head_from_ordered_list
  <2> HIDE DEF r
  <2>2. Len(r) = Len(q) /\ \A j \in 1 .. Len(q) : r[j] = IF j = 1 THEN Tail(q[1]) ELSE q[j]
    BY <1>0, <2>1
  <2>3. Tail(q[1])[1] = q[1][2] /\ 2 \in 1 .. Len(q[1])
    <3>1. PICK n \in Nat : n = Len(q[1]) /\ 1 <= n /\ q[1] \in Seq(S)
      BY Zenon, <1>0
    <3>2. q[1] # << >> /\ n # 1
      BY Zenon, <1>3, <3>1, AtLeastTwo, EmptySequence
    <3>3. Len(Tail(q[1])) = n - 1 /\ \A i \in 1 .. n - 1 : Tail(q[1])[i] = q[1][i + 1]
      BY Zenon, <3>1, <3>2, Remainder
    <3>4. 1 \in 1 .. n - 1 /\ 1 + 1 = 2 /\ 2 \in 1 .. n
      BY Zenon, <3>1, <3>2, AtLeastTwo
    <3> QED BY Zenon, <3>1, <3>3, <3>4
  <2>4. hdr_seq(q[1][2]) = chain_seq(q, 1) + 1
    <3>1. hdr_seq(q[1][2]) = chain_seq(q, 1) + 2 - 1
      BY Zenon, <1>0, <2>3 DEF WellFormed, Contiguous, chain_seq
    <3> QED BY <1>0, <3>1
  <2>5. \A j \in 1 .. Len(q) : j # 1 => hdr_seq(q[1][2]) # chain_seq(q, j)
    <3> SUFFICES ASSUME NEW j \in 1 .. Len(q), j # 1, hdr_seq(q[1][2]) = hdr_seq(q[j][1])
                 PROVE  FALSE
      BY Zenon DEF chain_seq
    <3>1. On(q, q[1][2]) /\ On(q, q[j][1])
      BY Zenon, <1>0, <2>3 DEF On
    <3>2. q[1][2] = q[j][1]
      BY Zenon, <3>1
    <3>3. Distinct(q)
      BY Zenon DEF WellFormed
    <3> QED BY Zenon, <1>0, <2>3, <3>2, <3>3 DEF Distinct
  <2>6. /\ chain_seq(r, 1) = chain_seq(q, 1) + 1
        /\ \A j \in 1 .. Len(q) : j # 1 => chain_seq(r, j) = chain_seq(q, j)
        /\ \A j \in 1 .. Len(q) : j # 1 => chain_seq(q, 1) + 1 # chain_seq(q, j)
    BY Zenon, <1>0, <2>2, <2>3, <2>4, <2>5 DEF chain_seq
  <2>7. ASSUME NEW i \in 1 .. Len(r), NEW j \in 1 .. Len(r), i < j
        PROVE  chain_seq(r, i) < chain_seq(r, j)
    <3>1. i \in 1 .. Len(q) /\ j \in 1 .. Len(q) /\ j # 1
      BY <1>0, <2>2, <2>7
    <3>2. CASE i # 1
      BY Zenon, <1>1, <2>6, <2>7, <3>1, <3>2
    <3>3. CASE i = 1
      <4>1. PICK a \in Int, b \in Int : a = chain_seq(q, 1) /\ b = chain_seq(q, j)
        BY Zenon, <1>0, <3>1
      <4>2. a < b /\ a + 1 # b
        BY Zenon, <1>1, <2>6, <2>7, <3>1, <3>3, <4>1
      <4>3. a + 1 < b
        BY <4>2
      <4> QED BY Zenon, <2>6, <3>1, <3>3, <4>1, <4>3
    <3> QED BY Zenon, <3>2, <3>3
  <2> QED BY Zenon, <2>7 DEF Sorted, r
<1> QED BY Zenon, <1>2, <1>3

==============================================================================
