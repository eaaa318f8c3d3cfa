--------------------------- MODULE Ob1OrderedList ---------------------------
(***************************************************************************)
(* The list of out-of-sequence fragments that the ob1 point-to-point layer *)
(* keeps per peer (frags_cant_match, ompi/mca/pml/ob1/pml_ob1_recvfrag.c). *)
(*                                                                         *)
(* In C the list is a ring of fragments linked by opal_list_next/prev (the *)
(* horizontal chain), each with an optional second ring (range, the        *)
(* vertical chain) of fragments with the following sequence numbers.       *)
(* Here the list is a sequence of ranges: q[1] is the range of the head    *)
(* *queue, q[k+1] is the horizontal successor of q[k], the successor of    *)
(* the last range is q[1], and q[k] is the fragment of the horizontal      *)
(* chain followed by its vertical chain.  << >> is the NULL queue.         *)
(*                                                                         *)
(* A fragment is a record with field n, the number of the message in the   *)
(* sender's order; its header carries n truncated to the width of hdr_seq. *)
(* The comparisons below are the C ones: uint16_t operands promoted to int *)
(* for <, = and + 1, truncated again only where C stores the result in a   *)
(* uint16_t.                                                               *)
(***************************************************************************)
EXTENDS Integers, Sequences

CONSTANT SeqMod        \* 2^16 in the code: hdr_seq is a uint16_t

ASSUME SeqModAssumption == SeqMod \in Nat \ {0}

hdr_seq(f) == f.n % SeqMod

\* The sequence number of the k-th fragment of the horizontal chain.
chain_seq(q, k) == hdr_seq(q[k][1])

\* The largest sequence number of the k-th range.
upper(q, k) == hdr_seq(q[k][Len(q[k])])

opal_list_next(q, k) == IF k = Len(q) THEN 1 ELSE k + 1

Abs(x) == IF x < 0 THEN -x ELSE x

(***************************************************************************)
(* The position of prior, the fragment after which s is linked.  Both C    *)
(* loops stop at the first position, in the order they visit the chain,    *)
(* where their condition is false.                                         *)
(***************************************************************************)
prior_backward(q, s) ==
  LET d(k) == (chain_seq(q, k) - s) % SeqMod
      stop(k) == \/ s >= chain_seq(q, k)
                 \/ d(opal_list_next(q, k)) <= d(k)
                 \/ k = 1
  IN  CHOOSE k \in 1 .. Len(q) :
         stop(k) /\ \A j \in 1 .. Len(q) : stop(j) => j <= k

prior_forward(q, s) ==
  LET stop(k) == \/ s <= chain_seq(q, k)
                 \/ s <= chain_seq(q, opal_list_next(q, k))
                 \/ chain_seq(q, k) >= chain_seq(q, opal_list_next(q, k))
  IN  CHOOSE k \in 1 .. Len(q) :
         stop(k) /\ \A j \in 1 .. Len(q) : stop(j) => k <= j

prior(q, s) ==
  IF s < chain_seq(q, 1) THEN prior_backward(q, s) ELSE prior_forward(q, s)

\* Make the k-th range the head of the ring.
set_head(q, k) == SubSeq(q, k, Len(q)) \o SubSeq(q, 1, k - 1)

\* A range of its own for f, after the k-th one.
insert_after(q, k, f) ==
  SubSeq(q, 1, k) \o << <<f>> >> \o SubSeq(q, k + 1, Len(q))

\* The k-th range swallows its successor when the two are contiguous; a
\* head that is swallowed is replaced by its new range.
merge_ranges(q, k) ==
  LET next == opal_list_next(q, k)
      both == << q[k] \o q[next] >>
  IN  IF upper(q, k) + 1 # chain_seq(q, next)
      THEN q
      ELSE IF next = 1
           THEN both \o SubSeq(q, 2, k - 1)
           ELSE SubSeq(q, 1, k - 1) \o both \o SubSeq(q, next + 1, Len(q))

\* Mutation: the head is never moved.
closer_than_head_mut(q, s, seq) == FALSE

\* Is a range starting with s closer to the expected number seq than the head?
closer_than_head(q, s, seq) ==
  /\ s >= seq
  /\ Abs(s - seq) < Abs(chain_seq(q, 1) - seq)

append_frag_to_ordered_list(q, f, seq) ==
  LET s == hdr_seq(f)
      k == prior(q, s)
  IN  IF q = << >>
      THEN << <<f>> >>
      ELSE IF upper(q, k) + 1 = s
           THEN merge_ranges([q EXCEPT ![k] = Append(@, f)], k)
           ELSE IF closer_than_head(q, s, seq)
                THEN merge_ranges(set_head(insert_after(q, k, f), k + 1), 1)
                ELSE merge_ranges(insert_after(q, k, f), k + 1)

remove_head_from_ordered_list(q) ==
  IF Len(q[1]) = 1 THEN Tail(q) ELSE [q EXCEPT ![1] = Tail(@)]

\* check_cantmatch_for_match finds a fragment only at the head.
head_is_expected(q, seq) == q # << >> /\ chain_seq(q, 1) = seq

\* The fragments of the list.
list_frags(q) == UNION { { q[k][i] : i \in 1 .. Len(q[k]) } : k \in 1 .. Len(q) }

-----------------------------------------------------------------------------
(* The shape the operations keep.                                          *)

Lists(S) == Seq(Seq(S) \ {<< >>})

\* Fragments have a message number.
Numbered(S) == \A f \in S : f.n \in Nat

\* x is on the list.
On(q, x) == \E k \in 1 .. Len(q) : \E i \in 1 .. Len(q[k]) : x = q[k][i]

\* A fragment is on the list once.
Distinct(q) ==
  \A k, l \in 1 .. Len(q) : \A i \in 1 .. Len(q[k]), j \in 1 .. Len(q[l]) :
     q[k][i] = q[l][j] => k = l /\ i = j

\* The vertical chain continues the sequence number of its parent.
Contiguous(q) ==
  \A k \in 1 .. Len(q) : \A i \in 1 .. Len(q[k]) :
     hdr_seq(q[k][i]) = hdr_seq(q[k][1]) + i - 1

\* A list the operations keep well formed.
WellFormed(q, S) == q \in Lists(S) /\ Distinct(q) /\ Contiguous(q)
=============================================================================
