------------------------------ MODULE VaderFbox ------------------------------
(***************************************************************************)
(* opal/mca/btl/vader/btl_vader_fbox.h: the fast box, a ring of shared     *)
(* memory that one process writes and one reads.  Nothing is locked        *)
(* between them: a header becomes valid when its tag and sequence number   *)
(* are written, the space of old messages is seen in a start offset that   *)
(* the reader publishes, and whatever an earlier lap has left in the       *)
(* memory is still there to be read.                                       *)
(*                                                                         *)
(* Offsets and sizes are in units of the alignment; the first unit of the  *)
(* box holds the start offset.  One step is one access to shared memory,   *)
(* in the order that the memory barriers enforce.                          *)
(***************************************************************************)
EXTENDS Integers, Sequences

CONSTANTS
  FboxSize,     \* fbox_size
  SeqMod,       \* sequence numbers are 16 bits wide
  PollCount,    \* MCA_BTL_VADER_POLL_COUNT
  Messages      \* bound: messages the sender has

\* A message is at most a quarter of the box, with its header one unit more.
Sizes == 1 .. (FboxSize \div 4) + 1

FboxAssumption ==
  /\ FboxSize \in Nat /\ FboxSize >= 8
  /\ SeqMod \in Nat /\ SeqMod >= FboxSize
  /\ PollCount \in Nat

VARIABLES
  mem,      \* per unit: tag, seq and size of a header, and the message copied behind it
  startp,   \* the start offset the reader has published: [off, hb]
  out,      \* the sender: start as it last saw it, end, seq
  in,       \* the reader: start, seq
  spc, rpc, \* where sender and reader are
  s, r,     \* their locals
  sent, got \* messages written; messages handed to the callbacks

vars == <<mem, startp, out, in, spc, rpc, s, r, sent, got>>

Units == 1 .. FboxSize - 1
Begin == [off |-> 1, hb |-> FALSE]
Empty == [tag |-> "none", seq |-> 0, size |-> 0, data |-> 0]

\* mca_btl_vader_endpoint_setup_fbox_send and _recv
Init ==
  /\ mem = [u \in Units |-> Empty]
  /\ startp = Begin
  /\ out = [start |-> Begin, end |-> Begin, seq |-> 0]
  /\ in = [start |-> Begin, seq |-> 0]
  /\ spc = "idle" /\ rpc = "idle"
  /\ s = [size |-> 0, free |-> 0, end |-> Begin]
  /\ r = [start |-> Begin, count |-> 0]
  /\ sent = 0 /\ got = << >>

senderVars == <<out, spc, s, sent>>
readerVars == <<in, rpc, r, got>>

NextSeq(n) == (n + 1) % SeqMod

\* Equal offsets mean empty when the high bits match and full when they do not.
BUFFER_FREE(start, end) ==
  IF start.off + (IF start.hb = end.hb THEN 0 ELSE 1) > end.off
  THEN start.off - end.off ELSE FboxSize - end.off

-----------------------------------------------------------------------------
(* mca_btl_vader_fbox_sendi, under the lock of the endpoint *)

\* A message that did not fit is tried again with the same size.
SendStart ==
  /\ spc = "idle" /\ sent < Messages
  /\ \E size \in Sizes :
       /\ s.size \in {0, size}
       /\ LET free == BUFFER_FREE(out.start, out.end) IN
          /\ s' = [size |-> size, free |-> free, end |-> out.end]
          /\ spc' = IF free < size THEN "refresh" ELSE "copy"
  /\ UNCHANGED <<mem, startp, readerVars, out, sent>>

\* What to do with the free space known now.
Fits(free) == IF free < s.size THEN "fail" ELSE "copy"

Refresh ==
  /\ spc = "refresh"
  /\ out' = [out EXCEPT !.start = startp]
  /\ LET free == BUFFER_FREE(startp, s.end) IN
     /\ s' = [s EXCEPT !.free = free]
     /\ spc' = IF free > 0 /\ free < s.size /\ startp.off <= s.end.off
               THEN "skip" ELSE Fits(free)
  /\ UNCHANGED <<mem, startp, readerVars, sent>>

\* The rest of the ring is marked to be skipped.
Wrapped == [off |-> 1, hb |-> ~s.end.hb]

Skip ==
  /\ spc = "skip"
  /\ mem' = [mem EXCEPT ![s.end.off].tag = "none"]
  /\ spc' = "skip_size"
  /\ UNCHANGED <<startp, readerVars, out, s, sent>>

SkipSize ==
  /\ spc = "skip_size"
  /\ mem' = [mem EXCEPT ![s.end.off].size = s.free]
  /\ spc' = "skip_tag"
  /\ UNCHANGED <<startp, readerVars, out, s, sent>>

SkipTag ==
  /\ spc = "skip_tag"
  /\ mem' = [mem EXCEPT ![s.end.off].tag = "skip", ![s.end.off].seq = out.seq]
  /\ out' = [out EXCEPT !.seq = NextSeq(@)]
  /\ LET free == BUFFER_FREE(out.start, Wrapped) IN
     /\ s' = [s EXCEPT !.end = Wrapped, !.free = free]
     /\ spc' = Fits(free)
  /\ UNCHANGED <<startp, readerVars, sent>>

SendFails ==
  /\ spc = "fail"
  /\ out' = [out EXCEPT !.end = s.end]
  /\ spc' = "idle"
  /\ UNCHANGED <<mem, startp, readerVars, s, sent>>

\* The payload overwrites whatever headers there were behind its own.
Copy ==
  /\ spc = "copy"
  /\ mem' = [u \in Units |->
               IF u = s.end.off THEN [mem[u] EXCEPT !.data = sent + 1]
               ELSE IF u > s.end.off /\ u < s.end.off + s.size
               THEN [tag |-> "payload", seq |-> 0, size |-> 1, data |-> sent + 1]
               ELSE mem[u]]
  /\ spc' = "clear"
  /\ UNCHANGED <<startp, readerVars, out, s, sent>>

\* Mutation: the next header is left as it is.
ClearNext_mut ==
  /\ spc = "clear"
  /\ spc' = "header"
  /\ UNCHANGED <<mem, startp, readerVars, out, s, sent>>

ClearNext ==
  /\ spc = "clear"
  /\ LET end == s.end.off + s.size IN
     mem' = IF end < FboxSize /\ s.free > s.size THEN [mem EXCEPT ![end] = Empty] ELSE mem
  /\ spc' = "header"
  /\ UNCHANGED <<startp, readerVars, out, s, sent>>

Header ==
  /\ spc = "header"
  /\ mem' = [mem EXCEPT ![s.end.off].tag = "none"]
  /\ spc' = "header_size"
  /\ UNCHANGED <<startp, readerVars, out, s, sent>>

HeaderSize ==
  /\ spc = "header_size"
  /\ mem' = [mem EXCEPT ![s.end.off].size = s.size]
  /\ spc' = "header_tag"
  /\ UNCHANGED <<startp, readerVars, out, s, sent>>

HeaderTag ==
  /\ spc = "header_tag"
  /\ mem' = [mem EXCEPT ![s.end.off].tag = "message", ![s.end.off].seq = out.seq]
  /\ LET end == s.end.off + s.size IN
     out' = [out EXCEPT !.seq = NextSeq(@),
                        !.end = IF end = FboxSize THEN Wrapped ELSE [s.end EXCEPT !.off = end]]
  /\ sent' = sent + 1
  /\ s' = [size |-> 0, free |-> 0, end |-> Begin]
  /\ spc' = "idle"
  /\ UNCHANGED <<startp, readerVars>>

-----------------------------------------------------------------------------
(* mca_btl_vader_check_fboxes, for this box *)

PollStart ==
  /\ rpc = "idle"
  /\ r' = [start |-> in.start, count |-> 0]
  /\ rpc' = "tag"
  /\ UNCHANGED <<mem, startp, senderVars, in, got>>

\* Bytes of a payload may look like any header, the expected one included.
Valid(h) == h.tag = "payload" \/ (h.tag # "none" /\ h.seq = in.seq)

ReadTag ==
  /\ rpc = "tag"
  /\ LET h == mem[r.start.off] IN
     IF r.count <= PollCount /\ Valid(h)
     THEN rpc' = "size" /\ in' = [in EXCEPT !.seq = NextSeq(@)]
     ELSE rpc' = (IF r.count > 0 THEN "publish" ELSE "idle") /\ UNCHANGED in
  /\ UNCHANGED <<mem, startp, senderVars, r, got>>

\* The size is read, a message is handed up and the reader moves on.
ReadMessage ==
  /\ rpc = "size"
  /\ LET h == mem[r.start.off]
         start == r.start.off + h.size
     IN  /\ got' = IF h.tag = "skip" THEN got ELSE Append(got, h.data)
         /\ r' = [count |-> r.count + 1,
                  start |-> IF start = FboxSize THEN [off |-> 1, hb |-> ~r.start.hb]
                            ELSE [r.start EXCEPT !.off = start]]
  /\ rpc' = "tag"
  /\ UNCHANGED <<mem, startp, senderVars, in>>

Publish ==
  /\ rpc = "publish"
  /\ startp' = r.start
  /\ in' = [in EXCEPT !.start = r.start]
  /\ rpc' = "idle"
  /\ UNCHANGED <<mem, senderVars, r, got>>

Send ==
  SendStart \/ Refresh \/ Skip \/ SkipSize \/ SkipTag \/ SendFails \/ Copy \/ ClearNext
  \/ Header \/ HeaderSize \/ HeaderTag
Poll == PollStart \/ ReadTag \/ ReadMessage \/ Publish

Next == Send \/ Poll

Spec == Init /\ [][Next]_vars

\* The sender tries again and the reader polls.
Fairness == WF_vars(Send) /\ WF_vars(Poll)
FairSpec == Spec /\ Fairness

-----------------------------------------------------------------------------
(* Properties *)

\* Safety: the reader hands up the messages in the order in which they were
\* written, each once and with its own bytes, although headers and payloads
\* of earlier laps lie in the ring and both ends work from stale offsets.
MessagesInOrder == Len(got) <= sent + 1 /\ \A k \in DOMAIN got : got[k] = k

\* Safety: both ends stay inside the ring, and a message never crosses its end.
InsideRing ==
  /\ out.end.off \in Units /\ r.start.off \in Units
  /\ spc \in {"copy", "clear", "header"} => s.end.off + s.size <= FboxSize

AllArrived == Len(got) = Messages
=============================================================================
