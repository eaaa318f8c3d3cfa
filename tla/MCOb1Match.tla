----------------------------- MODULE MCOb1Match -----------------------------
(* Instances of Ob1Match for TLC. *)
EXTENDS Ob1Match

CONSTANTS r1, r2, r3, t1, t2, t3

OneEnvelope == { [tag |-> 1, type |-> "MATCH"] }
TwoEnvelopes == OneEnvelope \cup { [tag |-> -1, type |-> "RNDV"] }

NoReceives == {}
Receives == [type : {"RECV"}, peer : {0, AnySource}, tag : {1, AnyTag}]
Everything ==
  Receives
  \cup [type : {"PROBE", "MPROBE"}, peer : {AnySource}, tag : {AnyTag}]
  \cup [type : {"IPROBE"}, peer : {0}, tag : {1}]
  \cup [type : {"IMPROBE"}, peer : {0}, tag : {-1}]
=============================================================================
