----------------------------- MODULE MCPlvStore -----------------------------
(***************************************************************************)
(* A scanned message (in1, re-injected as out1) and two plain ones, with   *)
(* timestamps on both sides of the retention cutoff.                       *)
(***************************************************************************)
EXTENDS PlvStore

MCLeg      == [q \in QIDs |-> IF q = "in1" THEN "out1" ELSE "none"]
MCHandoff  == [q \in QIDs |-> IF q = "in1" THEN 2 ELSE 0]
\* q3 is the oldest message, in1 has the same age as its leg; the first line
\* of q2 carries a timestamp nothing could parse.
MCStamp ==
  [q \in QIDs |-> CASE q = "q3" -> <<1>> [] q = "q2" -> <<0, 1>> [] OTHER -> <<2, 2>>]
=============================================================================
