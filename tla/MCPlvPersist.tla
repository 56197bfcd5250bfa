---------------------------- MODULE MCPlvPersist ----------------------------
(***************************************************************************)
(* A scanned message (in1, re-injected as out1) and a plain one.           *)
(***************************************************************************)
EXTENDS PlvPersist

MCLeg     == [q \in QIDs |-> IF q = "in1" THEN "out1" ELSE "none"]
MCHandoff == [q \in QIDs |-> IF q = "in1" THEN 2 ELSE 0]
\* The first line of q2 carries a timestamp nothing could parse.
MCStamp ==
  [q \in QIDs |-> CASE q = "q2" -> <<0, 1>> [] q = "out1" -> <<2>> [] OTHER -> <<1, 1>>]
=============================================================================
