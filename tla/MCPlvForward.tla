---------------------------- MODULE MCPlvForward ----------------------------
(***************************************************************************)
(* A scanned message (in1, re-injected as out1), in the order a content    *)
(* filter that delivers at once leaves in the log, and a plain message q2. *)
(***************************************************************************)
EXTENDS PlvForward

MCLeg     == [q \in QIDs |-> IF q = "in1" THEN "out1" ELSE "none"]
MCHandoff == [q \in QIDs |-> IF q = "in1" THEN 2 ELSE 0]
MCStamp   == [q \in QIDs |-> IF q = "in1" THEN <<1, 1>> ELSE <<1>>]
MCLog     == <<"in1", "q2", "out1", "in1">>

\* Every message is one line.
MCShortLog     == <<"q2", "in1", "out1">>
MCShortStamp   == [q \in QIDs |-> <<1>>]
MCShortHandoff == [q \in QIDs |-> IF q = "in1" THEN 1 ELSE 0]
=============================================================================
