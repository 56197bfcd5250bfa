----------------------------- MODULE PlvDelivery -----------------------------
(***************************************************************************)
(* What the distributed mode promises while no forwarder dies: every line  *)
(* Postfix logs on a node comes to be shown by the receiver for good, and  *)
(* the receiver shows nothing that was not logged.  What its database      *)
(* keeps it shows, before and after a restart.                             *)
(***************************************************************************)
CONSTANT Lines

VARIABLES
  logged,  \* the lines in the node's log
  shown,   \* the lines the receiver lists
  kept     \* those of them that a restart brings back

vars == <<logged, shown, kept>>

Init == logged \subseteq Lines /\ shown = {} /\ kept = {}

LogLines ==
  /\ \E l \in Lines \ logged : logged' = logged \cup {l}
  /\ UNCHANGED <<shown, kept>>

Show ==
  /\ \E new \in SUBSET (logged \ shown) : shown' = shown \cup new
  /\ UNCHANGED <<logged, kept>>

Keep ==
  /\ \E new \in SUBSET (shown \ kept) : kept' = kept \cup new
  /\ UNCHANGED <<logged, shown>>

Restart == shown' = kept /\ UNCHANGED <<logged, kept>>

Next == LogLines \/ Show \/ Keep \/ Restart

AllShown == \A l \in Lines : <>[](l \in logged => l \in shown)

Safety == Init /\ [][Next]_vars

Spec == Safety /\ AllShown
=============================================================================
