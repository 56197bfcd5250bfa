---------------------------- MODULE MCPlvOutcome ----------------------------
(***************************************************************************)
(* A message that is deferred once, then handed to the filter (or sent),   *)
(* and a leg that is deferred once before it reaches the mailbox.          *)
(***************************************************************************)
EXTENDS PlvOutcome

L(q, kind) == [q |-> q, kind |-> kind]
MCLog ==
  <<L("main", "queued"), L("main", "deferred"), L("filter", "other"),
    L("leg", "queued"), L("main", "handoff"), L("leg", "deferred"),
    L("main", "other"), L("leg", "saved"), L("leg", "other")>>

\* The leg is in its mailbox before Postfix logs that the filter took the message.
MCEarlyLegLog ==
  <<L("main", "queued"), L("main", "deferred"), L("filter", "other"),
    L("leg", "queued"), L("leg", "saved"), L("leg", "other"),
    L("main", "handoff"), L("main", "other")>>
=============================================================================
