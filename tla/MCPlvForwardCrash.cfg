\* Crashes, restarts, late handlers, failed upserts: the receiver's rows stay apart and unique.
CONSTANTS
  Origins    = {"local", "node"}
  Local      = "local"
  QIDs       = {"in1", "out1", "q2"}
  NoQid      = "none"
  Leg        <- MCLeg
  Handoff    <- MCShortHandoff
  Stamp      <- MCShortStamp
  Scored     = {"in1"}
  MaxTime    = 1
  Retention  = FALSE
  Log        <- MCShortLog
  Node       = "node"
  Faults     = {"crash", "restart", "late", "upsert"}
  MaxFaults  = 1
SPECIFICATION FSpec
INVARIANTS ReceiverDedupes ReceiverKeepsApart
CHECK_DEADLOCK FALSE
