\* A leg that was sent before its primary stays listed.
CONSTANTS
  Origins    = {"local", "node"}
  Local      = "local"
  QIDs       = {"in1", "out1", "q2"}
  NoQid      = "none"
  Leg        <- MCLeg
  Handoff    <- MCHandoff
  Stamp      <- MCStamp
  Scored     = {}
  MaxTime    = 1
  Retention  = FALSE
  Log        <- MCLog
  Node       = "node"
  Faults     = {}
  MaxFaults  = 0
SPECIFICATION FSpec
INVARIANT NoLegListed
CHECK_DEADLOCK FALSE
