\* No crash: what is logged comes to be shown, and stays.
CONSTANTS
  Origins    = {"local", "node"}
  Local      = "local"
  QIDs       = {"in1", "out1", "q2"}
  NoQid      = "none"
  Leg        <- MCLeg
  Handoff    <- MCHandoff
  Stamp      <- MCStamp
  Scored     = {}
  MaxTime    = 1
  Retention  = FALSE
  Log        <- MCLog
  Node       = "node"
  Faults     = {"restart"}
  MaxFaults  = 2
SPECIFICATION LiveSpec
INVARIANT Conserved
PROPERTIES RowsOnlyGrow Delivers
CHECK_DEADLOCK FALSE
