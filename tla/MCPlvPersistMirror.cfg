\* One writer: the table mirrors the store and a restart brings the rows back.
CONSTANTS
  Origins     = {"local"}
  Local       = "local"
  QIDs        = {"in1", "out1", "q2"}
  NoQid       = "none"
  Leg         <- MCLeg
  Handoff     <- MCHandoff
  Stamp       <- MCStamp
  Scored      = {}
  MaxTime     = 2
  Retention   = TRUE
  MaxFailures = 1
  MaxRestarts = 1
SPECIFICATION PSpec
INVARIANT Mirror
PROPERTY RestartKeepsRows
CHECK_DEADLOCK FALSE
