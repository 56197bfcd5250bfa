\* Both writers, two restarts: parsing again ends in the same rows.
CONSTANTS
  Origins     = {"local"}
  Local       = "local"
  QIDs        = {"in1", "out1", "q2", "q3"}
  NoQid       = "none"
  Leg         <- MCLeg
  Handoff     <- MCHandoff
  Stamp       <- MCStamp
  Scored      = {"q2"}
  MaxTime     = 2
  Retention   = FALSE
  MaxFailures = 0
  MaxRestarts = 2
SPECIFICATION PSpec
INVARIANTS NoForeignLines ShownOnce EveryIdResolves OneItemPerMessage HeldOnlyUntilSeen
CHECK_DEADLOCK FALSE
