\* Retention on: what a purge keeps and what it must leave intact.
CONSTANTS
  Origins   = {"local"}
  Local     = "local"
  QIDs      = {"in1", "out1", "q2", "q3"}
  NoQid     = "none"
  Leg       <- MCLeg
  Handoff   <- MCHandoff
  Stamp     <- MCStamp
  Scored    = {"in1", "q2"}
  MaxTime   = 2
  Retention = TRUE
SPECIFICATION Spec
INVARIANTS TypeOK IndexInRange
PROPERTIES PurgeReindexes LinesVanishOnlyByAge
CHECK_DEADLOCK FALSE
