\* A leg that arrives after a purge is folded into whatever row took the primary's place.
CONSTANTS
  Origins   = {"local"}
  Local     = "local"
  QIDs      = {"in1", "out1", "q2", "q3"}
  NoQid     = "none"
  Leg       <- MCLeg
  Handoff   <- MCHandoff
  Stamp     <- MCStamp
  Scored    = {"in1", "q2"}
  MaxTime   = 2
  Retention = TRUE
SPECIFICATION Spec
CHECK_DEADLOCK FALSE
INVARIANT NoForeignLines
