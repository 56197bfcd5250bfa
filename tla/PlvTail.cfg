\* Rotations, restarts and growth at any moment, or only at gentle ones.
CONSTANTS
  MaxLines     = 5
  MaxFiles     = 3
  MaxCrashes   = 1
  Forwarder    = TRUE
  Surroundings = {{}, {"boot", "rotation", "restart"}}
SPECIFICATION LiveSpec
INVARIANTS InOrderOnce NothingLeftBehind
PROPERTY GentleLinesRead
CHECK_DEADLOCK FALSE
