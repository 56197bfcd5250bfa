\* A forwarder resumes in a log that was rotated since the checkpoint.
CONSTANTS
  MaxLines     = 4
  MaxFiles     = 3
  MaxCrashes   = 1
  Forwarder    = TRUE
  Surroundings = {{"boot", "rotation"}}
SPECIFICATION LiveSpec
PROPERTY EveryLineRead
CHECK_DEADLOCK FALSE
