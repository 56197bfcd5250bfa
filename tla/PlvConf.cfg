CONSTANTS
 Receiver = "rcv"
 Nodes = {"node"}
 MaxCAs = 2
 MaxRelease = 2
 MaxIssued = 0
 MaxFaults = 1
 InitMayDie = FALSE
 MaxEdits = 2
 MaxLate = 1
SPECIFICATION LiveSpec
PROPERTY ReceiverHasConf
INVARIANT EnrolledIsWhole ConfBeforeRows
CHECK_DEADLOCK FALSE
