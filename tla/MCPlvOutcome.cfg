\* Parts, leg and verdict in any order: the outcome is that of the whole.
CONSTANTS
  Log       <- MCLog
  Filters   = {"none", "accept"}
  Actions   = {"none", "reject", "add header"}
SPECIFICATION Spec
INVARIANTS TypeOK StatusIsLatest LegDecides BadgeIsTruth
PROPERTY VerdictStands
CHECK_DEADLOCK FALSE
