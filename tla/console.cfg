SPECIFICATION Spec
CONSTANTS
  Payloads = {one, another}
  MaxPresses = 2
  Persistent = {"deposit"}
CONSTRAINTS
  FailuresFollowed
  Explored
INVARIANTS
  ReportedIsDone
  OwnWritesSeen
PROPERTIES
  PressedOnce
  RefusedOnlyAfterFailure
SYMMETRY Fillings
CHECK_DEADLOCK FALSE
