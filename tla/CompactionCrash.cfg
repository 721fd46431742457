\* Failing steps, failing restores and crashes in any order.
SPECIFICATION Spec
CONSTANTS
  w1 = w1
  w2 = w2
  w3 = w3
  Writes = {w1, w2, w3}
  MaxFaults = 2
  MaxCrashes = 3
INVARIANTS
  TypeOK
  WritesSurvive
  CompleteCopyExists
  OpenIsClean
PROPERTIES
  FailedRestoreLeavesCopy
  ImplementsStore
CHECK_DEADLOCK FALSE
