\* The restore after a failed compaction fails too.
SPECIFICATION Spec
CONSTANTS
  w1 = w1
  w2 = w2
  w3 = w3
  Writes = {w1, w2, w3}
  MaxFaults = 2
  MaxCrashes = 1
INVARIANTS
  NamedBackupIsKept
CHECK_DEADLOCK FALSE
