\* Edits of one file at any pace.
SPECIFICATION Spec
CONSTANTS
  f1 = f1
  f2 = f2
  d1 = d1
  NoMutation = NoMutation
  Files = {f1}
  Dirs = {}
  FilesUnder <- NoDirs
  MaxRetryBudget = 1
  DeleteBatchSize = 2
  EventQueueMaxsize = 3
  MaxEdits = 4
  MaxFaults = 0
  FaultKinds = {}
  SpacedEdits = FALSE
  AccessKinds = {}
INVARIANTS
  BurstKeepsNewest
CHECK_DEADLOCK FALSE
