\* A file in a directory that is moved; database busy for changes.
SPECIFICATION Spec
CONSTANTS
  f1 = f1
  f2 = f2
  d1 = d1
  NoMutation = NoMutation
  Files = {f1}
  Dirs = {d1}
  FilesUnder <- OneDir
  MaxRetryBudget = 1
  DeleteBatchSize = 2
  EventQueueMaxsize = 3
  MaxEdits = 5
  MaxFaults = 1
  FaultKinds = {"busy_change"}
  SpacedEdits = TRUE
  AccessKinds = {"existing"}
INVARIANTS
  QuiescentInStep
  
CHECK_DEADLOCK FALSE
