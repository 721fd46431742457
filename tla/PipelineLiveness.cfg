\* One file, one fault of any kind, fair scheduling.
SPECIFICATION FairSpec
CONSTANTS
  f1 = f1
  f2 = f2
  d1 = d1
  NoMutation = NoMutation
  Files = {f1}
  Dirs = {}
  FilesUnder <- NoDirs
  MaxRetryBudget = 1
  DeleteBatchSize = 2
  EventQueueMaxsize = 3
  MaxEdits = 4
  MaxFaults = 1
  FaultKinds = {"busy_change", "busy_delete", "conflict", "error", "rejected"}
  SpacedEdits = TRUE
  AccessKinds = {"existing", "unlinked"}
PROPERTIES
  PendingIsServed
  ComesToRest
CHECK_DEADLOCK FALSE
