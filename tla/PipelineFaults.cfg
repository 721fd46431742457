\* Two files, every kind of fault, a full event queue, edits at any pace.
SPECIFICATION Spec
CONSTANTS
  f1 = f1
  f2 = f2
  d1 = d1
  NoMutation = NoMutation
  Files = {f1, f2}
  Dirs = {}
  FilesUnder <- NoDirs
  MaxRetryBudget = 1
  DeleteBatchSize = 2
  EventQueueMaxsize = 1
  MaxEdits = 4
  MaxFaults = 1
  FaultKinds = {"busy_change", "busy_delete", "conflict", "error", "rejected"}
  SpacedEdits = FALSE
  AccessKinds = {"existing", "unlinked"}
INVARIANTS
  TypeOK
  PendingIsCarried
  OneChangePerFile
  ReservedIsDrained
PROPERTIES
  DeleteRespectsGeneration
CHECK_DEADLOCK FALSE
