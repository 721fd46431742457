\* One writer, the scan and one worker thread around the database thread.
SPECIFICATION Spec
CONSTANTS
  t1 = t1
  Versions = {1, 2}
  Threads = {t1}
  MaxUpsets = 1
INVARIANTS
  TypeOK
  RustOwnsFile
  StoreIsAtomic
  HandoverReconnects
  RefusalsHaveOwner
