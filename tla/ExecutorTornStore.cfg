\* The hand-over in the middle of a store.
SPECIFICATION Spec
CONSTANTS
  t1 = t1
  Versions = {1, 2}
  Threads = {}
  MaxUpsets = 0
INVARIANTS
  StoreIsAlwaysAtomic
