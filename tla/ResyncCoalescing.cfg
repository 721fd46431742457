\* Requests, drops and failing scans in any order, fair scheduling.
SPECIFICATION FairSpec
CONSTANTS
  f1 = f1
  f2 = f2
  Files = {f1, f2}
  MaxLosses = 5
  MaxFailures = 2
INVARIANTS
  TypeOK
  RestIsInSync
  OverflowIsAttended
PROPERTIES
  LossIsRepaired
CHECK_DEADLOCK FALSE
