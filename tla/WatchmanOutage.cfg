\* Changes, faults of every kind, reconnects and a stop at any moment.
SPECIFICATION FairSpec
CONSTANTS
  s1 = s1
  s2 = s2
  Scopes = {s1, s2}
  Capacity = 1
  MaxUpsets = 2
INVARIANTS
  TypeOK
  LossIsFollowed
  OutageIsAttended
  StoppedIsQuiet
PROPERTIES
  OutageEnds
  StopReturns
CHECK_DEADLOCK FALSE
