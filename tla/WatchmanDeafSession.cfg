\* The reader of a session fails and a file changes afterwards.
SPECIFICATION Spec
CONSTANTS
  s1 = s1
  s2 = s2
  Scopes = {s1, s2}
  Capacity = 1
  MaxUpsets = 2
INVARIANTS
  RestKnowsAll
CHECK_DEADLOCK FALSE
