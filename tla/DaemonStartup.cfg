\* Two proxies, two daemons, and one death, failed barrier or stop command.
SPECIFICATION Spec
CONSTANTS
  p1 = p1
  p2 = p2
  d1 = d1
  d2 = d2
  Procs = {p1, p2}
  Daemons = {d1, d2}
  Locks = {1, 2, 3}
  MaxCrashes = 1
INVARIANTS
  TypeOK
  LockExcludes
  OneDaemon
  ServerIsFound
  StarterLockIsFree
  IdleDaemonLeaves
SYMMETRY Symmetry
CHECK_DEADLOCK FALSE
