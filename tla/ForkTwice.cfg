\* A process and two children, no failure and no call of cluster_join().
SPECIFICATION Spec
CONSTANTS
  Procs = 3
  MaxEvents = 0
INVARIANTS
  Transferred
CHECK_DEADLOCK FALSE
