\* A process that is a member or not, and two descendants; one call of
\* cluster_join() or one failure.
SPECIFICATION FairSpec
CONSTANTS
  Procs = 3
  MaxEvents = 1
INVARIANTS
  TypeOK
  Withdrawn
  Succession
PROPERTIES
  HandedOver
CHECK_DEADLOCK FALSE
