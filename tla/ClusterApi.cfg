\* Numbers up to 3, every kind of cluster.
SPECIFICATION Spec
CONSTANTS
  Limit = 3
  Name = {"name"}
INVARIANTS
  TypeOK
  LeavesWhereJoined
  StaticFits
