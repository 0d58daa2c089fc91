\* Two members, one of which joins passively, a change of the other's worker
\* count (to -1, 0 or 1) and a fault.
SPECIFICATION Spec
CONSTANTS
  Node = {1, 2}
  MaxWorkers = 1
  MaxOwed = 1
  Resizing = {1}
  Active = {1}
  Passive = {2}
  MaxChanges = 1
  MaxFaults = 1
  MaxEvents = 2
INVARIANTS
  TypeOK
  HandleSafety
  ToldTheTruth
  WorkDivided
  NoGhost
PROPERTIES
  OnlyJoinCreates
  ImplementsMembership
CHECK_DEADLOCK FALSE
