\* Two members, of which the second may be passive, and one fault or change
\* of the first one's worker count.
SPECIFICATION Spec
CONSTANTS
  Node = {1, 2}
  MaxWorkers = 1
  MaxOwed = 1
  Resizing = {1}
  Active = {1, 2}
  Passive = {2}
  Version = 8
  MaxEvents = 1
INVARIANTS
  TypeOK
  HandleSafety
  ToldTheTruth
  WorkDivided
  NoGhost
  SchemaCurrent
PROPERTIES
  ImplementsMembership
CHECK_DEADLOCK FALSE
