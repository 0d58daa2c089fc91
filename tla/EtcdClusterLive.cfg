\* Two members, and either a change of a worker count or a fault, under the
\* fairness of the threads.
SPECIFICATION FairSpec
CONSTANTS
  Node = {1, 2}
  MaxWorkers = 1
  MaxOwed = 0
  Resizing = {1, 2}
  Active = {1, 2}
  Passive = {}
  MaxChanges = 1
  MaxFaults = 1
  MaxEvents = 1
PROPERTIES
  Converges
  LeaveReturnsInCompany
CHECK_DEADLOCK FALSE
