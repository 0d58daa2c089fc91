\* One member on its own, no faults.
SPECIFICATION FairSpec
CONSTANTS
  Node = {1}
  MaxWorkers = 1
  MaxOwed = 0
  Resizing = {1}
  Active = {1}
  Passive = {1}
  MaxChanges = 0
  MaxFaults = 0
  MaxEvents = 0
PROPERTIES
  LeaveAlwaysReturns
CHECK_DEADLOCK FALSE
