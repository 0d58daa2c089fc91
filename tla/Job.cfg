\* Totals and progress up to 5.
SPECIFICATION JobSpec
CONSTANTS
  JobLimit = 5
INVARIANTS
  JobTypeOK
  ProgressWithinTotal
