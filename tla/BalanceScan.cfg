\* Every reply over three keys, with counts 0..2, for every own identifier.
SPECIFICATION Spec
CONSTANTS
  Id = {1, 2, 3}
  MaxWorkers = 2
  JsonValueType = "integer"
INVARIANTS
  TypeOK
  ComputesNumbering
  NoSharedIndexNoGap
CHECK_DEADLOCK FALSE
