\* Numbers up to 2 are enough for the counterexample.
SPECIFICATION Spec
CONSTANTS
  Limit = 2
  Name = {"name"}
INVARIANTS
  FreedOnce
