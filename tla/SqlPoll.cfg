\* The rows of two members; a poll every two seconds, a balancing at least
\* every three, and rows that live for four.
SPECIFICATION Spec
CONSTANTS
  Node = {1, 2}
  MaxWorkers = 1
  TTL = 4
  Poll = 2
  MaxWait = 3
INVARIANTS
  TypeOK
  KeepsUp
