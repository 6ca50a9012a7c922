\* Two operations, one after the other; nothing fails.
CONSTANTS
  w1 = w1
  w2 = w2
  w3 = w3
  Workers <- TwoWorkers
  Operations = {"update", "rollback"}
  MaxFaults = 0
SPECIFICATION Spec
INVARIANT
  OperationsAreExclusive
