\* The admin deletes the redeem code of an order.
CONSTANTS
  w1 = w1
  w2 = w2
  Workers <- TwoWorkers
  MaxFaults = 1
  HasRebate = TRUE
  CodeAdmin = {"delete"}
SPECIFICATION Spec
CHECK_DEADLOCK FALSE
INVARIANT
  GrantedAtMostOnce
