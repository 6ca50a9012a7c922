\* Three operations at a time, each id used again; one failure or crash.
CONSTANTS
  w1 = w1
  w2 = w2
  w3 = w3
  Workers <- ThreeWorkers
  Operations = {"update", "rollback", "restart"}
  MaxFaults = 1
SPECIFICATION FairSpec
PROPERTIES
  RenewedLockIsRespected
  LockIsFreed
