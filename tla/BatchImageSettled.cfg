\* Two workers, cancels, one fault of any kind.
CONSTANTS
  w1 = w1
  w2 = w2
  Workers <- TwoWorkers
  Hold = 1
  Others = 1
  MaxReady = 2
  MaxRetries = 2
  Failures = {"claim", "ack", "lost", "db", "provider", "redis", "slow", "lock", "crash"}
  MaxFaults = 1
SPECIFICATION FairSpec
CHECK_DEADLOCK FALSE
INVARIANTS
  TypeOK
  FrozenIsHeld
  WorkIsBacked
  HoldIsReturned
  InflightIsQueued
PROPERTIES
  NeverRevived
  QueuedIsFinished
