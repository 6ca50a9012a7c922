\* Two requests at a time, with one key that may have older rows; one fault of any kind.
CONSTANTS
  h1 = h1
  h2 = h2
  r1 = r1
  k1 = k1
  Handlers <- TwoHandlers
  Recoverers <- OneRecoverer
  Keys <- OneKey
  LegacyKeys = {k1}
  Costs = {2, 3}
  Initial = 5
  Failures = {"prepare", "tx", "ack", "record", "cache", "renew", "crash"}
  MaxFaults = 1
SPECIFICATION FairSpec
CHECK_DEADLOCK FALSE
INVARIANTS
  ChargedOnceAsFrozen
  SettledIsPaid
  CheckpointIsHonest
  ReservedWithinBalance
PROPERTIES
  ImplementsUsageLedger
  IntentsAreSettled
