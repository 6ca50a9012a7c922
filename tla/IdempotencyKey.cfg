\* Two requests at a time, two payloads, two failed statements or crashes.
CONSTANTS
  w1 = w1
  w2 = w2
  Workers <- TwoWorkers
  Payloads = {"a", "b"}
  MaxFaults = 2
SPECIFICATION FairSpec
INVARIANTS
  KeyIsExclusive
  SucceededIsDone
PROPERTY
  KeyIsFreed
