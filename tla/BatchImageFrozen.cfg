\* A cancel between the creation of the job and the reservation of its hold; nothing fails.
CONSTANTS
  w1 = w1
  w2 = w2
  Workers <- OneWorker
  Hold = 1
  Others = 1
  MaxReady = 2
  MaxRetries = 2
  Failures = {}
  MaxFaults = 0
SPECIFICATION Spec
CHECK_DEADLOCK FALSE
INVARIANT
  NothingStaysFrozen
