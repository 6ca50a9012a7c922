\* Two workers, one error or crash, codes that the admin may expire, a provider
\* that keeps delivering.
CONSTANTS
  w1 = w1
  w2 = w2
  Workers <- TwoWorkers
  MaxFaults = 1
  HasRebate = TRUE
  CodeAdmin = {"expire"}
SPECIFICATION FairSpec
CHECK_DEADLOCK FALSE
INVARIANTS
  GrantedAtMostOnce
  RebatedAtMostOnce
  CompletedIsGranted
  AckedIsSettled
PROPERTIES
  NeverReopened
  ImplementsLedger
  PaidIsSettled
