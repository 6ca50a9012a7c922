\* Two admins at a provider with refund query; two amounts, everything may fail.
CONSTANTS
  a1 = a1
  a2 = a2
  Admins <- TwoAdmins
  Amount = 2
  Amounts = {1, 2}
  MaxDeficit = 1
  MaxBalance = 3
  SupportsQuery = TRUE
  Failures = {"deduct", "gateway", "rollback", "audit", "mark", "crash", "ack"}
  MaxFaults = 2
  MaxAttempts = 3
SPECIFICATION Spec
CHECK_DEADLOCK FALSE
SYMMETRY AdminSymmetry
INVARIANTS
  TypeOK
  DeductedTwiceOnlyIfStuck
  RefundedIsPaidOut
  NeverEnriched
PROPERTY
  NeverOverdrawn
