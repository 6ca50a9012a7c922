\* Two admins at a provider without refund query; everything but the audit log may fail.
CONSTANTS
  a1 = a1
  a2 = a2
  Admins <- TwoAdmins
  Amount = 2
  Amounts = {1, 2}
  MaxDeficit = 0
  MaxBalance = 5
  SupportsQuery = FALSE
  Failures = {"deduct", "gateway", "rollback", "mark", "crash"}
  MaxFaults = 2
  MaxAttempts = 3
SPECIFICATION Spec
CHECK_DEADLOCK FALSE
SYMMETRY AdminSymmetry
INVARIANTS
  DeductedAtMostOnce
  RefundIsExclusive
PROPERTY
  DoneIsFinal
