\* Two refreshers, two requests of an admin, one fault.
CONSTANTS
  r1 = r1
  r2 = r2
  a1 = a1
  Refreshers <- TwoRefreshers
  Admins <- OneAdmin
  Kinds = {"edit", "reauth", "refresh"}
  MaxGen = 1
  MaxJobs = 2
  MaxFaults = 1
SPECIFICATION FairSpec
INVARIANTS
  TokenIsKept
  RevokedIsDead
  ReauthorizedIsKept
PROPERTY
  DueIsSettled
