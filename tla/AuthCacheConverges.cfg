\* Two servers; the key is deleted while something goes wrong.
CONSTANTS
  s1 = s1
  s2 = s2
  Servers <- TwoServers
  MaxVersion = 1
  Absent = {1}
  MaxFaults = 1
SPECIFICATION FairSpec
INVARIANTS
  DrainedIsFresh
PROPERTY
  Converges
