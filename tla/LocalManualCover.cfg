SPECIFICATION Spec
CONSTANTS
  c1 = c1
  c2 = c2
  c3 = c3
  Contents <- SomePdfs
  Null = Null
  MaxRuns = 2
  MaxFaults = 1
PROPERTIES
  ManualCoverKept
CHECK_DEADLOCK FALSE
