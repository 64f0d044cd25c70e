SPECIFICATION FairSpec
CONSTANTS
  b1 = b1
  e1 = e1
  e2 = e2
  d1 = d1
  Null = Null
  Batches = {b1}
  Exports = {e1, e2}
  Removals = {d1}
  Texts <- Lists
  Widths = {1, 2}
  HttpThreads = 1
  MaxPolls = 2
  MaxFaults = 1
INVARIANTS
  SuccessMeansAllDone
  ExportLockFollowsRun
PROPERTIES
  EverythingEnds
CHECK_DEADLOCK FALSE
