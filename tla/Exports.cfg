SPECIFICATION FairSpec
CONSTANTS
  b1 = b1
  b2 = b2
  e1 = e1
  e2 = e2
  w1 = w1
  w2 = w2
  NoRun = NoRun
  Biblios = {b1, b2}
  Runs = {e1, e2}
  Workers = {w1, w2}
  MaxRetries = 2
  MaxFaults = 2
  MaxOverlaps = 1
INVARIANTS
  StagesAreTrue
  RunEmailedOncePerTrouble
  BiblioEmailedOncePerFault
PROPERTIES
  StatusMovesForward
  StagedRunsEnd
