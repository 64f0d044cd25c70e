SPECIFICATION FairSpec
CONSTANTS
  f1 = f1
  f2 = f2
  p1 = p1
  p2 = p2
  F1 = F1
  F2 = F2
  P1 = P1
  P2 = P2
  plain = plain
  unoptimized = unoptimized
  None = None
  FileIds = {f1, f2}
  CoverIds = {p1}
  FileContents = {F1, F2}
  CoverContents = {P1}
  Options = {plain}
  DefaultOption = plain
  UserEdits <- EditsOfReferences
  MaxEdits = 2
  MaxFaults = 1
  MaxForces = 0
  MaxRemovals = 1
INVARIANTS
  CommittedPairsAreTrue
PROPERTIES
  UnfinishedCompletes
