SPECIFICATION Spec
CONSTANTS
  f1 = f1
  f2 = f2
  p1 = p1
  p2 = p2
  F1 = F1
  F2 = F2
  P1 = P1
  P2 = P2
  plain = plain
  unoptimized = unoptimized
  None = None
  FileIds = {f1, f2}
  CoverIds = {p1, p2}
  FileContents = {F1, F2}
  CoverContents = {P1, P2}
  Options = {plain}
  DefaultOption = plain
  UserEdits <- EditsButUnlink
  MaxEdits = 2
  MaxFaults = 2
  MaxForces = 1
  MaxRemovals = 0
SYMMETRY Symmetry
INVARIANTS
  LinkNeverDangles
  ConfirmedPdfIsLinked
  ConfirmedCoverIsShown
  CheckpointHolds
PROPERTIES
  ReplacementLeavesOneCopy
  OldKeptUntilReplaced
  Replaces
  KeepsRow
