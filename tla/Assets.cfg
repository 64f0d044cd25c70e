SPECIFICATION FairSpec
CONSTANTS
  r1 = r1
  r2 = r2
  a1 = a1
  a2 = a2
  x = x
  None = None
  Records = {r1, r2}
  Assets = {a1, a2}
  Covers <- CoverSets
  Replacements = {x}
  Retention = 1
  MaxFaults = 1
  MaxOverrides = 1
INVARIANT
  LostOnlyIfCrossed
PROPERTIES
  ContentKept
  KeepsStore
  KeepsRows
  UnreferencedCollected
