SPECIFICATION Spec
CONSTANTS
  c1 = c1
  c2 = c2
  c3 = c3
  Contents <- SomePdfs
  Null = Null
  MaxRuns = 3
  MaxFaults = 2
SYMMETRY Pdfs
INVARIANTS
  OneItem
  ImportedHasPdf
PROPERTIES
  FilesKept
CHECK_DEADLOCK FALSE
