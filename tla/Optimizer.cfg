SPECIFICATION FairSpec
CONSTANTS
  a1 = a1
  a2 = a2
  Null = Null
  Attempts = {a1, a2}
  RasterAttempts = {a1}
  GsTimeout = 1
  PdfinfoTimeout = 1
  ClientTimeout = 2
  UploadTime = 1
  TTL = 3
  Source <- Sources
  MaxFaults = 1
INVARIANTS
  UploadIsUsable
PROPERTIES
  GivesUpOnlyWhenLate
  AbandonedNeverRun
  TempFilesGo
