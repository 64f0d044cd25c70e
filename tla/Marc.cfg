SPECIFICATION Spec
CONSTANTS
  Null = Null
  Item = "item"
  Asset = "asset"
  NewUid <- Uids
  Edits <- SomeEdits
  MaxOps = 3
  MaxSaves = 2
INVARIANTS
  ConfirmedStays
PROPERTIES
  ForeignFieldsKept
CHECK_DEADLOCK FALSE
