CONSTANTS
  Contenders = {1, 2}
  Scopes = {"game", "document", "lock", "mixed"}
  Punctual = {TRUE, FALSE}
  Faults = {"claim ages", "channel breaks", "tab closes"}
  MaxEdits = 2
  None = None
SPECIFICATION FairSpec
INVARIANTS
  TypeOK
  OneHolderWhenSettled
  SomeoneHolds
PROPERTIES
  HolderKept
  CatalogKeepsEdits
  TwoHoldersEnd
CHECK_DEADLOCK FALSE
