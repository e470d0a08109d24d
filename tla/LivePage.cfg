CONSTANTS
  Sections = {"results", "liveGames"}
  Transient = {"liveGames"}
  Commands = {}
  Faults = {"lost request", "lost answer"}
  MaxOutbox = 3
  MaxBacklog = 3
  MaxEditions = 4
  MaxRevision = 4
  None = None
SPECIFICATION Spec
INVARIANTS
  TypeOK
  DurableMeansPublished
PROPERTIES
  ImplementsPublicPage
CHECK_DEADLOCK FALSE
