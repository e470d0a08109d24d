CONSTANTS
  Sections = {"results", "liveGames"}
  Transient = {"liveGames"}
  Commands = {"finalize", "unpublish", "delete", "disable"}
  Faults = {"lost request", "lost answer"}
  MaxOutbox = 3
  MaxBacklog = 1
  MaxEditions = 3
  MaxRevision = 4
  None = None
SPECIFICATION FairSpec
INVARIANTS
  BarrierHolds
PROPERTIES
  PageConverges
  
  
CHECK_DEADLOCK FALSE
