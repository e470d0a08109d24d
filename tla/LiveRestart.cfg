CONSTANTS
  Sections = {"results", "liveGames"}
  Transient = {"liveGames"}
  Commands = {"unpublish"}
  Faults = {"late request", "crash"}
  MaxOutbox = 3
  MaxBacklog = 1
  MaxEditions = 2
  MaxRevision = 2
  None = None
SPECIFICATION Spec
PROPERTIES
  OnlyBarriersSent
  RevisionNeverDecreases
CHECK_DEADLOCK FALSE
