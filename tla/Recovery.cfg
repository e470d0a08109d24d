CONSTANTS
  Layers = {"checkpoints", "files"}
  Anchors = {"start", "halftime"}
  Folders = {"A", "B"}
  Faults = {"write fails", "permission lost", "settings not stored", "clock set back", "reload"}
  MaxRolling = 1
  MaxAnchors = 2
  MaxSnapshots = 3
  None = None
SPECIFICATION Spec
INVARIANTS
  SavedIsKept
  ReadyMeansBackedUp
CHECK_DEADLOCK FALSE
