CONSTANTS
  Rooms = {r1}
  Assignments <- OneIssue
  Matches = {"m"}
  NoMatch = "none"
  NoAssignment = NoAssignment
  Devices = {d1, d2}
  NoDevice = NoDevice
  Bodies = {b1, b2}
  Finals <- FirstIssueFinals
  Threads = {t1}
  Operations = {"open", "take", "progress", "result", "abandon"}
  MaxSessions = 1
  MaxTokens = 2
  MaxSequence = 2
  MaxResults = 2
  Faults = {"vault write"}
SYMMETRY BodySymmetry
SPECIFICATION Spec
INVARIANTS
  AcknowledgedIsSaved
PROPERTIES
  ImplementsLedger
  NeverBackwards
