CONSTANTS
  Rooms = {r1}
  Assignments <- OneIssue
  Matches = {"m"}
  NoMatch = "none"
  NoAssignment = NoAssignment
  Devices = {d1}
  NoDevice = NoDevice
  Bodies = {b1, b2}
  Finals <- FirstIssueFinals
  Threads = {t1, t2}
  Operations = {"open", "result"}
  MaxSessions = 2
  MaxTokens = 2
  MaxSequence = 0
  MaxResults = 2
  Faults = {"result write"}
SYMMETRY BodySymmetry
SPECIFICATION Spec
INVARIANTS
  OneUnreviewedResultPerMatch
  NeverRetainedTwice
  ReceiptIsDurable
