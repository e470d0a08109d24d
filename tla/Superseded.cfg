CONSTANTS
  Rooms = {r1}
  Assignments <- TwoIssues
  Matches = {"m"}
  NoMatch = "none"
  NoAssignment = NoAssignment
  Devices = {d1}
  NoDevice = NoDevice
  Bodies = {b1}
  Finals <- NoFinals
  Threads = {t1, t2}
  Operations = {"open"}
  MaxSessions = 2
  MaxTokens = 2
  MaxSequence = 0
  MaxResults = 0
  Faults = {}
SPECIFICATION FairSpec
PROPERTIES
  SupersededSessionsClose
