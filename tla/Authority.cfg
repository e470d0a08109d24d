CONSTANTS
  Rooms = {r1}
  Assignments <- OneIssue
  Matches = {"m"}
  NoMatch = "none"
  NoAssignment = NoAssignment
  Devices = {d1, d2}
  NoDevice = NoDevice
  Bodies = {b1}
  Finals <- NoFinals
  Threads = {t1, t2}
  Operations = {"open", "take", "refresh", "forget"}
  MaxSessions = 2
  MaxTokens = 3
  MaxSequence = 0
  MaxResults = 0
  Faults = {}
SYMMETRY DeviceSymmetry
SPECIFICATION Spec
INVARIANTS
  TypeOK
  OneSessionPerAssignment
  WriterAuthority
PROPERTIES
  NeverBackwards
