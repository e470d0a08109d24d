CONSTANTS
  d1 = d1
  d2 = d2
  Devices <- TwoDevices
  Faults = {"second device", "answer lost", "clock set back", "session forgotten", "tab reloaded", "corrected", "token expired"}
  MaxScores <- Once
  MaxFaults = 2
  MaxSends = 2
  None = None
SPECIFICATION FairSpec
INVARIANTS
  TypeOK
  AcknowledgedIsKept
PROPERTIES
  ReceiptStands
  PendingIsRetried
CHECK_DEADLOCK FALSE
