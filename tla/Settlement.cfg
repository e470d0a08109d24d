CONSTANTS
  Rounds = {1}
  RoundOf <- OneGame
  Rooms = {"hall"}
  FirstRoom <- InHall
  Bracket = {}
  Sessions = {s1}
  Scores = {x, y}
  Doubtful = {y}
  Commands = {"cancel", "forfeit", "manual", "edit", "replace", "reopen", "drive"}
  Faults = {"session expires", "scorer falls silent", "host stops", "poll fails"}
  MaxEntered = 2
  MaxResults = 1
  MaxFlights = 1
  None = None
SPECIFICATION FairSpec
INVARIANTS
  TypeOK
  OneResult
  ExactlyOnce
PROPERTIES
  ResultKept
  CancelledIsFinal
  ResultsArrive
CHECK_DEADLOCK FALSE
