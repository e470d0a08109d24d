CONSTANTS
  Rounds = {1, 2}
  RoundOf <- ThreeGames
  Rooms = {"hall", "gym"}
  FirstRoom <- ThreeRooms
  Bracket = {}
  Sessions = {s1}
  Scores = {x}
  Doubtful = {x}
  Commands = {"forfeit", "move", "associate"}
  Faults = {"poll fails"}
  MaxEntered = 1
  MaxResults = 1
  MaxFlights = 1
  None = None
SPECIFICATION Spec
INVARIANTS
  OneRoundAtATime
  
CHECK_DEADLOCK FALSE
