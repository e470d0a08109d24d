-------------------------- MODULE MCResultSettlement --------------------------
(* Rounds and games for model checking ResultSettlement.                   *)
EXTENDS ResultSettlement

OneGame == [a |-> 1]
TwoRounds == [a |-> 1, b |-> 2]
SameRoom == [a |-> "hall", b |-> "hall"]
OwnRooms == [a |-> "hall", b |-> "gym"]
ThreeGames == [a |-> 1, b |-> 1, c |-> 2]
ThreeRooms == [a |-> "hall", b |-> "gym", c |-> "hall"]
InHall == [a |-> "hall"]
=============================================================================
