--------------------------- MODULE MCScorerSession ---------------------------
(* The devices for model checking ScorerSession: d1 scores, d2 may join and *)
(* take over.                                                              *)
EXTENDS ScorerSession

CONSTANTS d1, d2
OneDevice == {d1}
TwoDevices == {d1, d2}
Once == [d \in Devices |-> IF d = d1 THEN 1 ELSE 0]
Twice == [d \in Devices |-> IF d = d1 THEN 2 ELSE 0]
BothOnce == [d \in Devices |-> 1]
=============================================================================
