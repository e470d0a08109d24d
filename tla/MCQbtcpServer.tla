--------------------------- MODULE MCQbtcpServer ---------------------------
(***************************************************************************)
(* Instances of QbtcpServer for TLC: one room, one match "m" published     *)
(* under two revisions, and two different final documents for it.          *)
(***************************************************************************)
EXTENDS QbtcpServer, TLC

OneIssue == {[match |-> "m", revision |-> 1]}
TwoIssues == {[match |-> "m", revision |-> 1], [match |-> "m", revision |-> 2]}

NoFinals == {}
FirstIssueFinals == [match : {"m"}, revision : {1}, body : Bodies]

ThreadSymmetry == Permutations(Threads)
DeviceSymmetry == ThreadSymmetry \cup Permutations(Devices)
BodySymmetry == ThreadSymmetry \cup Permutations(Bodies)
=============================================================================
