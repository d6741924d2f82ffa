------------------------------ MODULE MCManager ------------------------------
(* Two sleds and two jobs, over a history with room for one. *)
EXTENDS Manager

TwoSleds == {"here", "there"}
TwoTargets == [j \in 1 .. 2 |-> IF j = 1 THEN TwoSleds ELSE {"here"}]
TwoJobs == 1 .. 2
==============================================================================
