----------------------------- MODULE MCExecutor -----------------------------
(* The executor under an arbitrary client, which asks for a bounded number of *)
(* launches, with a bounded number of endings waiting to be recorded.         *)
EXTENDS Executor, TLC

CONSTANTS MaxLaunches, MaxRecording

BoundedClientStep ==
    \/ \E j \in Jobs, at \in At : issued < MaxLaunches /\ JobStart(j, at)
    \/ \E j \in Jobs : JobStop(j)
    \/ \E j \in Jobs, s \in Endings :
         Cardinality(recording) < MaxRecording /\ JobStopped(j, s)
    \/ JobSwap
    \/ \E t \in tasks : TakeEvent(t)
    \/ Shutdown

BoundedNext == InternalStep \/ BoundedClientStep \/ Crash \/ MoveOutput

Symmetry == Permutations(Jobs)
==============================================================================
