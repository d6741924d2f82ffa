------------------------------ MODULE JobStatus ------------------------------
(***************************************************************************)
(* The status a sled reports for one job, and how one job event changes    *)
(* it.  Models JobStatus (common/src/jobs.rs) and the status transitions   *)
(* of State::handle_event (server/src/state.rs).  Times, results, output   *)
(* hashes, actors and skip reasons are dropped; of the errors only         *)
(* ProcessError::Interrupted is told apart, because only it can be         *)
(* displaced.                                                              *)
(***************************************************************************)

\* A status that is_terminal.
Terminal == {"cancelled", "error", "interrupted", "stopped", "skipped"}

\* "none" stands for the absence of an entry in the status map.
Status == {"none", "queued", "started"} \cup Terminal

\* The job events a sled announces ("interrupted" is Error(Interrupted)).
EventKind == {"start", "stop", "error", "interrupted", "skipped"}

Unsettled == Status \ Terminal

\* A start never displaces a terminal status.
OnStart(old) == IF old \in Terminal THEN old ELSE "started"

\* The real result of a started job, or of one declared interrupted.
OnStop(old) == IF old \in {"started", "interrupted"} THEN "stopped" ELSE old

\* An error or a skip never displaces a terminal status.
OnEnd(old, new) == IF old \in Unsettled THEN new ELSE old

OnEvent(old, kind) ==
    CASE kind = "start" -> OnStart(old)
      [] kind = "stop"  -> OnStop(old)
      [] OTHER          -> OnEnd(old, kind)

\* What BoundaryStore::record_status lets a new ending displace.
Displaces(old, new) ==
    \/ old = "none"
    \/ old = "interrupted" /\ new = "stopped"
==============================================================================
