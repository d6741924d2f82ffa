------------------------------ MODULE Executor ------------------------------
(***************************************************************************)
(* The executor of one sled and the durable boundary record it writes      *)
(* before every launch: server/src/executor.rs and                         *)
(* server/src/locker/boundary.rs.                                          *)
(*                                                                         *)
(* The state manager (module Sled, or any client here) calls JobStart,     *)
(* JobStop, JobStopped and JobSwap; the launcher task, one task per job    *)
(* and one task per status to record run beside it.  A process crash       *)
(* loses everything but the disk: the boundary record and the job output   *)
(* files.                                                                  *)
(*                                                                         *)
(* The locker underneath is used through its contract: a store that        *)
(* returns Ok has the new record in every slot; a store that fails may or  *)
(* may not have left the new record where the next load finds it.          *)
(***************************************************************************)
EXTENDS Naturals, Sequences, FiniteSets, JobStatus

CONSTANTS
    Jobs,            \* job ids
    At,              \* what else a boundary record holds: the universe, the
                     \* session and the successor position
    LaunchCapacity,  \* LAUNCH_CHANNEL_CAPACITY
    Endings,         \* the terminal statuses a client reports
    Faults           \* which of "store", "load", "spawn", "join" may fail, and
                     \* whether the "output" directory may move

ASSUME ExecutorAssumption ==
    /\ LaunchCapacity \in Nat \ {0}
    /\ Endings \subseteq Terminal
    /\ Faults \subseteq {"store", "load", "spawn", "join", "output"}

VARIABLES
    open,      \* the events sender is still there (no shutdown yet)
    issued,    \* how many launches were ever asked for (numbers the tasks)
    inflight,  \* the keys of Executor::stop
    launch,    \* the launch channel
    tasks,     \* one entry per job task, with the events it has yet to send
    boundary,  \* BoundaryStore::boundary, the record in memory
    disk,      \* the record a load would find
    recording, \* the spawned record_status tasks
    files,     \* jobs with output files in the current output directory
    newest,    \* history: the number of the newest launch that ran a process
    ran        \* history: how many processes were spawned for each job

executorVars ==
    <<open, issued, inflight, launch, tasks, boundary, disk, recording,
      files, newest, ran>>

NoRecord == [n |-> 0]

Launch == [n : Nat \ {0}, job : Jobs, at : At]

Boundary == [n : Nat \ {0}, job : Jobs, at : At, status : {"none"} \cup Terminal]

\* The events a task of each stage may have yet to send, oldest first.
Unsent ==
    [spawning |-> {<<>>},
     running  |-> {<<>>, <<"start">>},
     over     |-> {<<"stop">>, <<"error">>, <<"start", "stop">>,
                   <<"start", "error">>}]

Stages == {"spawning", "running", "over"}

Task ==
    {t \in [n : Nat \ {0}, job : Jobs, at : At, stage : Stages,
            unsent : UNION {Unsent[s] : s \in Stages}] :
       t.unsent \in Unsent[t.stage]}

Ending == [job : Jobs, status : Terminal]

\* The executor's variables always have the shapes declared above.
ExecutorTypeOK ==
    /\ open \in BOOLEAN
    /\ issued \in Nat
    /\ inflight \subseteq Jobs
    /\ launch \in Seq(Launch)
    /\ tasks \subseteq Task
    /\ boundary \in Boundary \cup {NoRecord}
    /\ disk \in Boundary \cup {NoRecord}
    /\ recording \subseteq Ending
    /\ files \subseteq Jobs
    /\ newest \in Nat
    /\ ran \in [Jobs -> Nat]

ExecutorInit ==
    /\ open = TRUE
    /\ issued = 0
    /\ inflight = {}
    /\ launch = <<>>
    /\ tasks = {}
    /\ boundary = NoRecord
    /\ disk = NoRecord
    /\ recording = {}
    /\ files = {}
    /\ newest = 0
    /\ ran = [j \in Jobs |-> 0]

storeVars == <<boundary, disk, recording>>
processVars == <<files, newest, ran>>

------------------------------------------------------------------------------
(* Calls of the state manager. *)

TaskOf(l, stage, unsent) ==
    [n |-> l.n, job |-> l.job, at |-> l.at, stage |-> stage, unsent |-> unsent]

\* A task with nothing left to do but to report an error.
FailedTask(l) == TaskOf(l, "over", <<"error">>)

\* Executor::job_start: queue the job, or refuse it when the queue is full.
\* After shutdown took the events sender nothing starts.
JobStart(j, at) ==
    /\ IF ~open
       THEN UNCHANGED <<issued, inflight, launch, tasks>>
       ELSE LET l == [n |-> issued + 1, job |-> j, at |-> at] IN
            /\ issued' = issued + 1
            /\ IF Len(launch) < LaunchCapacity
               THEN /\ inflight' = inflight \cup {j}
                    /\ launch' = Append(launch, l)
                    /\ UNCHANGED tasks
               ELSE /\ inflight' = inflight \ {j}
                    /\ tasks' = tasks \cup {FailedTask(l)}
                    /\ UNCHANGED launch
    /\ UNCHANGED <<open, storeVars, processVars>>

\* Executor::job_stop: cancel the job's token and forget it.
JobStop(j) ==
    /\ inflight' = inflight \ {j}
    /\ UNCHANGED <<open, issued, launch, tasks, storeVars, processVars>>

\* Output::Ran: forget the token and record the ending from a new task.
JobStopped(j, status) ==
    /\ inflight' = inflight \ {j}
    /\ recording' = recording \cup {[job |-> j, status |-> status]}
    /\ UNCHANGED <<open, issued, launch, tasks, boundary, disk, processVars>>

\* A universe swap stops every job whose token is held.
JobSwap ==
    /\ inflight' = {}
    /\ UNCHANGED <<open, issued, launch, tasks, storeVars, processVars>>

\* The manager receives the next event of task t.
TakeEvent(t) ==
    /\ t \in tasks
    /\ t.unsent # <<>>
    /\ LET rest == Tail(t.unsent) IN
       tasks' = (tasks \ {t})
                  \cup (IF t.stage = "over" /\ rest = <<>>
                        THEN {} ELSE {[t EXCEPT !.unsent = rest]})
    /\ UNCHANGED <<open, issued, inflight, launch, storeVars, processVars>>

\* Shutdown takes the events sender.
Shutdown ==
    /\ open
    /\ open' = FALSE
    /\ UNCHANGED <<issued, inflight, launch, tasks, storeVars, processVars>>

------------------------------------------------------------------------------
(* The executor's own tasks. *)

RecordOf(l) == [n |-> l.n, job |-> l.job, at |-> l.at, status |-> "none"]

\* Mutant of Advance: the copy in memory is not updated.
AdvanceOnDiskOnly ==
    /\ launch # <<>>
    /\ LET l == Head(launch) IN
       /\ disk' = RecordOf(l)
       /\ tasks' = tasks \cup {TaskOf(l, "spawning", <<>>)}
    /\ launch' = Tail(launch)
    /\ UNCHANGED <<open, issued, inflight, boundary, recording, processVars>>

\* Mutant of Advance: any queued launch may go first.
AdvanceOutOfOrder ==
    \E i \in DOMAIN launch :
      LET l == launch[i] IN
      /\ disk' = RecordOf(l)
      /\ boundary' = RecordOf(l)
      /\ tasks' = tasks \cup {TaskOf(l, "spawning", <<>>)}
      /\ launch' = SubSeq(launch, 1, i - 1) \o SubSeq(launch, i + 1, Len(launch))
      /\ UNCHANGED <<open, issued, inflight, recording, processVars>>

\* The launcher commits the boundary record, then spawns the job's task.
Advance ==
    /\ launch # <<>>
    /\ LET l == Head(launch) IN
       /\ disk' = RecordOf(l)
       /\ boundary' = RecordOf(l)
       /\ tasks' = tasks \cup {TaskOf(l, "spawning", <<>>)}
    /\ launch' = Tail(launch)
    /\ UNCHANGED <<open, issued, inflight, recording, processVars>>

\* A boundary that cannot be written means the job must not run.
AdvanceFails ==
    /\ "store" \in Faults
    /\ launch # <<>>
    /\ LET l == Head(launch) IN
       /\ disk' \in {disk, RecordOf(l)}
       /\ tasks' = tasks \cup {FailedTask(l)}
    /\ launch' = Tail(launch)
    /\ UNCHANGED <<open, issued, inflight, boundary, recording, processVars>>

\* job_spawn creates the output files (create_new) and spawns the process.
Spawn(t) ==
    /\ t \in tasks
    /\ t.stage = "spawning"
    /\ t.job \notin files
    /\ files' = files \cup {t.job}
    /\ ran' = [ran EXCEPT ![t.job] = @ + 1]
    /\ newest' = IF t.n > newest THEN t.n ELSE newest
    /\ tasks' = (tasks \ {t})
                  \cup {[t EXCEPT !.stage = "running", !.unsent = <<"start">>]}
    /\ UNCHANGED <<open, issued, inflight, launch, storeVars>>

\* An invalid request, an existing output file or an I/O error: no process.
SpawnFails(t) ==
    /\ t \in tasks
    /\ t.stage = "spawning"
    /\ t.job \in files \/ "spawn" \in Faults
    /\ files' \in {files, files \cup {t.job}}
    /\ tasks' = (tasks \ {t}) \cup {FailedTask(t)}
    /\ UNCHANGED <<open, issued, inflight, launch, storeVars, newest, ran>>

\* The process ends, by itself or killed through its token; "error" is a
\* job task that cannot be joined.
Exit(t) ==
    /\ t \in tasks
    /\ t.stage = "running"
    /\ \E last \in {"stop"} \cup (IF "join" \in Faults THEN {"error"} ELSE {}) :
         tasks' = (tasks \ {t})
                    \cup {[t EXCEPT !.stage = "over", !.unsent = Append(@, last)]}
    /\ UNCHANGED <<open, issued, inflight, launch, storeVars, processVars>>

\* BoundaryStore::record_status.
RecordStatus(e) ==
    /\ e \in recording
    /\ recording' = recording \ {e}
    /\ IF /\ boundary # NoRecord
          /\ boundary.job = e.job
          /\ Displaces(boundary.status, e.status)
       THEN LET updated == [boundary EXCEPT !.status = e.status] IN
            \/ disk' = updated /\ boundary' = updated
            \/ "store" \in Faults /\ disk' \in {disk, updated} /\ UNCHANGED boundary
       ELSE UNCHANGED <<boundary, disk>>
    /\ UNCHANGED <<open, issued, inflight, launch, tasks, processVars>>

\* The process dies and a new one loads the record.  A job's process may live
\* on, but nothing watches it any more.
Crash ==
    /\ open' = TRUE
    /\ inflight' = {}
    /\ launch' = <<>>
    /\ tasks' = {}
    /\ recording' = {}
    /\ boundary' \in {disk} \cup (IF "load" \in Faults THEN {NoRecord} ELSE {})
    /\ UNCHANGED <<issued, disk, processVars>>

\* JobOutputDir moves to a new directory, where no job has output yet.
MoveOutput ==
    /\ "output" \in Faults
    /\ files # {}
    /\ files' = {}
    /\ UNCHANGED <<open, issued, inflight, launch, tasks, storeVars, newest, ran>>

InternalStep ==
    \/ Advance
    \/ AdvanceFails
    \/ \E t \in tasks : Spawn(t) \/ SpawnFails(t) \/ Exit(t)
    \/ \E e \in recording : RecordStatus(e)

\* Everything the state manager may do, in any order.
ClientStep ==
    \/ \E j \in Jobs, at \in At : JobStart(j, at)
    \/ \E j \in Jobs : JobStop(j)
    \/ \E j \in Jobs, s \in Endings : JobStopped(j, s)
    \/ JobSwap
    \/ \E t \in tasks : TakeEvent(t)
    \/ Shutdown

ExecutorNext == InternalStep \/ ClientStep \/ Crash \/ MoveOutput

ExecutorSpec == ExecutorInit /\ [][ExecutorNext]_executorVars

------------------------------------------------------------------------------
(* Properties. *)

\* "The queue keeps boundary writes in release order": the record on disk
\* never names an older launch than one whose process was spawned, in this
\* life or an earlier one, through failed stores, late record_status tasks
\* and crashes at any point.
RecordCoversSpawned == disk.n >= newest

\* A task that is about to spawn its process, or has spawned it.
Committed == {t \in tasks : t.stage \in {"spawning", "running"}}

\* The same for the copy in memory, which decides what record_status may
\* rewrite: it covers every process of this life and every task about to
\* spawn one.
MemoryCoversTasks == \A t \in Committed : boundary.n >= t.n

\* What makes the two inductive.  Launches are numbered in the order they
\* were asked for, the queue holds the newest ones in that order, and both
\* copies of the record cover what was spawned and what is about to be.
LaunchOrder ==
    /\ newest <= issued
    /\ \A t \in Committed : t.n <= issued
    /\ \A i \in DOMAIN launch :
         /\ newest < launch[i].n
         /\ launch[i].n <= issued
         /\ \A t \in Committed : t.n < launch[i].n
         /\ \A k \in DOMAIN launch : i < k => launch[i].n < launch[k].n

ExecutorInv ==
    /\ ExecutorTypeOK
    /\ LaunchOrder
    /\ RecordCoversSpawned
    /\ MemoryCoversTasks
    /\ boundary = NoRecord \/ boundary.n >= newest
    /\ \A t \in Committed : disk.n >= t.n
==============================================================================
