--------------------------- MODULE ExecutorProofs ---------------------------
(***************************************************************************)
(* For every set of jobs, queue capacity, and choice of faults: the        *)
(* executor's variables keep their types, and both copies of the boundary  *)
(* record stay ahead of the processes that were spawned.                   *)
(***************************************************************************)
EXTENDS Executor, SequenceTheorems, TLAPS

\* The boundary record written before a launch is a record with no status.
LEMMA RecordOfType ==
  ASSUME NEW l \in Launch
  PROVE  /\ RecordOf(l) \in Boundary
         /\ RecordOf(l).n = l.n
BY DEF RecordOf, Launch, Boundary

\* A task is well formed when its parts are and its unsent events fit its stage.
LEMMA TaskType ==
  ASSUME NEW l, l.n \in Nat \ {0}, l.job \in Jobs, l.at \in At,
         NEW s \in Stages, NEW u \in Unsent[s]
  PROVE  /\ TaskOf(l, s, u) \in Task
         /\ TaskOf(l, s, u).n = l.n
         /\ TaskOf(l, s, u).stage = s
         /\ TaskOf(l, s, u).unsent = u
BY DEF TaskOf, Task

\* A task that failed has an error to report.
LEMMA FailedTaskType ==
  ASSUME NEW l, l.n \in Nat \ {0}, l.job \in Jobs, l.at \in At
  PROVE  FailedTask(l) \in Task /\ FailedTask(l).stage = "over"
<1>1. "over" \in Stages /\ <<"error">> \in Unsent["over"]
  BY DEF Stages, Unsent
<1> QED
  BY <1>1, TaskType DEF FailedTask

\* The queue's entries are launches, with numbers to compare.
LEMMA LaunchNumbers ==
  ASSUME ExecutorTypeOK
  PROVE  /\ Len(launch) \in Nat
         /\ DOMAIN launch = 1 .. Len(launch)
         /\ \A i \in DOMAIN launch : launch[i] \in Launch /\ launch[i].n \in Nat
<1>1. launch \in Seq(Launch)
  BY DEF ExecutorTypeOK
<1>2. Len(launch) \in Nat /\ DOMAIN launch = 1 .. Len(launch)
  BY <1>1
<1>3. \A i \in DOMAIN launch : launch[i] \in Launch
  BY <1>1, <1>2
<1>4. \A l \in Launch : l.n \in Nat
  BY DEF Launch
<1> QED
  BY <1>2, <1>3, <1>4

\* Nothing is launched, recorded or spawned initially.
LEMMA ExecutorInitInv == ExecutorInit => ExecutorInv
<1> SUFFICES ASSUME ExecutorInit PROVE ExecutorInv
  OBVIOUS
<1>1. ExecutorTypeOK
  BY DEF ExecutorInit, ExecutorTypeOK
<1>2. Committed = {}
  BY DEF ExecutorInit, Committed
<1>3. disk.n >= newest
  BY DEF ExecutorInit, NoRecord
<1> QED
  BY <1>1, <1>2, <1>3
  DEF ExecutorInit, ExecutorInv, LaunchOrder, RecordCoversSpawned, MemoryCoversTasks

\* A step that spawns nothing, writes no record and queues no launch keeps the
\* order of launches when every committed task has the number of an old one.
LEMMA OrderKept ==
  ASSUME ExecutorInv, ExecutorTypeOK',
         issued' >= issued,
         UNCHANGED <<launch, boundary, disk, newest>>,
         \A c \in Committed' : \E d \in Committed : d.n = c.n
  PROVE  ExecutorInv'
<1>1. \A c \in Committed' : c.n <= issued
  BY DEF ExecutorInv, LaunchOrder
<1>2. \A c \in Committed' : \A i \in DOMAIN launch : c.n < launch[i].n
  BY DEF ExecutorInv, LaunchOrder
<1>3. \A c \in Committed' : disk.n >= c.n /\ boundary.n >= c.n
  BY DEF ExecutorInv, MemoryCoversTasks
<1>4. \A c \in Committed' : c.n \in Nat
  BY DEF ExecutorTypeOK, Committed, Task
<1>5. \A i \in DOMAIN launch : launch[i].n \in Nat
  BY LaunchNumbers DEF ExecutorInv
<1>6. LaunchOrder'
  BY <1>1, <1>2, <1>4, <1>5
  DEF ExecutorInv, LaunchOrder, ExecutorTypeOK
<1> QED
  BY <1>3, <1>6
  DEF ExecutorInv, MemoryCoversTasks, RecordCoversSpawned

\* job_start numbers a launch above every other one.
LEMMA JobStartInv ==
  ASSUME ExecutorInv, NEW j \in Jobs, NEW at \in At, JobStart(j, at)
  PROVE  ExecutorInv'
<1> DEFINE l == [n |-> issued + 1, job |-> j, at |-> at]
<1>0. l \in Launch /\ l.n = issued + 1
  BY DEF ExecutorInv, ExecutorTypeOK, Launch
<1>1. CASE ~open
  <2>1. ExecutorTypeOK'
    BY <1>1 DEF ExecutorInv, ExecutorTypeOK, JobStart, storeVars, processVars
  <2>2. Committed' = Committed
    BY <1>1 DEF JobStart, Committed
  <2> QED
    BY <1>1, <2>1, <2>2, OrderKept
    DEF JobStart, storeVars, processVars, ExecutorInv, ExecutorTypeOK
<1>2. CASE open /\ ~(Len(launch) < LaunchCapacity)
  <2>1. FailedTask(l) \in Task /\ FailedTask(l).stage = "over"
    BY <1>0, FailedTaskType DEF Launch
  <2>2. tasks' = tasks \cup {FailedTask(l)}
    BY <1>2 DEF JobStart
  <2>3. ExecutorTypeOK'
    BY <1>2, <2>1, <2>2
    DEF ExecutorInv, ExecutorTypeOK, JobStart, storeVars, processVars
  <2>4. Committed' = Committed
    BY <2>1, <2>2 DEF Committed
  <2> QED
    BY <1>2, <2>3, <2>4, OrderKept
    DEF JobStart, storeVars, processVars, ExecutorInv, ExecutorTypeOK
<1>3. CASE open /\ Len(launch) < LaunchCapacity
  <2>1. /\ launch' = Append(launch, l)
        /\ issued' = issued + 1
        /\ inflight' = inflight \cup {j}
        /\ UNCHANGED <<open, tasks, boundary, disk, recording, files, newest, ran>>
    BY <1>3 DEF JobStart, storeVars, processVars
  <2>2. ExecutorTypeOK'
    BY <1>0, <2>1 DEF ExecutorInv, ExecutorTypeOK
  <2>3. Committed' = Committed
    BY <2>1 DEF Committed
  <2>4. DOMAIN launch = 1 .. Len(launch) /\ Len(launch) \in Nat
        /\ \A i \in DOMAIN launch : launch[i].n \in Nat
    BY LaunchNumbers DEF ExecutorInv
  <2>5. /\ DOMAIN launch' = 1 .. Len(launch) + 1
        /\ \A i \in DOMAIN launch : launch'[i] = launch[i]
        /\ launch'[Len(launch) + 1] = l
    BY <1>0, <2>1, <2>4 DEF ExecutorInv, ExecutorTypeOK
  <2>6. issued \in Nat /\ newest \in Nat /\ \A c \in Committed : c.n \in Nat
    BY DEF ExecutorInv, ExecutorTypeOK, Committed, Task
  <2>7. \A i \in DOMAIN launch' : /\ newest < launch'[i].n
                                  /\ launch'[i].n <= issued + 1
                                  /\ \A t \in Committed : t.n < launch'[i].n
    BY <1>0, <2>4, <2>5, <2>6 DEF ExecutorInv, LaunchOrder
  <2>8. \A i, k \in DOMAIN launch' : i < k => launch'[i].n < launch'[k].n
    <3> SUFFICES ASSUME NEW i \in DOMAIN launch', NEW k \in DOMAIN launch', i < k
                 PROVE  launch'[i].n < launch'[k].n
      OBVIOUS
    <3>1. i \in DOMAIN launch
      BY <2>4, <2>5
    <3>2. CASE k = Len(launch) + 1
      BY <1>0, <2>4, <2>5, <2>6, <3>1, <3>2 DEF ExecutorInv, LaunchOrder
    <3>3. CASE k \in DOMAIN launch
      BY <2>5, <3>1, <3>3 DEF ExecutorInv, LaunchOrder
    <3> QED
      BY <2>4, <2>5, <3>2, <3>3
  <2>9. LaunchOrder'
    BY <2>1, <2>3, <2>6, <2>7, <2>8 DEF LaunchOrder, ExecutorInv
  <2> QED
    BY <2>1, <2>2, <2>3, <2>9
    DEF ExecutorInv, RecordCoversSpawned, MemoryCoversTasks
<1> QED
  BY <1>1, <1>2, <1>3

\* The calls and events that touch neither launches, tasks nor records.
LEMMA OtherCallsInv ==
  ASSUME ExecutorInv,
         \/ \E j \in Jobs : JobStop(j)
         \/ \E j \in Jobs, s \in Terminal : JobStopped(j, s)
         \/ JobSwap
         \/ Shutdown
         \/ MoveOutput
         \/ UNCHANGED executorVars
  PROVE  ExecutorInv'
<1>1. UNCHANGED <<issued, launch, tasks, boundary, disk, newest, ran>>
  BY DEF JobStop, JobStopped, JobSwap, Shutdown, MoveOutput, storeVars,
         processVars, executorVars
<1>2. open' \in BOOLEAN /\ inflight' \subseteq Jobs /\ files' \subseteq Jobs
  BY Zenon DEF ExecutorInv, ExecutorTypeOK, JobStop, JobStopped, JobSwap, Shutdown,
         MoveOutput, storeVars, processVars, executorVars
<1>3. recording' \subseteq Ending
  BY DEF ExecutorInv, ExecutorTypeOK, JobStop, JobStopped, JobSwap, Shutdown,
         MoveOutput, storeVars, processVars, executorVars, Ending
<1>4. ExecutorTypeOK'
  BY <1>1, <1>2, <1>3 DEF ExecutorInv, ExecutorTypeOK
<1>5. Committed' = Committed
  BY <1>1 DEF Committed
<1> QED
  BY <1>1, <1>4, <1>5, OrderKept DEF ExecutorInv, ExecutorTypeOK

\* What is left to send after the first event of a task.
LEMMA UnsentTail ==
  ASSUME NEW s \in Stages, NEW q \in Unsent[s], q # <<>>
  PROVE  (s = "over" /\ Tail(q) = <<>>) \/ Tail(q) \in Unsent[s]
<1>1. \A a : Tail(<<a>>) = <<>>
  OBVIOUS
<1>2. \A a, b : Tail(<<a, b>>) = <<b>>
  OBVIOUS
<1>3. CASE s = "spawning"
  BY <1>3 DEF Unsent
<1>4. CASE s = "running"
  BY <1>1, <1>4, Zenon DEF Unsent
<1>5. CASE s = "over"
  <2>1. q \in {<<"stop">>, <<"error">>, <<"start", "stop">>, <<"start", "error">>}
    BY <1>5 DEF Unsent
  <2>2. Tail(q) \in {<<>>, <<"stop">>, <<"error">>}
    BY <1>1, <1>2, <2>1, Zenon
  <2> QED
    BY <1>5, <2>2 DEF Unsent
<1> QED
  BY <1>3, <1>4, <1>5 DEF Stages

\* Taking an event leaves a task as committed as it was, or drops a task that
\* is over.
LEMMA TakeEventInv ==
  ASSUME ExecutorInv, NEW t, TakeEvent(t)
  PROVE  ExecutorInv'
<1> DEFINE u == [t EXCEPT !.unsent = Tail(t.unsent)]
<1>1. t \in Task /\ t.unsent # <<>>
  BY DEF TakeEvent, ExecutorInv, ExecutorTypeOK
<1>2. /\ u.n = t.n /\ u.job = t.job /\ u.at = t.at /\ u.stage = t.stage
      /\ u.unsent = Tail(t.unsent)
  BY <1>1 DEF Task
<1>3. tasks' \subseteq (tasks \ {t}) \cup {u}
      /\ (u \in tasks' /\ u \notin tasks => ~(t.stage = "over" /\ u.unsent = <<>>))
  BY <1>2 DEF TakeEvent
<1>4. \A c \in tasks' : c \in tasks \/ c = u
  BY <1>3
<1>5. t.stage \in Stages /\ t.unsent \in Unsent[t.stage]
  BY <1>1 DEF Task
<1>6. (t.stage = "over" /\ u.unsent = <<>>) \/ u.unsent \in Unsent[t.stage]
  BY <1>1, <1>2, <1>5, UnsentTail
<1>7. u.unsent \in Unsent[t.stage] => u \in Task
  BY <1>1, <1>2, <1>5, Zenon DEF Task
<1>8. tasks' \subseteq Task
  BY <1>3, <1>4, <1>6, <1>7, Zenon DEF ExecutorInv, ExecutorTypeOK
<1>9. ExecutorTypeOK'
  BY <1>8 DEF TakeEvent, storeVars, processVars, ExecutorInv, ExecutorTypeOK
<1>10. \A c \in Committed' : \E d \in Committed : d.n = c.n
  BY <1>2, <1>4, Zenon DEF Committed, TakeEvent
<1> QED
  BY <1>9, <1>10, OrderKept
  DEF TakeEvent, storeVars, processVars, ExecutorInv, ExecutorTypeOK

\* The head of the queue is the oldest launch in it and the tail keeps the order.
LEMMA QueueHead ==
  ASSUME ExecutorInv, launch # <<>>
  PROVE  /\ Head(launch) \in Launch
         /\ Head(launch).n \in Nat
         /\ newest < Head(launch).n
         /\ Head(launch).n <= issued
         /\ \A c \in Committed : c.n < Head(launch).n
         /\ Tail(launch) \in Seq(Launch)
         /\ \A i \in DOMAIN Tail(launch) :
              /\ i + 1 \in DOMAIN launch
              /\ Tail(launch)[i] = launch[i + 1]
              /\ Head(launch).n < Tail(launch)[i].n
<1>1. launch \in Seq(Launch)
  BY DEF ExecutorInv, ExecutorTypeOK
<1>2. /\ Len(launch) \in Nat /\ DOMAIN launch = 1 .. Len(launch)
      /\ \A i \in DOMAIN launch : launch[i] \in Launch /\ launch[i].n \in Nat
  BY LaunchNumbers DEF ExecutorInv
<1>3. 1 \in DOMAIN launch /\ Head(launch) = launch[1]
  BY <1>1, <1>2
<1>4. Tail(launch) \in Seq(Launch)
  BY <1>1
<1>5. \A i \in DOMAIN Tail(launch) :
        i + 1 \in DOMAIN launch /\ 1 < i + 1 /\ Tail(launch)[i] = launch[i + 1]
  BY <1>1, <1>2
<1> QED
  BY <1>2, <1>3, <1>4, <1>5 DEF ExecutorInv, LaunchOrder

\* A step that takes the head off the queue, adds at most a task with its
\* number and moves neither `issued` nor `newest` keeps the launch order.
LEMMA OrderAfterHead ==
  ASSUME ExecutorInv, launch # <<>>,
         launch' = Tail(launch),
         UNCHANGED <<issued, newest>>,
         \A c \in Committed' : c \in Committed \/ c.n = Head(launch).n
  PROVE  LaunchOrder'
<1>1. \A c \in Committed' : c.n <= issued
  BY QueueHead DEF ExecutorInv, LaunchOrder
<1>2. \A i \in DOMAIN Tail(launch) :
        /\ newest < Tail(launch)[i].n
        /\ Tail(launch)[i].n <= issued
  BY QueueHead DEF ExecutorInv, LaunchOrder
<1>3. \A i \in DOMAIN Tail(launch) : \A c \in Committed' : c.n < Tail(launch)[i].n
  BY QueueHead DEF ExecutorInv, LaunchOrder
<1>4. \A i \in DOMAIN Tail(launch) : i \in Nat
  BY QueueHead
<1>5. \A i, k \in DOMAIN Tail(launch) :
        i < k => Tail(launch)[i].n < Tail(launch)[k].n
  BY <1>4, QueueHead DEF ExecutorInv, LaunchOrder
<1> QED
  BY <1>1, <1>2, <1>3, <1>5 DEF ExecutorInv, LaunchOrder

\* Advance commits the record before the task that will spawn the process.
LEMMA AdvanceInv ==
  ASSUME ExecutorInv, Advance
  PROVE  ExecutorInv'
<1> DEFINE l == Head(launch)
           t == TaskOf(l, "spawning", <<>>)
<1>1. launch # <<>>
  BY DEF Advance
<1>2. l \in Launch /\ l.n \in Nat /\ newest < l.n
  BY <1>1, QueueHead
<1>3. t \in Task /\ t.n = l.n
  <2>1. "spawning" \in Stages /\ <<>> \in Unsent["spawning"]
    BY DEF Stages, Unsent
  <2> QED
    BY <1>2, <2>1, TaskType DEF Launch
<1>4. /\ disk' = RecordOf(l) /\ boundary' = RecordOf(l)
      /\ tasks' = tasks \cup {t}
      /\ launch' = Tail(launch)
      /\ UNCHANGED <<open, issued, inflight, recording, files, newest, ran>>
  BY DEF Advance, processVars
<1>5. ExecutorTypeOK'
  BY <1>1, <1>2, <1>3, <1>4, QueueHead, RecordOfType DEF ExecutorInv, ExecutorTypeOK
<1>6. \A c \in Committed' : c \in Committed \/ c = t
  BY <1>4 DEF Committed
<1>7. LaunchOrder'
  BY <1>1, <1>3, <1>4, <1>6, OrderAfterHead
<1>8. disk'.n = l.n /\ boundary'.n = l.n
  BY <1>2, <1>4, RecordOfType
<1>9. \A c \in Committed' : c.n \in Nat /\ c.n <= l.n
  BY <1>1, <1>2, <1>3, <1>6, QueueHead DEF Committed, Task, ExecutorInv, ExecutorTypeOK
<1> QED
  BY <1>2, <1>4, <1>5, <1>7, <1>8, <1>9
  DEF ExecutorInv, ExecutorTypeOK, RecordCoversSpawned, MemoryCoversTasks

\* A failed store may leave the new record on disk, and nothing is spawned.
LEMMA AdvanceFailsInv ==
  ASSUME ExecutorInv, AdvanceFails
  PROVE  ExecutorInv'
<1> DEFINE l == Head(launch)
<1>1. launch # <<>>
  BY DEF AdvanceFails
<1>2. l \in Launch /\ l.n \in Nat /\ newest < l.n /\ \A c \in Committed : c.n < l.n
  BY <1>1, QueueHead
<1>3. FailedTask(l) \in Task /\ FailedTask(l).stage = "over"
  BY <1>2, FailedTaskType DEF Launch
<1>4. /\ disk' = disk \/ disk' = RecordOf(l)
      /\ tasks' = tasks \cup {FailedTask(l)}
      /\ launch' = Tail(launch)
      /\ UNCHANGED <<open, issued, inflight, boundary, recording, files, newest, ran>>
  BY DEF AdvanceFails, processVars
<1>5. ExecutorTypeOK'
  BY <1>1, <1>2, <1>3, <1>4, QueueHead, RecordOfType DEF ExecutorInv, ExecutorTypeOK
<1>6. Committed' = Committed
  BY <1>3, <1>4 DEF Committed
<1>7. LaunchOrder'
  BY <1>1, <1>4, <1>6, OrderAfterHead
<1>8. \A c \in Committed : c.n \in Nat
  BY DEF Committed, Task, ExecutorInv, ExecutorTypeOK
<1>9. disk' = disk \/ disk'.n = l.n
  BY <1>2, <1>4, RecordOfType
<1> QED
  BY <1>2, <1>4, <1>5, <1>6, <1>7, <1>8, <1>9
  DEF ExecutorInv, ExecutorTypeOK, RecordCoversSpawned, MemoryCoversTasks

\* A process is spawned only for a task that both copies of the record cover.
LEMMA SpawnInv ==
  ASSUME ExecutorInv, NEW t, Spawn(t)
  PROVE  ExecutorInv'
<1> DEFINE u == [t EXCEPT !.stage = "running", !.unsent = <<"start">>]
<1>1. t \in Task /\ t \in tasks /\ t.stage = "spawning" /\ t \in Committed
  BY DEF Spawn, ExecutorInv, ExecutorTypeOK, Committed
<1>2. /\ u.n = t.n /\ u.job = t.job /\ u.at = t.at
      /\ u.stage = "running" /\ u.unsent = <<"start">>
  BY <1>1 DEF Task
<1>3. u \in Task
  <2>1. "running" \in Stages /\ <<"start">> \in Unsent["running"]
    BY DEF Stages, Unsent
  <2> QED
    BY <1>1, <1>2, <2>1, Zenon DEF Task
<1>4. /\ files' = files \cup {t.job}
      /\ ran' = [ran EXCEPT ![t.job] = @ + 1]
      /\ newest' = IF t.n > newest THEN t.n ELSE newest
      /\ tasks' = (tasks \ {t}) \cup {u}
      /\ UNCHANGED <<open, issued, inflight, launch, boundary, disk, recording>>
  BY DEF Spawn, storeVars
<1>5. t.n \in Nat /\ t.job \in Jobs /\ newest \in Nat
  BY <1>1 DEF Task, ExecutorInv, ExecutorTypeOK
<1>6. ExecutorTypeOK'
  <2>1. ran' \in [Jobs -> Nat]
    BY <1>4, <1>5 DEF ExecutorInv, ExecutorTypeOK
  <2> QED
    BY <1>3, <1>4, <1>5, <2>1 DEF ExecutorInv, ExecutorTypeOK
<1>7. \A c \in Committed' : c \in Committed \/ c.n = t.n
  BY <1>2, <1>4, Zenon DEF Committed
<1>8. \A i \in DOMAIN launch : newest' < launch[i].n
  BY <1>1, <1>4, <1>5 DEF ExecutorInv, LaunchOrder
<1>9. newest' <= issued
  BY <1>1, <1>4, <1>5 DEF ExecutorInv, LaunchOrder
<1>10. LaunchOrder'
  BY <1>1, <1>4, <1>7, <1>8, <1>9 DEF ExecutorInv, LaunchOrder
<1>11. disk.n >= t.n /\ boundary.n >= t.n
  BY <1>1 DEF ExecutorInv, MemoryCoversTasks
<1>12. disk.n >= newest' /\ (boundary = NoRecord \/ boundary.n >= newest')
  BY <1>4, <1>11 DEF ExecutorInv, RecordCoversSpawned
<1>13. \A c \in Committed' : disk.n >= c.n /\ boundary.n >= c.n
  BY <1>7, <1>11 DEF ExecutorInv, MemoryCoversTasks
<1> QED
  BY <1>4, <1>6, <1>10, <1>12, <1>13
  DEF ExecutorInv, RecordCoversSpawned, MemoryCoversTasks

\* A task whose process cannot be spawned is no longer committed.
LEMMA SpawnFailsInv ==
  ASSUME ExecutorInv, NEW t, SpawnFails(t)
  PROVE  ExecutorInv'
<1>1. t \in Task
  BY DEF SpawnFails, ExecutorInv, ExecutorTypeOK
<1>2. FailedTask(t) \in Task /\ FailedTask(t).stage = "over"
  BY <1>1, FailedTaskType DEF Task
<1>3. /\ files' \subseteq files \cup {t.job}
      /\ tasks' = (tasks \ {t}) \cup {FailedTask(t)}
      /\ UNCHANGED <<open, issued, inflight, launch, boundary, disk, recording,
                     newest, ran>>
  BY DEF SpawnFails, storeVars
<1>4. t.job \in Jobs
  BY <1>1 DEF Task
<1>5. ExecutorTypeOK'
  BY <1>2, <1>3, <1>4 DEF ExecutorInv, ExecutorTypeOK
<1>6. \A c \in Committed' : c \in Committed
  BY <1>2, <1>3 DEF Committed
<1> QED
  BY <1>3, <1>5, <1>6, OrderKept DEF ExecutorInv, ExecutorTypeOK

\* Appending to a sequence of one element gives the pair.
LEMMA AppendToOne ==
  ASSUME NEW S, NEW a \in S, NEW b \in S
  PROVE  Append(<<a>>, b) = <<a, b>>
<1>1. <<a>> \in Seq(S) /\ Append(<<a>>, b) \in Seq(S)
  OBVIOUS
<1>2. <<a, b>> \in Seq(S)
  OBVIOUS
<1>3. /\ Len(Append(<<a>>, b)) = 2
      /\ Append(<<a>>, b)[1] = a
      /\ Append(<<a>>, b)[2] = b
  OBVIOUS
<1>4. Len(<<a, b>>) = 2 /\ <<a, b>>[1] = a /\ <<a, b>>[2] = b
  OBVIOUS
<1>5. \A i \in 1 .. 2 : i = 1 \/ i = 2
  OBVIOUS
<1> QED
  BY <1>1, <1>2, <1>3, <1>4, <1>5, SeqEqual, Zenon

\* The last event of a task fits what it had yet to send.
LEMMA UnsentLast ==
  ASSUME NEW q \in Unsent["running"], NEW e \in {"stop", "error"}
  PROVE  Append(q, e) \in Unsent["over"]
<1>1. \A a : Append(<<>>, a) = <<a>>
  OBVIOUS
<1>2. Append(<<"start">>, e) = <<"start", e>>
  BY "start" \in {"start", "stop", "error"}, e \in {"start", "stop", "error"},
     AppendToOne, Zenon
<1> QED
  BY <1>1, <1>2, Zenon DEF Unsent

\* A process that has ended is no longer committed.
LEMMA ExitInv ==
  ASSUME ExecutorInv, NEW t, Exit(t)
  PROVE  ExecutorInv'
<1>1. t \in Task /\ t.stage = "running"
  BY DEF Exit, ExecutorInv, ExecutorTypeOK
<1>2. PICK e \in {"stop", "error"} :
        tasks' = (tasks \ {t})
                   \cup {[t EXCEPT !.stage = "over", !.unsent = Append(@, e)]}
  BY Zenon DEF Exit
<1> DEFINE u == [t EXCEPT !.stage = "over", !.unsent = Append(@, e)]
<1>3. /\ u.n = t.n /\ u.job = t.job /\ u.at = t.at
      /\ u.stage = "over" /\ u.unsent = Append(t.unsent, e)
  BY <1>1 DEF Task
<1>4. u \in Task
  <2>1. "over" \in Stages /\ u.unsent \in Unsent["over"]
    BY <1>1, <1>2, <1>3, UnsentLast DEF Task, Stages
  <2> QED
    BY <1>1, <1>3, <2>1, Zenon DEF Task
<1>5. UNCHANGED <<open, issued, inflight, launch, boundary, disk, recording,
                  files, newest, ran>>
  BY DEF Exit, storeVars, processVars
<1>6. ExecutorTypeOK'
  BY <1>2, <1>4, <1>5 DEF ExecutorInv, ExecutorTypeOK
<1>7. \A c \in Committed' : c \in Committed
  BY <1>2, <1>3, Zenon DEF Committed
<1> QED
  BY <1>5, <1>6, <1>7, OrderKept DEF ExecutorInv, ExecutorTypeOK

\* Recording an ending rewrites the newest record, never an older one.
LEMMA RecordStatusInv ==
  ASSUME ExecutorInv, NEW e, RecordStatus(e)
  PROVE  ExecutorInv'
<1> DEFINE updated == [boundary EXCEPT !.status = e.status]
<1>1. e \in Ending
  BY DEF RecordStatus, ExecutorInv, ExecutorTypeOK
<1>2. UNCHANGED <<open, issued, inflight, launch, tasks, files, newest, ran>>
      /\ recording' \subseteq recording
  BY DEF RecordStatus, processVars
<1>3. Committed' = Committed
  BY <1>2 DEF Committed
<1>4. LaunchOrder'
  BY <1>2, <1>3 DEF ExecutorInv, LaunchOrder
<1>5. CASE UNCHANGED <<boundary, disk>>
  <2>1. ExecutorTypeOK'
    BY <1>2, <1>5 DEF ExecutorInv, ExecutorTypeOK
  <2> QED
    BY <1>2, <1>3, <1>4, <1>5, <2>1
    DEF ExecutorInv, RecordCoversSpawned, MemoryCoversTasks
<1>6. CASE /\ boundary # NoRecord
           /\ disk' = disk \/ disk' = updated
           /\ boundary' = boundary \/ boundary' = updated
  <2>1. updated \in Boundary /\ updated.n = boundary.n
    BY <1>1, <1>6 DEF ExecutorInv, ExecutorTypeOK, Boundary, Ending
  <2>2. ExecutorTypeOK'
    BY <1>2, <1>6, <2>1 DEF ExecutorInv, ExecutorTypeOK
  <2>3. boundary'.n = boundary.n /\ (disk' = disk \/ disk'.n = boundary.n)
    BY <1>6, <2>1, Zenon
  <2>4. boundary.n >= newest
    BY <1>6 DEF ExecutorInv
  <2>5. \A c \in Committed : boundary.n >= c.n
    BY DEF ExecutorInv, MemoryCoversTasks
  <2> QED
    BY <1>2, <1>3, <1>4, <2>2, <2>3, <2>4, <2>5
    DEF ExecutorInv, RecordCoversSpawned, MemoryCoversTasks
<1> QED
  BY <1>5, <1>6 DEF RecordStatus

\* A crash leaves the disk, which covers every process ever spawned.
LEMMA CrashInv ==
  ASSUME ExecutorInv, Crash
  PROVE  ExecutorInv'
<1>1. /\ open' = TRUE /\ inflight' = {} /\ launch' = <<>> /\ tasks' = {}
      /\ recording' = {}
      /\ boundary' = disk \/ boundary' = NoRecord
      /\ UNCHANGED <<issued, disk, files, newest, ran>>
  BY DEF Crash, processVars
<1>2. ExecutorTypeOK'
  BY <1>1 DEF ExecutorInv, ExecutorTypeOK
<1>3. Committed' = {}
  BY <1>1 DEF Committed
<1>4. LaunchOrder'
  BY <1>1, <1>3 DEF ExecutorInv, LaunchOrder
<1> QED
  BY <1>1, <1>2, <1>3, <1>4
  DEF ExecutorInv, RecordCoversSpawned, MemoryCoversTasks

\* Every step of the executor, of its client, of a crash or of the output
\* directory keeps the inductive invariant.
LEMMA ExecutorStepInv == ExecutorInv /\ [ExecutorNext]_executorVars => ExecutorInv'
<1> SUFFICES ASSUME ExecutorInv, [ExecutorNext]_executorVars PROVE ExecutorInv'
  OBVIOUS
<1>1. CASE InternalStep
  BY <1>1, AdvanceInv, AdvanceFailsInv, SpawnInv, SpawnFailsInv, ExitInv,
     RecordStatusInv DEF InternalStep
<1>2. CASE ClientStep
  <2>1. CASE \E j \in Jobs, at \in At : JobStart(j, at)
    BY <2>1, JobStartInv
  <2>2. CASE \E t \in tasks : TakeEvent(t)
    BY <2>2, TakeEventInv
  <2>3. CASE \E j \in Jobs, s \in Endings : JobStopped(j, s)
    BY <2>3, OtherCallsInv, ExecutorAssumption
  <2>4. CASE (\E j \in Jobs : JobStop(j)) \/ JobSwap \/ Shutdown
    BY <2>4, OtherCallsInv
  <2> QED
    BY <1>2, <2>1, <2>2, <2>3, <2>4 DEF ClientStep
<1>3. CASE Crash
  BY <1>3, CrashInv
<1>4. CASE MoveOutput \/ UNCHANGED executorVars
  BY <1>4, OtherCallsInv
<1> QED
  BY <1>1, <1>2, <1>3, <1>4 DEF ExecutorNext

\* Whatever a client, the faults and crashes do, the executor's state is well
\* formed and launches keep their order.
THEOREM ExecutorInvariant == ExecutorSpec => []ExecutorInv
<1>1. ExecutorInit => ExecutorInv
  BY ExecutorInitInv
<1>2. ExecutorInv /\ [ExecutorNext]_executorVars => ExecutorInv'
  BY ExecutorStepInv
<1> QED
  BY <1>1, <1>2, PTL DEF ExecutorSpec

\* Type correctness of the executor.
THEOREM ExecutorTypes == ExecutorSpec => []ExecutorTypeOK
<1>1. ExecutorInv => ExecutorTypeOK
  BY DEF ExecutorInv
<1> QED
  BY <1>1, ExecutorInvariant, PTL

\* The record on disk is never older than a process that was ever spawned: a
\* new life that loads it knows of every launch up to the newest that ran.
THEOREM RecordCovers == ExecutorSpec => []RecordCoversSpawned
<1>1. ExecutorInv => RecordCoversSpawned
  BY DEF ExecutorInv
<1> QED
  BY <1>1, ExecutorInvariant, PTL

\* Nor is the copy in memory older than a task of this life that may spawn a
\* process, so record_status never writes an older record back.
THEOREM MemoryCovers == ExecutorSpec => []MemoryCoversTasks
<1>1. ExecutorInv => MemoryCoversTasks
  BY DEF ExecutorInv
<1> QED
  BY <1>1, ExecutorInvariant, PTL
=============================================================================
