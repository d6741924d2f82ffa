------------------------------ MODULE SledProofs ------------------------------
(***************************************************************************)
(* Proofs about Sled, for every set of sessions, jobs and scenarios, every *)
(* choice of faults and every bound: the server's state keeps its shape,   *)
(* and the state machine and its driver use the executor as module         *)
(* Executor says a client may, so what ExecutorProofs shows of the         *)
(* boundary record holds of the whole sled.                                *)
(***************************************************************************)
EXTENDS Sled, FiniteSetTheorems, SequenceTheorems, WellFoundedInduction, TLAPS

EP == INSTANCE ExecutorProofs WITH At <- Positions, Endings <- Terminal

------------------------------------------------------------------------------
(* The driver is a client of the executor. *)

\* An output of the state machine is a call that the executor allows.
LEMMA ApplyOutputCalls ==
    ASSUME SledTypeOK, ApplyOutput
    PROVE  Exec!ClientStep \/ UNCHANGED Exec!executorVars
<1> DEFINE o == Head(outs)
<1>1. o \in Outputs
  BY DEF SledTypeOK, ApplyOutput
<1>2. CASE o.t = "run"
  <2>1. o.job \in Jobs /\ o.at \in Positions
    BY <1>1, <1>2 DEF Outputs, Nothing
  <2>2. Exec!JobStart(o.job, o.at)
    BY <1>2, Zenon DEF ApplyOutput
  <2> QED BY <2>1, <2>2 DEF Exec!ClientStep
<1>3. CASE o.t = "stop"
  <2>1. o.job \in Jobs
    BY <1>1, <1>3 DEF Outputs, Nothing
  <2>2. Exec!JobStop(o.job)
    BY <1>3, Zenon DEF ApplyOutput
  <2> QED BY <2>1, <2>2 DEF Exec!ClientStep
<1>4. CASE o.t = "ran"
  <2>1. o.job \in Jobs /\ o.status \in Terminal
    BY <1>1, <1>4 DEF Outputs, Nothing
  <2>2. Exec!JobStopped(o.job, o.status)
    BY <1>4, Zenon DEF ApplyOutput
  <2> QED BY <2>1, <2>2 DEF Exec!ClientStep
<1>5. CASE o.t \in {"gossip", "nothing"}
  <2>1. UNCHANGED executorVars
    BY <1>5, Zenon DEF ApplyOutput
  <2> QED BY <2>1 DEF executorVars, Exec!executorVars
<1>6. o.t \in {"run", "stop", "ran", "gossip", "nothing"}
  BY <1>1 DEF Outputs, Nothing
<1> QED BY <1>2, <1>3, <1>4, <1>5, <1>6

\* A message only changes the state machine; its outputs come later.
LEMMA MessagesOnlyOutput ==
    ASSUME NEW m, HandleMessage(m)
    PROVE  UNCHANGED executorVars /\ Receive(m)
BY Zenon DEF HandleMessage, HandleSessionStart, HandleSessionStop, HandleSkip, HandleJobStart,
       HandleJobStop, HandleOwnEvent, HandlePeerEvent, HandleVersion, Receive

\* Every step of the sled is a step of its executor or leaves it alone.
LEMMA StepRefines ==
    ASSUME SledTypeOK, [Next]_vars
    PROVE  [Exec!ExecutorNext]_(Exec!executorVars)
<1>1. CASE UNCHANGED executorVars
  BY <1>1 DEF executorVars, Exec!executorVars
<1>2. CASE ApiStep
  <2>1. UNCHANGED executorVars
    BY <1>2, Zenon DEF ApiStep, ApiSessionStart, ApiSessionStop, ApiSkipJob, ApiJobStart, ApiJobStop,
                Submit
  <2> QED BY <1>1, <2>1
<1>3. CASE DriverStep
  <2>1. CASE \E t \in tasks : ExecutorEvent(t)
    BY <2>1 DEF ExecutorEvent, Exec!ExecutorNext, Exec!ClientStep
  <2>2. CASE \E m \in rumors[state.net] : HandleMessage(m)
    BY <1>1, <2>2, MessagesOnlyOutput
  <2>3. CASE ApplyOutput
    BY <2>3, ApplyOutputCalls DEF Exec!ExecutorNext
  <2>4. CASE \E u \in Universes : Swap(u)
    BY <2>4 DEF Swap, Exec!ExecutorNext, Exec!ClientStep
  <2>5. CASE ForwardRequest \/ Drained \/ CubbiesChange \/ CloseNetwork
    BY <1>1, <2>5 DEF ForwardRequest, Drained, CubbiesChange, CloseNetwork
  <2> QED BY <1>3, <2>1, <2>2, <2>3, <2>4, <2>5 DEF DriverStep
<1>4. CASE ExecutorStep \/ Shutdown \/ Restart \/ MoveOutput
  BY <1>4 DEF ExecutorStep, Shutdown, Restart, MoveOutput, Exec!ExecutorNext,
              Exec!ClientStep
<1>5. CASE Share \/ PeerStep
  BY <1>1, <1>5, Zenon DEF Share, PeerStep, PeerRequest, PeerEvent, PeerSend
<1>6. CASE UNCHANGED vars
  BY <1>1, <1>6 DEF vars
<1> QED BY <1>2, <1>3, <1>4, <1>5, <1>6 DEF Next

------------------------------------------------------------------------------
(* Lemmas about sets of numbers and sequences of set elements. *)

\* A set of numbers that is not empty has a least element.
LEMMA Least ==
    ASSUME NEW S \in SUBSET Nat, S # {}
    PROVE  \E m \in S : \A k \in S : m <= k
<1>1. IsWellFoundedOn(OpToRel(<, Nat), Nat)
  BY NatLessThanWellFounded, Zenon
<1>2. PICK x \in S : \A y \in S : ~(<<y, x>> \in OpToRel(<, Nat))
  BY <1>1, WFMin, Zenon
<1>3. ASSUME NEW y \in S PROVE x <= y
  <2>1. ~(<<y, x>> \in OpToRel(<, Nat))
    BY <1>2, Zenon
  <2>2. <<y, x>> \in Nat \X Nat
    OBVIOUS
  <2>3. ~(<<y, x>>[1] < <<y, x>>[2])
    BY <2>1, <2>2, Zenon DEF OpToRel
  <2>4. ~(y < x)
    BY <2>3
  <2> QED BY <2>4
<1> QED BY <1>3

\* A bounded set of numbers that is not empty has a maximum.
LEMMA MaxBounded ==
    ASSUME NEW S \in SUBSET Nat, NEW b \in Nat, S # {}, \A x \in S : x <= b
    PROVE  Greatest(S) \in S /\ \A y \in S : y <= Greatest(S)
<1> DEFINE T == {b - x : x \in S}
<1>0. T # {}
  BY Zenon
<1>1. T \in SUBSET Nat
  OBVIOUS
<1>2. PICK m \in T : \A k \in T : m <= k
  BY <1>0, <1>1, Least, Zenon
<1>3. PICK x \in S : m = b - x
  OBVIOUS
<1>4. ASSUME NEW y \in S PROVE y <= x
  <2>1. m <= b - y
    BY <1>2
  <2> QED BY <1>3, <2>1
<1>5. \E z \in S : \A y \in S : z >= y
  BY <1>4
<1>6. Greatest(S) = CHOOSE z \in S : \A y \in S : z >= y
  BY DEF Greatest
<1>7. Greatest(S) \in S /\ \A y \in S : Greatest(S) >= y
  BY <1>5, <1>6, Zenon
<1> QED BY <1>7

\* InSomeOrder lists elements of the set.
LEMMA InSomeOrderType ==
    ASSUME NEW S, IsFiniteSet(S)
    PROVE  InSomeOrder(S) \in Seq(S)
<1> DEFINE n == Cardinality(S)
<1>1. n \in Nat /\ ExistsBijection(1 .. n, S)
  BY FS_CardinalityType
<1>2. \E f \in [1 .. n -> S] : IsInjective(f)
  BY <1>1, Zenon DEF ExistsBijection, Bijection, Injection
<1>3. InSomeOrder(S) \in [1 .. n -> S]
  BY <1>2, Zenon DEF InSomeOrder
<1> QED BY <1>1, <1>3

\* Removing one position of a sequence leaves a shorter sequence.
LEMMA CutOutType ==
    ASSUME NEW S, NEW q \in Seq(S), NEW i \in DOMAIN q
    PROVE  /\ SubSeq(q, 1, i - 1) \o SubSeq(q, i + 1, Len(q)) \in Seq(S)
           /\ Len(SubSeq(q, 1, i - 1) \o SubSeq(q, i + 1, Len(q))) < Len(q)
<1>1. i \in 1 .. Len(q) /\ \A k \in 1 .. Len(q) : q[k] \in S
  OBVIOUS
<1>2. /\ SubSeq(q, 1, i - 1) \in Seq(S) /\ Len(SubSeq(q, 1, i - 1)) = i - 1
  BY <1>1, SubSeqProperties
<1>3. /\ SubSeq(q, i + 1, Len(q)) \in Seq(S)
      /\ Len(SubSeq(q, i + 1, Len(q))) = Len(q) - i
  BY <1>1, SubSeqProperties
<1> QED BY <1>1, <1>2, <1>3

\* The jobs of a finite queue are finitely many.
LEMMA JobsOfFinite ==
    ASSUME NEW Q, IsFiniteSet(Q)
    PROVE  IsFiniteSet({q.job : q \in Q})
<1> DEFINE T == {q.job : q \in Q}
           f == [q \in Q |-> q.job]
<1>1. f \in [Q -> T] /\ \A t \in T : \E q \in Q : f[q] = t
  OBVIOUS
<1>2. f \in Surjection(Q, T)
  BY <1>1, Zenon DEF Surjection
<1> HIDE DEF T, f
<1>3. IsFiniteSet(T)
  BY <1>2, FS_Surjection
<1> QED BY <1>3 DEF T

------------------------------------------------------------------------------
(* The state machine keeps the shape of its state. *)

\* An announcement about jobs is a sequence of outputs.
LEMMA AnnouncementType ==
    ASSUME NEW S \in SUBSET Jobs, IsFiniteSet(S), NEW kind \in EventKind
    PROVE  [i \in DOMAIN InSomeOrder(S) |-> Gossip(kind, InSomeOrder(S)[i])] \in Seq(Outputs)
<1>1. InSomeOrder(S) \in Seq(S)
  BY InSomeOrderType
<1>2. ASSUME NEW i \in DOMAIN InSomeOrder(S)
      PROVE  Gossip(kind, InSomeOrder(S)[i]) \in Outputs
  <2>1. InSomeOrder(S)[i] \in Jobs
    BY <1>1
  <2> QED BY <2>1 DEF Gossip, Outputs
<1> QED BY <1>1, <1>2

\* Skipping the queue makes well-formed outputs.
LEMMA SkipQueuedJobsType ==
    ASSUME NEW st, WellFormed(st)
    PROVE  SkipQueuedJobs(st) \in Seq(Outputs)
<1> DEFINE Q == {x \in st.queue : x.here /\ ~x.replayed}
           skipped == {q.job : q \in Q}
<1>1. /\ st.queue \subseteq [job : Jobs, here : BOOLEAN, replayed : BOOLEAN]
      /\ IsFiniteSet(st.queue)
  BY DEF WellFormed, States
<1>2. IsFiniteSet(Q)
  BY <1>1, FS_Subset
<1>3. IsFiniteSet(skipped)
  BY <1>2, JobsOfFinite
<1>4. skipped \in SUBSET Jobs
  BY <1>1
<1>5. "skipped" \in EventKind
  BY DEF EventKind
<1> HIDE DEF skipped
<1>6. [i \in DOMAIN InSomeOrder(skipped) |-> Gossip("skipped", InSomeOrder(skipped)[i])]
        \in Seq(Outputs)
  BY <1>3, <1>4, <1>5, AnnouncementType
<1> QED BY <1>6 DEF SkipQueuedJobs, skipped

\* The positions after a job are positions of its session.
LEMMA NextPositions ==
    ASSUME NEW j \in Jobs
    PROVE  /\ AfterJob(j) \in Sessions \X Seq({"S", "B"})
           /\ AfterBurn(j) \in Sessions \X Seq({"S", "B"})
<1>1. j \in Sessions \X Seq({"S", "B"})
  BY SledAssumption
<1>2. PICK s \in Sessions, p \in Seq({"S", "B"}) : j = <<s, p>>
  BY <1>1
<1>3. Append(p, "S") \in Seq({"S", "B"}) /\ Append(p, "B") \in Seq({"S", "B"})
  OBVIOUS
<1>4. AfterJob(j) = <<s, Append(p, "S")>> /\ AfterBurn(j) = <<s, Append(p, "B")>>
  BY <1>2 DEF AfterJob, AfterBurn
<1>5. ASSUME NEW a \in Seq({"S", "B"}) PROVE <<s, a>> \in Sessions \X Seq({"S", "B"})
  OBVIOUS
<1> QED BY <1>3, <1>4, <1>5, Zenon

\* Activating a session, and forgetting a pending one, keeps the state well
\* formed, its universe and its birth.
LEMMA ActivateType ==
    ASSUME NEW st, WellFormed(st), NEW s \in Sessions, IsPending(st, s),
           NEW next \in Sessions \X Seq({"S", "B"})
    PROVE  /\ WellFormed(Activate(st, s, next))
           /\ Activate(st, s, next).net = st.net /\ Activate(st, s, next).birth = st.birth
           /\ WellFormed([st EXCEPT !.pending = WithoutPending(st, s)])
           /\ [st EXCEPT !.pending = WithoutPending(st, s)].net = st.net
           /\ [st EXCEPT !.pending = WithoutPending(st, s)].birth = st.birth
<1> DEFINE P == [id : Sessions, actor : Actors, live : BOOLEAN]
           i == PendingAt(st, s)
<1>1. st \in States /\ st.pending \in Seq(P) /\ Len(st.pending) <= MaxPendingStarts
  BY DEF WellFormed, States
<1>2. i \in DOMAIN st.pending
  BY DEF PendingAt, IsPending
<1> HIDE DEF P, i
<1>3. st.pending[i] \in P
  BY <1>1, <1>2
<1>4. /\ WithoutPending(st, s) \in Seq(P)
      /\ Len(WithoutPending(st, s)) <= MaxPendingStarts
  <2> DEFINE less == SubSeq(st.pending, 1, i - 1) \o SubSeq(st.pending, i + 1, Len(st.pending))
  <2>1. less \in Seq(P) /\ Len(less) < Len(st.pending)
    BY <1>1, <1>2, CutOutType
  <2> QED BY <1>1, <2>1, SledAssumption DEF WithoutPending, i
<1>5. [id |-> s, live |-> st.pending[i].live, starter |-> st.pending[i].actor,
       next |-> next, head |-> NoJob] \in ActiveSession
  BY <1>3 DEF ActiveSession, P
<1>6. IsFiniteSet({})
  BY FS_EmptySet
<1>7. /\ WellFormed([st EXCEPT !.pending = WithoutPending(st, s)])
      /\ [st EXCEPT !.pending = WithoutPending(st, s)].net = st.net
      /\ [st EXCEPT !.pending = WithoutPending(st, s)].birth = st.birth
  BY <1>1, <1>4, Zenon DEF WellFormed, States, P
<1>8. /\ WellFormed(Activate(st, s, next))
      /\ Activate(st, s, next).net = st.net /\ Activate(st, s, next).birth = st.birth
  BY <1>1, <1>4, <1>5, <1>6, Zenon DEF WellFormed, States, Activate, P, i
<1> QED BY <1>7, <1>8

\* The position at which a session is activated is one of its own.
LEMMA ConfirmStartType ==
    ASSUME NEW st, WellFormed(st), NEW s \in Sessions
    PROVE  /\ WellFormed(ConfirmStart(st, s).st)
           /\ ConfirmStart(st, s).st.net = st.net /\ ConfirmStart(st, s).st.birth = st.birth
           /\ ConfirmStart(st, s).outs \in Seq(Outputs)
<1> DEFINE next == IF InheritedHere(st) /\ st.committed.at.session = s
                   THEN st.committed.at.next ELSE FirstJob(s)
<1>1. next \in Sessions \X Seq({"S", "B"})
  <2>1. FirstJob(s) \in Sessions \X Seq({"S", "B"})
    <3>1. <<>> \in Seq({"S", "B"})
      OBVIOUS
    <3> QED BY <3>1, Zenon DEF FirstJob
  <2>2. CASE InheritedHere(st)
    <3>1. st.committed \in Exec!Boundary
      BY <2>2 DEF InheritedHere, WellFormed, States
    <3>2. PICK j \in Jobs : st.committed.at.next = AfterJob(j)
      BY <3>1 DEF Exec!Boundary, Positions
    <3>3. AfterJob(j) \in Sessions \X Seq({"S", "B"})
      BY NextPositions
    <3> QED BY <2>1, <3>2, <3>3
  <2> QED BY <2>1, <2>2
<1>2. SkipQueuedJobs(st) \in Seq(Outputs)
  BY SkipQueuedJobsType
<1> HIDE DEF next
<1>3. IsPending(st, s) =>
        /\ WellFormed(Activate(st, s, next))
        /\ Activate(st, s, next).net = st.net /\ Activate(st, s, next).birth = st.birth
        /\ WellFormed([st EXCEPT !.pending = WithoutPending(st, s)])
        /\ [st EXCEPT !.pending = WithoutPending(st, s)].net = st.net
        /\ [st EXCEPT !.pending = WithoutPending(st, s)].birth = st.birth
  BY <1>1, ActivateType
<1> QED BY <1>2, <1>3 DEF ConfirmStart, next

\* The LRU cache of pending starts stays within its capacity.
LEMMA PutPendingType ==
    ASSUME NEW S, NEW q \in Seq(S), Len(q) <= MaxPendingStarts, NEW x \in S
    PROVE  PutPending(q, x) \in Seq(S) /\ Len(PutPending(q, x)) <= MaxPendingStarts
<1>1. MaxPendingStarts \in Nat /\ MaxPendingStarts # 0
  BY SledAssumption
<1>2. CASE Len(q) = MaxPendingStarts
  <2>1. q # <<>>
    BY <1>1, <1>2
  <2>2. Tail(q) \in Seq(S) /\ Len(Tail(q)) = Len(q) - 1
    BY <2>1, HeadTailProperties
  <2>3. Append(Tail(q), x) \in Seq(S) /\ Len(Append(Tail(q), x)) = Len(q)
    BY <2>2
  <2> QED BY <1>2, <2>3 DEF PutPending
<1>3. CASE Len(q) # MaxPendingStarts
  <2>1. Append(q, x) \in Seq(S) /\ Len(Append(q, x)) = Len(q) + 1
    OBVIOUS
  <2> QED BY <1>1, <1>3, <2>1 DEF PutPending
<1> QED BY <1>2, <1>3

\* Queueing a job keeps the state well formed, its universe and its birth.
LEMMA EnqueueJobType ==
    ASSUME NEW st, WellFormed(st), NEW j \in Jobs, NEW here \in BOOLEAN,
           NEW live \in BOOLEAN
    PROVE  /\ WellFormed(EnqueueJob(st, j, here, live))
           /\ EnqueueJob(st, j, here, live).net = st.net
           /\ EnqueueJob(st, j, here, live).birth = st.birth
<1> DEFINE q == [job |-> j, here |-> here, replayed |-> ~live]
           queue == {x \in st.queue : x.job # j} \cup {q}
           status == IF here /\ live THEN "queued" ELSE st.own[j]
           own == [st.own EXCEPT ![j] = status]
<1>1. st \in States /\ IsFiniteSet(st.queue)
  BY DEF WellFormed
<1>2. q \in [job : Jobs, here : BOOLEAN, replayed : BOOLEAN]
  OBVIOUS
<1>3. queue \subseteq [job : Jobs, here : BOOLEAN, replayed : BOOLEAN]
  BY <1>1, <1>2, Zenon DEF States
<1>4. IsFiniteSet(queue)
  <2>1. IsFiniteSet({x \in st.queue : x.job # j})
    BY <1>1, FS_Subset
  <2> QED BY <2>1, FS_AddElement, Zenon
<1>5. own \in [Jobs -> Status]
  BY <1>1 DEF States, Status
<1> DEFINE new == [st EXCEPT !.queue = queue, !.own = own]
<1>6. EnqueueJob(st, j, here, live) \in {st, new}
  BY <1>1 DEF EnqueueJob, States
<1> HIDE DEF queue, own
<1>7. WellFormed(new) /\ new.net = st.net /\ new.birth = st.birth
  BY <1>1, <1>3, <1>4, <1>5, Zenon DEF WellFormed, States
<1> QED BY <1>6, <1>7, Zenon

\* Cancelling a job keeps the state well formed, its universe and its birth.
LEMMA CancelJobType ==
    ASSUME NEW st, WellFormed(st), NEW j \in Jobs, NEW live \in BOOLEAN
    PROVE  /\ WellFormed(CancelJob(st, j, live))
           /\ CancelJob(st, j, live).net = st.net /\ CancelJob(st, j, live).birth = st.birth
<1> DEFINE here == IF j \in QueuedJobs(st)
                   THEN \E q \in st.queue : q.job = j /\ q.here
                   ELSE ~HistoryHas(st, j)
           queue == {x \in st.queue : x.job # j}
           status == IF live /\ here /\ st.own[j] \in {"none", "queued"}
                     THEN "cancelled" ELSE st.own[j]
           own == [st.own EXCEPT ![j] = status]
           new == [st EXCEPT !.queue = queue, !.own = own]
<1>1. st \in States /\ IsFiniteSet(st.queue)
  BY DEF WellFormed
<1>2. queue \subseteq [job : Jobs, here : BOOLEAN, replayed : BOOLEAN]
  BY <1>1 DEF States
<1>3. IsFiniteSet(queue)
  BY <1>1, FS_Subset
<1> HIDE DEF here
<1>4. own \in [Jobs -> Status]
  BY <1>1 DEF States, Status, Terminal
<1>5. CancelJob(st, j, live) \in {st, new}
  BY <1>1 DEF CancelJob, here
<1> HIDE DEF queue, own
<1>6. WellFormed(new) /\ new.net = st.net /\ new.birth = st.birth
  BY <1>1, <1>2, <1>3, <1>4, Zenon DEF WellFormed, States
<1> QED BY <1>5, <1>6, Zenon

\* The jobs to release are entries of the queue.
LEMMA ReadyJobsType ==
    ASSUME NEW st, WellFormed(st)
    PROVE  ReadyJobs(st) \in Seq(st.queue)
<1> DEFINE At(k) == JobsAfter(st.active.next, k)
           c == Cardinality(st.queue)
           I == {i \in 0 .. c : \A k \in 0 .. i - 1 : At(k) \in QueuedJobs(st)}
           n == Greatest(I)
           Pick(k) == CHOOSE q \in st.queue : q.job = At(k - 1)
           f == [k \in 1 .. n |-> Pick(k)]
<1>1. c \in Nat
  BY FS_CardinalityType DEF WellFormed
<1> HIDE DEF At, c
<1>2. 0 \in I
  BY <1>1
<1>3. I \in SUBSET Nat /\ \A i \in I : i <= c
  BY <1>1
<1> HIDE DEF I
<1>4. n \in I
  BY <1>1, <1>2, <1>3, MaxBounded
<1> HIDE DEF n
<1>5. n \in Nat /\ \A k \in 0 .. n - 1 : At(k) \in QueuedJobs(st)
  BY <1>1, <1>4 DEF I
<1>6. ASSUME NEW k \in 1 .. n
      PROVE  Pick(k) \in st.queue
  <2>1. k - 1 \in 0 .. n - 1
    BY <1>5
  <2>2. At(k - 1) \in QueuedJobs(st)
    BY <1>5, <2>1
  <2>3. \E q \in st.queue : q.job = At(k - 1)
    BY <2>2 DEF QueuedJobs
  <2> QED BY <2>3
<1> HIDE DEF Pick
<1>7. f \in Seq(st.queue)
  BY <1>5, <1>6
<1>8. ReadyJobs(st) = f
  BY Zenon DEF ReadyJobs, n, I, c, At, Pick
<1> QED BY <1>7, <1>8

\* What the release loop outputs of a queued job.
LEMMA RulingType ==
    ASSUME NEW st, WellFormed(st), st.active # NoSession, NEW q \in st.queue
    PROVE  Ruling(st, q) \in Outputs
<1>1. /\ st.net \in Universes /\ st.active.id \in Sessions
      /\ q.job \in Jobs
  BY DEF WellFormed, States, ActiveSession
<1>2. [net |-> st.net, session |-> st.active.id, next |-> AfterJob(q.job)] \in Positions
  BY <1>1 DEF Positions
<1>3. Run(q.job, [net |-> st.net, session |-> st.active.id, next |-> AfterJob(q.job)])
        \in Outputs
  BY <1>1, <1>2 DEF Run, Outputs
<1>4. /\ Gossip("skipped", q.job) \in Outputs /\ Gossip("error", q.job) \in Outputs
      /\ Nothing \in Outputs
  BY <1>1 DEF Gossip, Outputs, EventKind
<1> QED BY <1>3, <1>4, Zenon DEF Ruling

\* The rulings on jobs whose turn has come are well-formed outputs.
LEMMA RulingsType ==
    ASSUME NEW st, WellFormed(st), st.active # NoSession, NEW ready \in Seq(st.queue)
    PROVE  Rulings(st, ready) \in Seq(Outputs)
<1>1. ASSUME NEW k \in DOMAIN ready PROVE Ruling(st, ready[k]) \in Outputs
  BY RulingType
<1>2. [k \in DOMAIN ready |-> Ruling(st, ready[k])] \in Seq(Outputs)
  BY <1>1
<1> QED BY <1>2 DEF Rulings

\* The chain head moves to the position after the last released job.
LEMMA PastReadyType ==
    ASSUME NEW st, WellFormed(st), st.active # NoSession,
           NEW Q, Q \subseteq [job : Jobs, here : BOOLEAN, replayed : BOOLEAN],
           NEW ready \in Seq(Q)
    PROVE  /\ WellFormed(PastReady(st, ready)) /\ PastReady(st, ready).net = st.net
           /\ PastReady(st, ready).birth = st.birth
<1>1. CASE ready = <<>>
  BY <1>1 DEF PastReady
<1>2. CASE ready # <<>>
  <2> DEFINE j == ready[Len(ready)].job
             a == [st.active EXCEPT !.next = AfterJob(j), !.head = j]
             new == [st EXCEPT !.active = a]
  <2>1. ready[Len(ready)] \in Q
    BY <1>2
  <2>2. j \in Jobs
    BY <2>1
  <2>3. AfterJob(j) \in Sessions \X Seq({"S", "B"})
    BY <2>2, NextPositions
  <2>4. st \in States /\ st.active \in ActiveSession
    BY DEF WellFormed, States
  <2> HIDE DEF j
  <2>5. a \in ActiveSession
    BY <2>2, <2>3, <2>4, Zenon DEF ActiveSession
  <2>6. PastReady(st, ready) = new
    BY <1>2, <2>4, Zenon DEF PastReady, j, States
  <2> HIDE DEF a
  <2>7. WellFormed(new) /\ new.net = st.net /\ new.birth = st.birth
    BY <2>4, <2>5, Zenon DEF WellFormed, States
  <2> QED BY <2>6, <2>7
<1> QED BY <1>1, <1>2

\* Releasing jobs keeps the state well formed, its universe and its birth.
LEMMA ReleaseReadyJobsType ==
    ASSUME NEW st, WellFormed(st)
    PROVE  /\ WellFormed(ReleaseReadyJobs(st).st)
           /\ ReleaseReadyJobs(st).st.net = st.net
           /\ ReleaseReadyJobs(st).st.birth = st.birth
           /\ ReleaseReadyJobs(st).outs \in Seq(Outputs)
<1>1. CASE st.active = NoSession
  BY <1>1 DEF ReleaseReadyJobs
<1>2. CASE st.active # NoSession
  <2> DEFINE ready == ReadyJobs(st)
             less == [st EXCEPT !.queue = @ \ Range(ready)]
  <2>1. ready \in Seq(st.queue)
    BY ReadyJobsType
  <2>2. Rulings(st, ready) \in Seq(Outputs)
    BY <1>2, <2>1, RulingsType
  <2> HIDE DEF ready
  <2>3. /\ st \in States /\ IsFiniteSet(st.queue)
        /\ st.queue \subseteq [job : Jobs, here : BOOLEAN, replayed : BOOLEAN]
    BY DEF WellFormed, States
  <2>4. IsFiniteSet(st.queue \ Range(ready))
    BY <2>3, FS_Subset
  <2>5. /\ WellFormed(less) /\ less.active = st.active /\ less.net = st.net
        /\ less.birth = st.birth
    BY <2>3, <2>4 DEF WellFormed, States
  <2> HIDE DEF less
  <2>6. /\ WellFormed(PastReady(less, ready)) /\ PastReady(less, ready).net = st.net
        /\ PastReady(less, ready).birth = st.birth
    BY <1>2, <2>1, <2>3, <2>5, PastReadyType
  <2>7. ReleaseReadyJobs(st) = [st |-> PastReady(less, ready), outs |-> Rulings(st, ready)]
    BY <1>2, Zenon DEF ReleaseReadyJobs, ready, less
  <2> QED BY <2>2, <2>6, <2>7
<1> QED BY <1>1, <1>2

\* What is announced of an inherited record's job is well formed.
LEMMA VerdictType ==
    ASSUME NEW b, b.job \in Jobs
    PROVE  Verdict(b) \in Seq(Outputs)
<1>1. \A k \in EventKind : Gossip(k, b.job) \in Outputs
  BY DEF Gossip, Outputs
<1>2. /\ Gossip("start", b.job) \in Outputs /\ Gossip("stop", b.job) \in Outputs
      /\ Gossip("error", b.job) \in Outputs
      /\ Gossip("interrupted", b.job) \in Outputs
  BY <1>1 DEF EventKind
<1> QED BY <1>2 DEF Verdict

\* Settling keeps the state well formed, its universe and its birth.
LEMMA SettleType ==
    ASSUME NEW st, WellFormed(st)
    PROVE  /\ WellFormed(Settle(st).st)
           /\ Settle(st).st.net = st.net /\ Settle(st).st.birth = st.birth
           /\ Settle(st).outs \in Seq(Outputs)
<1> DEFINE due == ReapZombies(st)
           b == st.committed
           rules == connected /\ InheritedHere(st) /\ st.adjudicated # b.job
           reaped == st.reaped \cup due
           adjudicated == IF rules THEN b.job ELSE st.adjudicated
           new == [st EXCEPT !.reaped = reaped, !.adjudicated = adjudicated]
           first == [i \in DOMAIN InSomeOrder(due) |-> Gossip("interrupted", InSomeOrder(due)[i])]
           second == IF rules /\ st.own[b.job] = "none" THEN Verdict(b) ELSE <<>>
<1>1. st \in States /\ IsFiniteSet(st.zombies) /\ st.zombies \subseteq Jobs
  BY DEF WellFormed, States
<1>2. due \in SUBSET Jobs /\ IsFiniteSet(due)
  BY <1>1, FS_Subset DEF ReapZombies
<1> HIDE DEF due
<1>3. first \in Seq(Outputs)
  BY <1>2, AnnouncementType, Zenon DEF EventKind
<1>4. rules => b \in Exec!Boundary /\ b.job \in Jobs
  BY <1>1 DEF InheritedHere, States, Exec!Boundary
<1> HIDE DEF first, rules
<1>5. second \in Seq(Outputs)
  BY <1>4, VerdictType
<1>6. reaped \subseteq Jobs /\ adjudicated \in Jobs \cup {NoJob}
  BY <1>1, <1>2, <1>4 DEF States
<1>7. Settle(st) = [st |-> new, outs |-> first \o second]
  BY Zenon DEF Settle, due, rules, first
<1> HIDE DEF reaped, adjudicated, second
<1>8. WellFormed(new) /\ new.net = st.net /\ new.birth = st.birth
  BY <1>1, <1>6, Zenon DEF WellFormed, States
<1>9. first \o second \in Seq(Outputs)
  BY <1>3, <1>5
<1> HIDE DEF new
<1> QED BY <1>7, <1>8, <1>9

\* Past::new and State::new.
LEMMA FreshStateType ==
    ASSUME NEW u \in Universes, NEW birth \in 1 .. MaxBirths,
           NEW b \in Exec!Boundary \cup {NoRecord}
    PROVE  WellFormed(FreshState(u, birth, b)) /\ FreshState(u, birth, b).net = u
<1>1. IsFiniteSet({})
  BY FS_EmptySet
<1>2. [j \in Jobs |-> "none"] \in [Jobs -> Status]
  BY DEF Status
<1>3. FreshState(u, birth, b) \in States
  BY <1>2 DEF FreshState, States
<1>4. Len(<<>>) <= MaxPendingStarts
  BY SledAssumption
<1> QED BY <1>1, <1>3, <1>4 DEF WellFormed, FreshState

------------------------------------------------------------------------------
(* The executor behind the sled. *)

\* The invariant of the executor is the one that `ExecutorProofs` proves.
LEMMA SameInv == Exec!ExecutorInv <=> EP!ExecutorInv
BY Zenon DEF Exec!ExecutorInv, Exec!ExecutorTypeOK, Exec!LaunchOrder, Exec!RecordCoversSpawned,
       Exec!MemoryCoversTasks, Exec!Committed, Exec!NoRecord, Exec!Launch, Exec!Boundary,
       Exec!Task, Exec!Stages, Exec!Unsent, Exec!Ending, Exec!Terminal,
       EP!ExecutorInv, EP!ExecutorTypeOK, EP!LaunchOrder, EP!RecordCoversSpawned,
       EP!MemoryCoversTasks, EP!Committed, EP!NoRecord, EP!Launch, EP!Boundary,
       EP!Task, EP!Stages, EP!Unsent, EP!Ending, EP!Terminal

\* The same, of the next state.
LEMMA SameInvNext == Exec!ExecutorInv' <=> EP!ExecutorInv'
BY Zenon DEF Exec!ExecutorInv, Exec!ExecutorTypeOK, Exec!LaunchOrder, Exec!RecordCoversSpawned,
       Exec!MemoryCoversTasks, Exec!Committed, Exec!NoRecord, Exec!Launch, Exec!Boundary,
       Exec!Task, Exec!Stages, Exec!Unsent, Exec!Ending, Exec!Terminal,
       EP!ExecutorInv, EP!ExecutorTypeOK, EP!LaunchOrder, EP!RecordCoversSpawned,
       EP!MemoryCoversTasks, EP!Committed, EP!NoRecord, EP!Launch, EP!Boundary,
       EP!Task, EP!Stages, EP!Unsent, EP!Ending, EP!Terminal

\* The calls to the executor are those of `ExecutorProofs`.
LEMMA SameCalls == Exec!ClientStep <=> EP!ClientStep
BY Zenon DEF Exec!ClientStep, Exec!JobStart, Exec!JobStop, Exec!JobStopped, Exec!JobSwap,
       Exec!TakeEvent, Exec!Shutdown, Exec!storeVars, Exec!processVars, Exec!FailedTask,
       Exec!TaskOf, EP!ClientStep, EP!JobStart, EP!JobStop, EP!JobStopped, EP!JobSwap,
       EP!TakeEvent, EP!Shutdown, EP!storeVars, EP!processVars, EP!FailedTask, EP!TaskOf

\* The executor's own steps are those of `ExecutorProofs`.
LEMMA SameTasks == Exec!InternalStep <=> EP!InternalStep
BY Zenon DEF Exec!InternalStep, Exec!Advance, Exec!AdvanceFails, Exec!Spawn, Exec!SpawnFails,
       Exec!Exit, Exec!RecordStatus, Exec!RecordOf, Exec!storeVars, Exec!processVars,
       Exec!FailedTask, Exec!TaskOf, Exec!Displaces, Exec!NoRecord,
       EP!InternalStep, EP!Advance, EP!AdvanceFails, EP!Spawn, EP!SpawnFails,
       EP!Exit, EP!RecordStatus, EP!RecordOf, EP!storeVars, EP!processVars,
       EP!FailedTask, EP!TaskOf, EP!Displaces, EP!NoRecord

\* The constants of the sled meet what the executor assumes of its own.
LEMMA ExecutorConstants == EP!ExecutorAssumption
BY SledAssumption DEF EP!ExecutorAssumption, EP!Terminal, Terminal

\* The executor's invariant holds at the start and through every step of it,
\* by the proof of ExecutorProofs for the sled's constants.
LEMMA ExecutorKept ==
    /\ Exec!ExecutorInit => Exec!ExecutorInv
    /\ Exec!ExecutorInv /\ [Exec!ExecutorNext]_(Exec!executorVars) => Exec!ExecutorInv'
<1>1. Exec!ExecutorInit => EP!ExecutorInit
  BY Zenon DEF Exec!ExecutorInit, EP!ExecutorInit, Exec!NoRecord, EP!NoRecord
<1>2. EP!ExecutorInit => EP!ExecutorInv
  BY ExecutorConstants, EP!ExecutorInitInv
<1>3. [Exec!ExecutorNext]_(Exec!executorVars) => [EP!ExecutorNext]_(EP!executorVars)
  <2>1. Exec!Crash => EP!Crash
    BY Zenon DEF Exec!Crash, EP!Crash, Exec!processVars, EP!processVars,
                 Exec!NoRecord, EP!NoRecord
  <2>2. Exec!MoveOutput => EP!MoveOutput
    BY Zenon DEF Exec!MoveOutput, EP!MoveOutput, Exec!storeVars, EP!storeVars
  <2>3. Exec!executorVars' = Exec!executorVars => EP!executorVars' = EP!executorVars
    BY Zenon DEF Exec!executorVars, EP!executorVars
  <2> QED BY <2>1, <2>2, <2>3, SameCalls, SameTasks, Zenon
             DEF Exec!ExecutorNext, EP!ExecutorNext
<1>4. EP!ExecutorInv /\ [EP!ExecutorNext]_(EP!executorVars) => EP!ExecutorInv'
  BY ExecutorConstants, EP!ExecutorStepInv
<1> QED BY <1>1, <1>2, <1>3, <1>4, SameInv, SameInvNext, Zenon

------------------------------------------------------------------------------
(* The driver keeps the shape of its variables. *)

\* The parts of a message's body.
LEMMA BodyType ==
    ASSUME NEW m \in Messages
    PROVE  /\ m.body.t \in {"session start", "session stop", "skip", "job start"}
                => m.body.session \in Sessions
           /\ m.body.t \in {"skip", "job start", "job stop", "event"} => m.body.job \in Jobs
           /\ m.body.t \in {"session start", "session stop", "skip", "job start", "job stop"}
                => m.body.actor \in Actors
           /\ m.body.t = "job start" => m.body.here \in BOOLEAN
           /\ m.body.t = "event" => m.body.kind \in EventKind
<1>1. m.body \in Requests \cup Events
  BY DEF Messages
<1>2. CASE m.body \in Requests
  BY <1>2, Zenon DEF Requests
<1>3. CASE m.body \in Events
  <2>1. CASE m.body = VersionEvent
    <3>1. m.body.t = "version"
      BY <2>1 DEF VersionEvent
    <3> QED BY <3>1
  <2>2. CASE m.body # VersionEvent
    <3>1. m.body \in [t : {"event"}, sled : {"own", "peer"}, kind : EventKind, job : Jobs,
                      run : Universes \cup {0}]
      BY <1>3, <2>2 DEF Events
    <3> QED BY <3>1, Zenon
  <2> QED BY <2>1, <2>2, Zenon
<1> QED BY <1>1, <1>2, <1>3, Zenon

\* A message is live or not.
LEMMA LiveType ==
    ASSUME SledTypeOK, NEW m \in Messages
    PROVE  Live(m) \in BOOLEAN
<1>1. m.born \in Nat /\ state.birth \in Nat
  BY SledAssumption DEF Messages, SledTypeOK, WellFormed, States
<1> QED BY <1>1 DEF Live

\* A message enters the universe this sled is in.
LEMMA SendType ==
    ASSUME SledTypeOK, NEW m \in Messages, Send(m)
    PROVE  /\ rumors' \in [Universes -> SUBSET Messages]
           /\ unshared' \subseteq rumors'[state.net]
           /\ applied \subseteq rumors'[state.net]
<1>1. state.net \in Universes
  BY DEF SledTypeOK, WellFormed, States
<1>2. /\ rumors \in [Universes -> SUBSET Messages]
      /\ unshared \subseteq rumors[state.net] /\ applied \subseteq rumors[state.net]
  BY DEF SledTypeOK
<1>3. /\ rumors' = [rumors EXCEPT ![state.net] = @ \cup {m}]
      /\ unshared' = unshared \cup ({m} \ rumors[state.net])
  BY DEF Send
<1> QED BY <1>1, <1>2, <1>3

\* An announcement of this sled is a message.
LEMMA OwnType ==
    ASSUME SledTypeOK, NEW kind \in EventKind, NEW j \in Jobs,
           NEW run \in Universes \cup {0}
    PROVE  Own(kind, j, run) \in Messages
<1>1. state.birth \in 0 .. MaxBirths
  BY SledAssumption DEF SledTypeOK, WellFormed, States
<1>2. JobEvent("own", kind, j, run) \in Events
  BY DEF JobEvent, Events
<1> QED BY <1>1, <1>2 DEF Own, Message, Messages

\* The handlers of the state machine.
LEMMA SessionHandlersType ==
    ASSUME SledTypeOK, NEW m \in Messages,
           HandleSessionStart(m) \/ HandleSessionStop(m)
    PROVE  /\ WellFormed(state') /\ state'.net = state.net
           /\ state'.birth = state.birth /\ outs' \in Seq(Outputs)
<1>1. /\ WellFormed(state) /\ outs \in Seq(Outputs) /\ state \in States
  BY DEF SledTypeOK, WellFormed
<1>2. CASE HandleSessionStart(m)
  <2> DEFINE start == [id |-> m.body.session, actor |-> m.body.actor, live |-> Live(m)]
             P == [id : Sessions, actor : Actors, live : BOOLEAN]
             pending == PutPending(state.pending, start)
  <2>1. m.body.session \in Sessions /\ m.body.actor \in Actors
    BY <1>2, BodyType, Zenon DEF HandleSessionStart
  <2>2. Live(m) \in BOOLEAN
    BY LiveType
  <2>3. start \in P
    BY <2>1, <2>2
  <2>4. state.pending \in Seq(P) /\ Len(state.pending) <= MaxPendingStarts
    BY <1>1 DEF WellFormed, States
  <2> HIDE DEF start, P
  <2>5. pending \in Seq(P) /\ Len(pending) <= MaxPendingStarts
    BY <2>3, <2>4, PutPendingType
  <2>6. state' \in {state, [state EXCEPT !.pending = pending]} /\ outs' = outs
    BY <1>2, Zenon DEF HandleSessionStart, start
  <2> HIDE DEF pending
  <2>7. LET new == [state EXCEPT !.pending = pending]
        IN WellFormed(new) /\ new.net = state.net /\ new.birth = state.birth
    BY <1>1, <2>5 DEF WellFormed, States, P
  <2> QED BY <1>1, <2>6, <2>7, Zenon
<1>3. CASE HandleSessionStop(m)
  <2> DEFINE new == [state EXCEPT !.active = NoSession, !.queue = {}]
  <2>1. \/ state' = state /\ outs' = outs
        \/ state' = new /\ outs' = SkipQueuedJobs(state)
    BY <1>3, Zenon DEF HandleSessionStop
  <2>2. WellFormed(new) /\ new.net = state.net /\ new.birth = state.birth
    BY <1>1, FS_EmptySet, Zenon DEF WellFormed, States
  <2>3. SkipQueuedJobs(state) \in Seq(Outputs)
    BY <1>1, SkipQueuedJobsType
  <2> HIDE DEF new
  <2> QED BY <1>1, <2>1, <2>2, <2>3
<1> QED BY <1>2, <1>3

\* The handler of a skip keeps the state well formed.
LEMMA SkipHandlerType ==
    ASSUME SledTypeOK, NEW m \in Messages, HandleSkip(m)
    PROVE  /\ WellFormed(state') /\ state'.net = state.net
           /\ state'.birth = state.birth /\ outs' \in Seq(Outputs)
<1> DEFINE j == m.body.job
           a == [state.active EXCEPT !.next = AfterBurn(j), !.head = NoJob]
           burned == [state EXCEPT !.active = a]
           c == CancelJob(burned, j, Live(m))
           r == ReleaseReadyJobs(c)
<1>1. /\ WellFormed(state) /\ outs \in Seq(Outputs) /\ state \in States
  BY DEF SledTypeOK, WellFormed
<1>2. j \in Jobs /\ Live(m) \in BOOLEAN
  <2>1. Live(m) \in BOOLEAN
    BY LiveType
  <2> QED BY <2>1, BodyType, Zenon DEF HandleSkip
<1>3. AfterBurn(j) \in Sessions \X Seq({"S", "B"})
  BY <1>2, NextPositions
<1>4. \/ state' = state /\ outs' = outs
      \/ /\ state.active # NoSession
         /\ state' = r.st /\ outs' = r.outs
  <2>1. [state EXCEPT !.active.next = AfterBurn(j), !.active.head = NoJob] = burned
    BY <1>1, Zenon DEF States
  <2> HIDE DEF burned
  <2> QED BY <2>1, Zenon DEF HandleSkip, IsActive
<1>5. CASE state.active # NoSession /\ state' = r.st /\ outs' = r.outs
  <2>1. a \in ActiveSession
    BY <1>1, <1>3, <1>5, Zenon DEF States, ActiveSession
  <2> HIDE DEF a, j
  <2>2. WellFormed(burned) /\ burned.net = state.net /\ burned.birth = state.birth
    BY <1>1, <2>1 DEF WellFormed, States
  <2> HIDE DEF burned
  <2>3. WellFormed(c) /\ c.net = state.net /\ c.birth = state.birth
    BY <1>2, <2>2, CancelJobType
  <2> HIDE DEF c
  <2> QED BY <1>5, <2>3, ReleaseReadyJobsType
<1> QED BY <1>1, <1>4, <1>5

\* The handler of a request keeps the state well formed.
LEMMA JobStartHandlerType ==
    ASSUME SledTypeOK, NEW m \in Messages, HandleJobStart(m)
    PROVE  /\ WellFormed(state') /\ state'.net = state.net
           /\ state'.birth = state.birth /\ outs' \in Seq(Outputs)
<1> DEFINE j == m.body.job
           s == m.body.session
           c == ConfirmStart(state, s)
           e == EnqueueJob(c.st, j, m.body.here, Live(m))
           r == ReleaseReadyJobs(e)
           silent == Append(c.outs, Gossip("skipped", j))
<1>1. WellFormed(state) /\ outs \in Seq(Outputs)
  BY DEF SledTypeOK
<1>2. /\ j \in Jobs /\ s \in Sessions /\ m.body.here \in BOOLEAN
  BY BodyType, Zenon DEF HandleJobStart
<1>3. Live(m) \in BOOLEAN
  BY LiveType
<1>4. \/ state' = state /\ outs' = outs
      \/ state' = r.st /\ outs' = c.outs \o r.outs
      \/ state' = c.st /\ outs' \in {silent, c.outs}
  BY Zenon DEF HandleJobStart
<1> HIDE DEF j, s
<1>5. /\ WellFormed(c.st) /\ c.st.net = state.net
      /\ c.st.birth = state.birth /\ c.outs \in Seq(Outputs)
  BY <1>1, <1>2, ConfirmStartType
<1> HIDE DEF c
<1>6. WellFormed(e) /\ e.net = state.net /\ e.birth = state.birth
  BY <1>2, <1>3, <1>5, EnqueueJobType
<1> HIDE DEF e
<1>7. /\ WellFormed(r.st) /\ r.st.net = state.net
      /\ r.st.birth = state.birth /\ r.outs \in Seq(Outputs)
  BY <1>6, ReleaseReadyJobsType
<1> HIDE DEF r
<1>8. Gossip("skipped", j) \in Outputs
  BY <1>2 DEF Gossip, Outputs, EventKind
<1>9. silent \in Seq(Outputs) /\ c.outs \o r.outs \in Seq(Outputs)
  BY <1>5, <1>7, <1>8
<1> QED BY <1>1, <1>4, <1>5, <1>7, <1>9, Zenon

\* The handler of a stop keeps the state well formed.
LEMMA JobStopHandlerType ==
    ASSUME SledTypeOK, NEW m \in Messages, HandleJobStop(m)
    PROVE  /\ WellFormed(state') /\ state'.net = state.net
           /\ state'.birth = state.birth /\ outs' \in Seq(Outputs)
<1> DEFINE j == m.body.job
           c == CancelJob(state, j, Live(m))
<1>1. WellFormed(state) /\ outs \in Seq(Outputs)
  BY DEF SledTypeOK
<1>2. j \in Jobs /\ Live(m) \in BOOLEAN
  BY BodyType, LiveType, Zenon DEF HandleJobStop
<1>3. \/ state' = state /\ outs' = outs
      \/ state' = c /\ outs' = <<Stop(j)>>
  BY Zenon DEF HandleJobStop
<1>4. WellFormed(c) /\ c.net = state.net /\ c.birth = state.birth
  BY <1>1, <1>2, CancelJobType
<1>5. Stop(j) \in Outputs
  BY <1>2 DEF Stop, Outputs
<1>6. <<Stop(j)>> \in Seq(Outputs)
  BY <1>5
<1> HIDE DEF c
<1> QED BY <1>1, <1>3, <1>4, <1>6, Zenon

\* What an own event makes of a job's status.
LEMMA OnEventType ==
    ASSUME NEW old \in Status, NEW kind \in EventKind
    PROVE  OnEvent(old, kind) \in Status
BY DEF OnEvent, OnStart, OnStop, OnEnd, Status, EventKind, Terminal

\* The handlers of events and versions keep the state well formed.
LEMMA EventHandlersType ==
    ASSUME SledTypeOK, NEW m \in Messages,
           HandleOwnEvent(m) \/ HandlePeerEvent(m) \/ HandleVersion(m)
    PROVE  /\ WellFormed(state') /\ state'.net = state.net
           /\ state'.birth = state.birth /\ outs' \in Seq(Outputs)
<1>1. /\ WellFormed(state) /\ outs \in Seq(Outputs) /\ state \in States
  BY DEF SledTypeOK, WellFormed
<1>2. CASE HandleOwnEvent(m)
  <2> DEFINE j == m.body.job
             status == OnEvent(state.own[j], m.body.kind)
             own == [state.own EXCEPT ![j] = status]
             zombies == Zombies(m)
             new == [state EXCEPT !.own = own, !.zombies = zombies]
  <2>1. j \in Jobs /\ m.body.kind \in EventKind
    BY <1>2, BodyType, Zenon DEF HandleOwnEvent
  <2>2. status \in Status
    BY <1>1, <2>1, OnEventType DEF States
  <2>3. zombies \subseteq Jobs /\ IsFiniteSet(zombies)
    <3>1. /\ IsFiniteSet(state.zombies \cup {j}) /\ IsFiniteSet(state.zombies \ {j})
          /\ IsFiniteSet(state.zombies)
      BY <1>1, FS_AddElement, FS_RemoveElement, Zenon DEF WellFormed
    <3>2. zombies \in {state.zombies, state.zombies \cup {j}, state.zombies \ {j}}
      BY Zenon DEF Zombies
    <3> QED BY <1>1, <2>1, <3>1, <3>2, Zenon DEF States
  <2>4. state' = new /\ outs' \in {<<>>, <<Ran(j, status)>>}
    <3>1. state' = [state EXCEPT !.own[j] = status, !.zombies = zombies]
      BY <1>2, Zenon DEF HandleOwnEvent
    <3>2. outs' \in {<<>>, <<Ran(j, status)>>}
      BY <1>2, Zenon DEF HandleOwnEvent
    <3> HIDE DEF status, zombies
    <3>3. state' = new
      BY <1>1, <3>1 DEF States
    <3> QED BY <3>2, <3>3
  <2>5. outs' = <<Ran(j, status)>> => status \in Terminal
    BY <1>2, Zenon DEF HandleOwnEvent
  <2> HIDE DEF status, zombies
  <2>6. own \in [Jobs -> Status]
    BY <1>1, <2>1, <2>2 DEF States
  <2> HIDE DEF own
  <2>7. WellFormed(new) /\ new.net = state.net /\ new.birth = state.birth
    BY <1>1, <2>3, <2>6, Zenon DEF WellFormed, States
  <2>8. status \in Terminal => Ran(j, status) \in Outputs
    BY <2>1 DEF Ran, Outputs
  <2> HIDE DEF new
  <2>9. outs' \in Seq(Outputs)
    <3>1. status \in Terminal => <<Ran(j, status)>> \in Seq(Outputs)
      BY <2>8
    <3>2. <<>> \in Seq(Outputs)
      OBVIOUS
    <3> QED BY <2>4, <2>5, <3>1, <3>2, Zenon
  <2> QED BY <2>4, <2>7, <2>9
<1>3. CASE HandlePeerEvent(m)
  <2>1. m.body.job \in Jobs
    BY <1>3, BodyType, Zenon DEF HandlePeerEvent
  <2>2. state' = [state EXCEPT !.elsewhere = @ \cup {m.body.job}] /\ outs' = outs
    BY <1>3 DEF HandlePeerEvent
  <2> QED BY <1>1, <2>1, <2>2 DEF WellFormed, States
<1>4. CASE HandleVersion(m)
  BY <1>1, <1>4 DEF HandleVersion
<1> QED BY <1>2, <1>3, <1>4

\* A step that leaves the driver's variables alone keeps their shape.
LEMMA IdleType ==
    ASSUME SledTypeOK, Exec!ExecutorTypeOK', UNCHANGED <<driverVars, gossipVars, life, asked>>
    PROVE  SledTypeOK'
BY DEF SledTypeOK, driverVars, gossipVars

\* A call of the API keeps the types.
LEMMA ApiType ==
    ASSUME SledTypeOK, Exec!ExecutorTypeOK', ApiStep
    PROVE  SledTypeOK'
<1>1. PICK b \in asked.local : Submit(b)
  <2>1. PICK b \in asked.local :
          CASE b.t = "session start" -> ApiSessionStart(b.session, b.actor)
            [] b.t = "session stop"  -> ApiSessionStop(b.session, b.actor)
            [] b.t = "skip"          -> ApiSkipJob(b.job, b.actor)
            [] b.t = "job start"     -> ApiJobStart(b.job, b.here, b.actor)
            [] OTHER                 -> ApiJobStop(b.job, b.actor)
    BY Zenon DEF ApiStep
  <2>2. \E x : Submit(x)
    BY <2>1, Zenon DEF ApiSessionStart, ApiSessionStop, ApiSkipJob, ApiJobStart, ApiJobStop
  <2> QED BY <2>2 DEF Submit
<1>2. b \in Requests
  BY ScenariosAssumption DEF SledTypeOK
<1>3. inbox' \in Seq(Requests)
  BY <1>1, <1>2 DEF Submit
<1>4. /\ UNCHANGED <<state, mode, outs, doomed, connected, placed, cubby>>
      /\ UNCHANGED <<rumors, unshared, applied, life, asked>>
  BY <1>1 DEF Submit, gossipVars
<1> QED BY <1>3, <1>4 DEF SledTypeOK

\* Handling a message keeps the types.
LEMMA MessageType ==
    ASSUME SledTypeOK, Exec!ExecutorTypeOK', NEW m \in rumors[state.net], HandleMessage(m)
    PROVE  SledTypeOK'
<1>1. m \in Messages
  BY DEF SledTypeOK, WellFormed, States
<1>2. /\ WellFormed(state') /\ state'.net = state.net
      /\ state'.birth = state.birth /\ outs' \in Seq(Outputs)
  BY <1>1, SessionHandlersType, SkipHandlerType, JobStartHandlerType, JobStopHandlerType,
     EventHandlersType, Zenon DEF HandleMessage
<1>3. Receive(m)
  BY MessagesOnlyOutput
<1>4. /\ UNCHANGED <<doomed, connected, placed, cubby, inbox, rumors, unshared, life, asked>>
      /\ mode' \in {mode, "drain"}
      /\ applied' = applied \cup {m}
  BY <1>3 DEF Receive
<1> QED BY <1>2, <1>4 DEF SledTypeOK

\* Forwarding a request keeps the types.
LEMMA ForwardType ==
    ASSUME SledTypeOK, Exec!ExecutorTypeOK', ForwardRequest
    PROVE  SledTypeOK'
<1> DEFINE m == Message(inbox[1], "own", state.birth)
<1>1. inbox[1] \in Requests
  BY DEF SledTypeOK, ForwardRequest
<1>2. state.birth \in 0 .. MaxBirths
  BY SledAssumption DEF SledTypeOK, WellFormed, States
<1>3. m \in Messages
  BY <1>1, <1>2 DEF Message, Messages
<1>4. Send(m)
  BY DEF ForwardRequest
<1> HIDE DEF m
<1>5. /\ rumors' \in [Universes -> SUBSET Messages]
      /\ unshared' \subseteq rumors'[state.net]
      /\ applied \subseteq rumors'[state.net]
  BY <1>3, <1>4, SendType
<1>6. inbox' \in Seq(Requests)
  BY DEF ForwardRequest
<1>7. UNCHANGED <<state, mode, outs, doomed, connected, placed, cubby, applied, life, asked>>
  BY DEF ForwardRequest
<1> QED BY <1>5, <1>6, <1>7 DEF SledTypeOK

\* An event of the executor keeps the types.
LEMMA EventType ==
    ASSUME SledTypeOK, Exec!ExecutorTypeOK', NEW t \in tasks, ExecutorEvent(t)
    PROVE  SledTypeOK'
<1> DEFINE kind == Head(t.unsent)
           m == Own(kind, t.job, t.at.net)
<1>1. t \in Exec!Task
  BY DEF SledTypeOK, Exec!ExecutorTypeOK
<1>2. t.job \in Jobs /\ t.at.net \in Universes
  BY <1>1 DEF Exec!Task, Positions
<1>3. kind \in EventKind
  <2>1. t.unsent # <<>>
    BY DEF ExecutorEvent, Exec!TakeEvent
  <2>2. t.unsent \in {<<>>, <<"start">>, <<"stop">>, <<"error">>, <<"start", "stop">>,
                      <<"start", "error">>}
    BY <1>1 DEF Exec!Task, Exec!Unsent, Exec!Stages
  <2> QED BY <2>1, <2>2 DEF EventKind
<1>4. m \in Messages
  BY <1>2, <1>3, OwnType
<1>5. /\ UNCHANGED <<state, mode, outs, connected, placed, cubby, inbox, applied, life, asked>>
      /\ \/ doomed' \in {doomed, doomed \ {t.job}} /\ UNCHANGED <<rumors, unshared>>
         \/ Send(m) /\ UNCHANGED doomed
  BY Zenon DEF ExecutorEvent
<1> HIDE DEF m
<1>6. CASE UNCHANGED <<rumors, unshared>>
  BY <1>5, <1>6 DEF SledTypeOK
<1>7. CASE Send(m)
  <2>1. /\ rumors' \in [Universes -> SUBSET Messages]
        /\ unshared' \subseteq rumors'[state.net]
        /\ applied \subseteq rumors'[state.net]
    BY <1>4, <1>7, SendType
  <2> QED BY <1>5, <2>1 DEF SledTypeOK
<1> QED BY <1>5, <1>6, <1>7

\* Applying an output keeps the types.
LEMMA ApplyType ==
    ASSUME SledTypeOK, Exec!ExecutorTypeOK', ApplyOutput
    PROVE  SledTypeOK'
<1> DEFINE o == Head(outs)
           m == Own(o.kind, o.job, 0)
<1>1. o \in Outputs /\ outs' \in Seq(Outputs)
  <2>1. outs \in Seq(Outputs) /\ outs # <<>> /\ outs' = Tail(outs)
    BY DEF SledTypeOK, ApplyOutput
  <2> QED BY <2>1, HeadTailProperties
<1>2. o.t = "gossip" => o.kind \in EventKind /\ o.job \in Jobs
  BY <1>1 DEF Outputs, Nothing
<1>3. o.t = "gossip" => m \in Messages
  BY <1>2, OwnType
<1>4. UNCHANGED <<state, mode, doomed, connected, placed, cubby, inbox, applied, life, asked>>
  BY DEF ApplyOutput
<1>5. o.t \in {"run", "stop", "ran", "gossip", "nothing"}
  BY <1>1 DEF Outputs, Nothing
<1>6. \/ UNCHANGED <<rumors, unshared>>
      \/ o.t = "gossip" /\ Send(m)
  BY <1>5, Zenon DEF ApplyOutput
<1> HIDE DEF m, o
<1>7. CASE UNCHANGED <<rumors, unshared>>
  BY <1>1, <1>4, <1>7 DEF SledTypeOK
<1>8. CASE o.t = "gossip" /\ Send(m)
  <2>1. /\ rumors' \in [Universes -> SUBSET Messages]
        /\ unshared' \subseteq rumors'[state.net]
        /\ applied \subseteq rumors'[state.net]
    BY <1>3, <1>8, SendType
  <2> QED BY <1>1, <1>4, <2>1 DEF SledTypeOK
<1> QED BY <1>6, <1>7, <1>8

\* The end of a drain keeps the types.
LEMMA DrainedType ==
    ASSUME SledTypeOK, Exec!ExecutorTypeOK', Drained
    PROVE  SledTypeOK'
<1>1. /\ WellFormed(state') /\ state'.net = state.net
      /\ state'.birth = state.birth /\ outs' \in Seq(Outputs)
  BY SettleType DEF Drained, SledTypeOK
<1>2. /\ mode' = "run"
      /\ UNCHANGED <<doomed, connected, placed, cubby, inbox, rumors, unshared, applied>>
      /\ UNCHANGED <<life, asked>>
  BY DEF Drained, gossipVars
<1> QED BY <1>1, <1>2 DEF SledTypeOK

\* A universe is entered with a fresh state and one own message.
LEMMA EnterType ==
    ASSUME SledTypeOK, NEW u \in Universes, NEW birth \in 1 .. MaxBirths,
           NEW b \in Exec!Boundary \cup {NoRecord}, EnterUniverse(u, birth, b)
    PROVE  /\ WellFormed(state')
           /\ rumors' \in [Universes -> SUBSET Messages]
           /\ unshared' \subseteq rumors'[state'.net]
           /\ applied' \subseteq rumors'[state'.net]
<1> DEFINE announce == Message(VersionEvent, "own", birth)
           left == [rumors EXCEPT ![state.net] = @ \ unshared]
<1>1. announce \in Messages
  BY SledAssumption DEF Message, Messages, Events
<1> HIDE DEF announce
<1>2. WellFormed(state') /\ state'.net = u
  BY FreshStateType DEF EnterUniverse
<1>3. left \in [Universes -> SUBSET Messages]
  BY Zenon DEF SledTypeOK
<1>4. rumors' = [left EXCEPT ![u] = @ \cup {announce}]
  BY Zenon DEF EnterUniverse, announce, left
<1> HIDE DEF left
<1>5. rumors' \in [Universes -> SUBSET Messages] /\ announce \in rumors'[u]
  BY <1>1, <1>3, <1>4
<1>6. unshared' = {announce} /\ applied' = {announce}
  BY DEF EnterUniverse, announce
<1> QED BY <1>2, <1>5, <1>6

\* A change of universe keeps the types.
LEMMA SwapType ==
    ASSUME SledTypeOK, Exec!ExecutorTypeOK', NEW u \in Universes, Swap(u)
    PROVE  SledTypeOK'
<1>1. state.birth \in 1 .. MaxBirths /\ state.birth < MaxBirths
  BY DEF SledTypeOK, WellFormed, States, Swap
<1>2. state.birth + 1 \in 1 .. MaxBirths
  BY <1>1, SledAssumption
<1>3. boundary \in Exec!Boundary \cup {NoRecord} /\ inflight \subseteq Jobs
  BY DEF SledTypeOK, Exec!ExecutorTypeOK, Exec!NoRecord, NoRecord
<1>4. EnterUniverse(u, state.birth + 1, boundary)
  BY DEF Swap
<1>5. /\ WellFormed(state')
      /\ rumors' \in [Universes -> SUBSET Messages]
      /\ unshared' \subseteq rumors'[state'.net]
      /\ applied' \subseteq rumors'[state'.net]
  BY <1>2, <1>3, <1>4, EnterType
<1>6. /\ mode' = "drain" /\ cubby' = placed /\ doomed' = doomed \cup inflight
      /\ UNCHANGED <<outs, connected, placed, inbox, life, asked>>
  BY DEF Swap
<1> QED BY <1>3, <1>5, <1>6 DEF SledTypeOK

\* A restart keeps the types.
LEMMA RestartType ==
    ASSUME SledTypeOK, Exec!ExecutorTypeOK', Restart
    PROVE  SledTypeOK'
<1>1. state.birth \in 1 .. MaxBirths /\ state.birth < MaxBirths
  BY DEF SledTypeOK, WellFormed, States, Restart
<1>2. state.birth + 1 \in 1 .. MaxBirths
  BY <1>1, SledAssumption
<1>3. boundary' \in Exec!Boundary \cup {NoRecord}
  BY DEF Exec!ExecutorTypeOK, Exec!NoRecord, NoRecord
<1>4. asked.lives \in 1 .. MaxLives /\ life \in 1 .. MaxLives /\ life < asked.lives
  BY ScenariosAssumption DEF SledTypeOK, Restart
<1>5. life + 1 \in 1 .. MaxLives
  BY <1>4, SledAssumption
<1>6. life + 1 \in Universes
  BY <1>5 DEF Universes
<1>7. EnterUniverse(life + 1, state.birth + 1, boundary')
  BY DEF Restart
<1>8. /\ WellFormed(state')
      /\ rumors' \in [Universes -> SUBSET Messages]
      /\ unshared' \subseteq rumors'[state'.net]
      /\ applied' \subseteq rumors'[state'.net]
  BY <1>2, <1>3, <1>6, <1>7, EnterType
<1>9. /\ mode' = "run" /\ outs' = <<>> /\ doomed' = {} /\ connected' = TRUE
      /\ placed' = FALSE /\ cubby' = FALSE /\ inbox' = <<>>
      /\ life' = life + 1 /\ asked' = asked
  BY DEF Restart
<1>10. connected' \in BOOLEAN /\ placed' \in BOOLEAN /\ cubby' \in BOOLEAN
  BY <1>9, Zenon
<1>11. outs' \in Seq(Outputs) /\ inbox' \in Seq(Requests) /\ doomed' \subseteq Jobs
  BY <1>9
<1> QED BY <1>5, <1>8, <1>9, <1>10, <1>11 DEF SledTypeOK

\* The births a peer may have heard of.
LEMMA HeardOfType ==
    ASSUME SledTypeOK, NEW u \in Universes
    PROVE  HeardOf(u) \subseteq 0 .. MaxBirths
<1> DEFINE V == {x \in rumors[u] : x.body = VersionEvent} \ unshared
           heard == {m.born : m \in V}
<1>1. MaxBirths \in Nat
  BY SledAssumption
<1>2. rumors[u] \subseteq Messages
  BY DEF SledTypeOK
<1>3. heard \in SUBSET (0 .. MaxBirths)
  BY <1>2 DEF Messages
<1> HIDE DEF heard
<1>4. heard # {} => Greatest(heard) \in heard
  BY <1>1, <1>3, MaxBounded
<1>5. HeardOf(u) = {0} \cup (IF heard = {} THEN {} ELSE {Greatest(heard)})
  BY Zenon DEF HeardOf, heard
<1>6. 0 \in 0 .. MaxBirths
  BY <1>1
<1>7. heard # {} => Greatest(heard) \in 0 .. MaxBirths
  BY <1>3, <1>4, Zenon
<1> QED BY <1>5, <1>6, <1>7, Zenon

\* A message of a peer keeps the types.
LEMMA PeerSendType ==
    ASSUME SledTypeOK, Exec!ExecutorTypeOK', NEW u \in Universes,
           NEW body \in Requests \cup Events, PeerSend(u, body)
    PROVE  SledTypeOK'
<1>1. PICK born \in HeardOf(u) :
        /\ rumors' = [rumors EXCEPT ![u] = @ \cup {Message(body, "peer", born)}]
        /\ UNCHANGED <<executorVars, driverVars, unshared, applied, life, asked>>
  BY Zenon DEF PeerSend
<1>2. born \in 0 .. MaxBirths
  BY HeardOfType
<1>3. Message(body, "peer", born) \in Messages
  BY <1>2 DEF Message, Messages
<1>4. /\ rumors \in [Universes -> SUBSET Messages] /\ state.net \in Universes
      /\ unshared \subseteq rumors[state.net] /\ applied \subseteq rumors[state.net]
  BY DEF SledTypeOK, WellFormed, States
<1>5. /\ rumors' \in [Universes -> SUBSET Messages]
      /\ unshared \subseteq rumors'[state.net] /\ applied \subseteq rumors'[state.net]
  BY <1>1, <1>3, <1>4
<1>6. /\ UNCHANGED <<state, mode, outs, doomed, connected, placed, cubby, inbox>>
      /\ UNCHANGED <<unshared, applied, life, asked>>
  BY <1>1 DEF driverVars
<1> QED BY <1>5, <1>6 DEF SledTypeOK

\* A step of a peer keeps the types.
LEMMA PeerType ==
    ASSUME SledTypeOK, Exec!ExecutorTypeOK', PeerStep
    PROVE  SledTypeOK'
<1>1. PICK u \in PeerUniverses :
        \/ \E b \in asked.peers[u] : PeerSend(u, b)
        \/ \E j \in asked.events : PeerSend(u, JobEvent("peer", "start", j, 0))
  BY Zenon DEF PeerStep, PeerRequest, PeerEvent
<1>2. asked \in Scenarios
  BY DEF SledTypeOK
<1>3. u \in Universes
  BY <1>2 DEF Universes, PeerUniverses
<1>4. asked.peers[u] \subseteq Requests /\ asked.events \subseteq Jobs
  BY <1>2, ScenariosAssumption DEF PeerUniverses
<1>5. ASSUME NEW j \in Jobs PROVE JobEvent("peer", "start", j, 0) \in Events
  BY DEF JobEvent, Events, EventKind
<1> QED BY <1>1, <1>3, <1>4, <1>5, PeerSendType

\* Switches of the driver's environment.
LEMMA SwitchType ==
    ASSUME SledTypeOK, Exec!ExecutorTypeOK', CubbiesChange \/ CloseNetwork \/ Share
    PROVE  SledTypeOK'
<1>1. CASE CubbiesChange
  <2>1. placed' \in BOOLEAN /\ cubby' \in BOOLEAN
    BY <1>1, Zenon DEF CubbiesChange
  <2>2. /\ UNCHANGED <<state, mode, outs, doomed, connected, inbox>>
        /\ UNCHANGED <<rumors, unshared, applied, life, asked>>
    BY <1>1 DEF CubbiesChange, gossipVars
  <2> QED BY <2>1, <2>2 DEF SledTypeOK
<1>2. CASE CloseNetwork
  <2>1. connected' \in BOOLEAN
    BY <1>2, Zenon DEF CloseNetwork
  <2>2. /\ UNCHANGED <<state, mode, outs, doomed, placed, cubby, inbox>>
        /\ UNCHANGED <<rumors, unshared, applied, life, asked>>
    BY <1>2 DEF CloseNetwork, gossipVars
  <2> QED BY <2>1, <2>2 DEF SledTypeOK
<1>3. CASE Share
  BY <1>3 DEF Share, SledTypeOK, driverVars
<1> QED BY <1>1, <1>2, <1>3

\* Every step keeps the shape of the driver's variables.
LEMMA StepType ==
    ASSUME SledTypeOK, Exec!ExecutorTypeOK', [Next]_vars
    PROVE  SledTypeOK'
<1>1. CASE ApiStep
  BY <1>1, ApiType
<1>2. CASE DriverStep
  BY <1>2, ForwardType, EventType, MessageType, ApplyType, DrainedType, SwapType,
     SwitchType, Zenon DEF DriverStep
<1>3. CASE ExecutorStep \/ Shutdown \/ MoveOutput
  BY <1>3, IdleType, Zenon DEF ExecutorStep, Shutdown, MoveOutput
<1>4. CASE Restart
  BY <1>4, RestartType
<1>5. CASE Share
  BY <1>5, SwitchType
<1>6. CASE PeerStep
  BY <1>6, PeerType
<1>7. CASE UNCHANGED vars
  <2>1. UNCHANGED <<driverVars, gossipVars, life, asked>>
    BY <1>7 DEF vars
  <2> QED BY <2>1, IdleType
<1> QED BY <1>1, <1>2, <1>3, <1>4, <1>5, <1>6, <1>7 DEF Next

\* The types hold at first.
LEMMA InitType ==
    ASSUME Init
    PROVE  SledTypeOK /\ Exec!ExecutorInv
<1>1. Exec!ExecutorInv
  BY ExecutorKept DEF Init
<1>2. Exec!ExecutorTypeOK
  BY <1>1 DEF Exec!ExecutorInv
<1> DEFINE announce == Message(VersionEvent, "own", 1)
<1>3. 1 \in Universes /\ 1 \in 1 .. MaxBirths /\ 1 \in 1 .. MaxLives
  BY SledAssumption DEF Universes
<1>4. announce \in Messages
  BY <1>3 DEF Message, Messages, Events
<1>5. WellFormed(state) /\ state.net = 1
  BY <1>3, FreshStateType DEF Init
<1> HIDE DEF announce
<1>6. /\ rumors \in [Universes -> SUBSET Messages]
      /\ unshared \subseteq rumors[1] /\ applied \subseteq rumors[1]
  BY <1>3, <1>4 DEF Init, announce
<1>7. connected \in BOOLEAN /\ placed \in BOOLEAN /\ cubby \in BOOLEAN
  BY Zenon DEF Init
<1>8. outs \in Seq(Outputs) /\ inbox \in Seq(Requests) /\ doomed \subseteq Jobs
  BY DEF Init
<1>9. mode = "run" /\ life \in 1 .. MaxLives /\ asked \in Scenarios
  BY <1>3 DEF Init
<1> QED BY <1>1, <1>2, <1>5, <1>6, <1>7, <1>8, <1>9 DEF SledTypeOK

------------------------------------------------------------------------------

\* The shapes and the executor's invariant are kept together: the executor's
\* part needs well-formed outputs, the driver's part well-formed tasks.
LEMMA SledStep ==
    SledTypeOK /\ Exec!ExecutorInv /\ [Next]_vars => SledTypeOK' /\ Exec!ExecutorInv'
<1> SUFFICES ASSUME SledTypeOK, Exec!ExecutorInv, [Next]_vars
             PROVE  SledTypeOK' /\ Exec!ExecutorInv'
  OBVIOUS
<1>1. [Exec!ExecutorNext]_(Exec!executorVars)
  BY StepRefines
<1>2. Exec!ExecutorInv'
  BY <1>1, ExecutorKept
<1>3. Exec!ExecutorTypeOK'
  BY <1>2 DEF Exec!ExecutorInv
<1>4. SledTypeOK'
  BY <1>3, StepType
<1> QED BY <1>2, <1>4

\* The driver's variables keep their shapes and the executor keeps its inductive
\* invariant, in every run of the sled.
THEOREM SledInvariant == Spec => [](SledTypeOK /\ Exec!ExecutorInv)
<1>1. Init => SledTypeOK /\ Exec!ExecutorInv
  BY InitType
<1> QED BY <1>1, SledStep, PTL DEF Spec

\* The state machine and its driver keep the shapes that the code gives their
\* variables: sessions, queue, cache of pending starts within its capacity,
\* outputs and messages, through every crash and universe change.
THEOREM SledTypes == Spec => []SledTypeOK
BY SledInvariant, PTL

\* The sled is an implementation of the executor's specification: the state
\* machine, the driver and a crash do to the executor what module Executor
\* allows its client, and nothing else.
THEOREM SledRefinesExecutor == Spec => RefinesExecutor
<1>1. Init => Exec!ExecutorInit
  BY DEF Init
<1>2. SledTypeOK /\ [Next]_vars => [Exec!ExecutorNext]_(Exec!executorVars)
  BY StepRefines
<1> QED BY <1>1, <1>2, SledTypes, PTL DEF Spec, RefinesExecutor, Exec!ExecutorSpec

\* On the whole sled, the record on disk is never behind a process that was
\* spawned, in this life or an earlier one.
THEOREM SledRecordCovers == Spec => []Exec!RecordCoversSpawned
<1>1. Exec!ExecutorInv => Exec!RecordCoversSpawned
  BY DEF Exec!ExecutorInv
<1> QED BY <1>1, SledInvariant, PTL
------------------------------------------------------------------------------
(* For every scenario: a job that was requested of this incarnation live,  *)
(* and that it shows as cancelled, is neither about to run nor running.    *)
(* The argument is about what the state machine keeps of a job between its *)
(* request and its end, Sled's ReleasedOnce.                               *)

\* A state with fewer queue entries and the same statuses is in order too.
LEMMA FewerQueued ==
    ASSUME NEW st, NEW new, NEW R, NEW L,
           new.queue \subseteq st.queue, new.own = st.own,
           QueueInOrder(st, L), ReleasedInOrder(st, R, L)
    PROVE  QueueInOrder(new, L) /\ ReleasedInOrder(new, R, L)
BY DEF QueueInOrder, ReleasedInOrder, QueuedJobs

\* So is one with respect to fewer jobs.
LEMMA FewerJobs ==
    ASSUME NEW st, NEW R, NEW L, NEW R2, NEW L2, L2 \subseteq L, R2 \subseteq R,
           QueueInOrder(st, L), ReleasedInOrder(st, R, L)
    PROVE  QueueInOrder(st, L2) /\ ReleasedInOrder(st, R2, L2)
BY DEF QueueInOrder, ReleasedInOrder

\* cancel_job spares a job that was released.
LEMMA CancelInOrder ==
    ASSUME NEW st, WellFormed(st), NEW j \in Jobs, NEW live, NEW R, NEW L,
           R \subseteq Jobs, QueueInOrder(st, L), ReleasedInOrder(st, R, L)
    PROVE  LET new == CancelJob(st, j, live)
           IN QueueInOrder(new, L) /\ ReleasedInOrder(new, R, L)
<1> DEFINE here == IF j \in QueuedJobs(st)
                   THEN \E q \in st.queue : q.job = j /\ q.here
                   ELSE ~HistoryHas(st, j)
           queue == {x \in st.queue : x.job # j}
           status == IF live /\ here /\ st.own[j] \in {"none", "queued"}
                     THEN "cancelled" ELSE st.own[j]
           own == [st.own EXCEPT ![j] = status]
           mid == [st EXCEPT !.queue = queue]
           new == [mid EXCEPT !.own = own]
<1>1. st \in States /\ st.own \in [Jobs -> Status]
  BY DEF WellFormed, States
<1>2. CancelJob(st, j, live) \in {st, new}
  BY <1>1 DEF CancelJob, States
<1>3. new.queue = queue /\ new.own = own
  BY <1>1 DEF States
<1>4. own \in [Jobs -> Status \cup {"cancelled"}] /\ own[j] = status
      /\ \A k \in Jobs : k # j => own[k] = st.own[k]
  BY <1>1
<1>5. QueueInOrder(new, L)
  <2>1. ASSUME NEW q \in queue PROVE q \in st.queue /\ q.job # j /\ q.job \in Jobs
    BY <1>1 DEF States
  <2> QED BY <1>3, <1>4, <2>1 DEF QueueInOrder
<1>6. ReleasedInOrder(new, R, L)
  <2> SUFFICES ASSUME NEW k \in R \cap L
               PROVE  new.own[k] \notin {"none", "cancelled"} /\ k \notin QueuedJobs(new)
    BY Zenon DEF ReleasedInOrder
  <2>1. st.own[k] \notin {"none", "cancelled"} /\ k \notin QueuedJobs(st)
    BY DEF ReleasedInOrder
  <2>2. k = j => ~here
    BY <2>1 DEF HistoryHas
  <2>3. own[k] = st.own[k]
    BY <1>4, <2>2
  <2>4. k \notin QueuedJobs(new)
    BY <1>3, <2>1 DEF QueuedJobs
  <2> QED BY <1>3, <2>1, <2>3, <2>4
<1> QED BY <1>2, <1>5, <1>6

\* enqueue_job gives a live request a status, and drops it if it has one.
LEMMA EnqueueInOrder ==
    ASSUME NEW st, WellFormed(st), NEW j \in Jobs, NEW here \in BOOLEAN,
           NEW live \in BOOLEAN, NEW R, NEW L,
           R \subseteq Jobs, QueueInOrder(st, L), ReleasedInOrder(st, R, L),
           ~live => j \notin L
    PROVE  LET new == EnqueueJob(st, j, here, live)
           IN QueueInOrder(new, L) /\ ReleasedInOrder(new, R, L)
<1> DEFINE q == [job |-> j, here |-> here, replayed |-> ~live]
           queue == {x \in st.queue : x.job # j} \cup {q}
           status == IF here /\ live THEN "queued" ELSE st.own[j]
           own == [st.own EXCEPT ![j] = status]
           mid == [st EXCEPT !.queue = queue]
           new == [mid EXCEPT !.own = own]
<1>1. st \in States /\ st.own \in [Jobs -> Status]
  BY DEF WellFormed, States
<1>2. \/ EnqueueJob(st, j, here, live) = st
      \/ EnqueueJob(st, j, here, live) = new /\ (live => ~HistoryHas(st, j))
  BY <1>1 DEF EnqueueJob, States
<1>3. new.queue = queue /\ new.own = own
  BY <1>1 DEF States
<1>4. own[j] = status /\ \A k \in Jobs : k # j => own[k] = st.own[k]
  BY <1>1
<1>5. QueueInOrder(new, L)
  <2>1. ASSUME NEW x \in queue, x # q PROVE x \in st.queue /\ x.job # j /\ x.job \in Jobs
    BY <2>1, <1>1 DEF States
  <2>2. /\ q.job = j /\ (q.replayed => q.job \notin L)
        /\ (~q.replayed /\ q.here => own[j] # "none")
    <3>1. q.job = j /\ q.here = here /\ q.replayed = ~live
      OBVIOUS
    <3>2. here /\ live => own[j] = "queued"
      BY <1>4
    <3> HIDE DEF q, own
    <3> QED BY <3>1, <3>2, Zenon
  <2> HIDE DEF q
  <2>3. ASSUME NEW x \in queue
        PROVE  /\ x.replayed => x.job \notin L
               /\ ~x.replayed /\ x.here => own[x.job] # "none"
               /\ \A y \in queue : y.job = x.job => y = x
    <3>1. CASE x = q
      BY <2>1, <2>2, <3>1
    <3>2. CASE x # q
      BY <1>4, <2>1, <2>2, <3>2 DEF QueueInOrder
    <3> QED BY <3>1, <3>2
  <2> HIDE DEF queue, own, new
  <2> QED BY <1>3, <2>3 DEF QueueInOrder
<1>6. ASSUME live => ~HistoryHas(st, j) PROVE ReleasedInOrder(new, R, L)
  <2> SUFFICES ASSUME NEW k \in R \cap L
               PROVE  new.own[k] \notin {"none", "cancelled"} /\ k \notin QueuedJobs(new)
    BY Zenon DEF ReleasedInOrder
  <2>1. st.own[k] \notin {"none", "cancelled"} /\ k \notin QueuedJobs(st)
    BY DEF ReleasedInOrder
  <2>2. k # j
    BY <1>6, <2>1 DEF HistoryHas
  <2>3. own[k] = st.own[k]
    BY <1>4, <2>2
  <2>4. k \notin QueuedJobs(new)
    BY <1>3, <2>1, <2>2 DEF QueuedJobs
  <2> QED BY <1>3, <2>1, <2>3, <2>4
<1> QED BY <1>2, <1>5, <1>6

\* Nothing of what is announced runs a job.
LEMMA AnnouncementsRunNothing ==
    ASSUME NEW order, NEW kind
    PROVE  RunJobs([i \in DOMAIN order |-> Gossip(kind, order[i])]) = {}
BY Zenon DEF RunJobs, Gossip

\* Skipping the queue when a session ends asks for no run.
LEMMA SkipsRunNothing ==
    ASSUME NEW st
    PROVE  RunJobs(SkipQueuedJobs(st)) = {}
<1> DEFINE order == InSomeOrder({q.job : q \in {x \in st.queue : x.here /\ ~x.replayed}})
<1>1. SkipQueuedJobs(st) = [i \in DOMAIN order |-> Gossip("skipped", order[i])]
  BY Zenon DEF SkipQueuedJobs
<1> QED BY <1>1, AnnouncementsRunNothing

\* The runs of two sequences of outputs are the runs of either.
LEMMA RunJobsConcat ==
    ASSUME NEW a \in Seq(Outputs), NEW b \in Seq(Outputs)
    PROVE  RunJobs(a \o b) \subseteq RunJobs(a) \cup RunJobs(b)
<1> SUFFICES ASSUME NEW i \in DOMAIN (a \o b), (a \o b)[i].t = "run"
             PROVE  (a \o b)[i].job \in RunJobs(a) \cup RunJobs(b)
  BY DEF RunJobs
<1>1. /\ i \in 1 .. Len(a) + Len(b)
      /\ (a \o b)[i] = IF i <= Len(a) THEN a[i] ELSE b[i - Len(a)]
  OBVIOUS
<1>2. CASE i <= Len(a)
  BY <1>1, <1>2 DEF RunJobs
<1>3. CASE ~(i <= Len(a))
  <2>1. i - Len(a) \in DOMAIN b
    BY <1>1, <1>3
  <2> QED BY <1>1, <1>3, <2>1 DEF RunJobs
<1> QED BY <1>2, <1>3

\* confirm_start leaves the queue or empties it.
LEMMA ConfirmInOrder ==
    ASSUME NEW st, WellFormed(st), NEW s \in Sessions, NEW R, NEW L,
           QueueInOrder(st, L), ReleasedInOrder(st, R, L)
    PROVE  LET c == ConfirmStart(st, s)
           IN /\ QueueInOrder(c.st, L) /\ ReleasedInOrder(c.st, R, L)
              /\ RunJobs(c.outs) = {}
<1> DEFINE c == ConfirmStart(st, s)
           next == IF InheritedHere(st) /\ st.committed.at.session = s
                   THEN st.committed.at.next ELSE FirstJob(s)
           less == [st EXCEPT !.pending = WithoutPending(st, s)]
<1>1. st \in States
  BY DEF WellFormed
<1>2. \/ c.st = st /\ c.outs = <<>>
      \/ c.st = less /\ c.outs = <<>>
      \/ c.st = Activate(st, s, next) /\ c.outs = SkipQueuedJobs(st)
  BY DEF ConfirmStart
<1>3. less.queue = st.queue /\ less.own = st.own
  BY <1>1 DEF States
<1> HIDE DEF next
<1>4. Activate(st, s, next).queue = {} /\ Activate(st, s, next).own = st.own
  BY <1>1 DEF Activate, States
<1>5. c.st.queue \subseteq st.queue /\ c.st.own = st.own
  BY <1>2, <1>3, <1>4, Zenon
<1>6. RunJobs(<<>>) = {}
  BY DEF RunJobs
<1>7. RunJobs(c.outs) = {}
  BY <1>2, <1>6, SkipsRunNothing
<1> HIDE DEF c
<1>8. QueueInOrder(c.st, L) /\ ReleasedInOrder(c.st, R, L)
  BY <1>5, FewerQueued
<1> QED BY <1>7, <1>8 DEF c

\* release_ready_jobs takes what it releases off the queue, and runs a live
\* request only while it has the status it was queued with.
LEMMA ReleaseInOrder ==
    ASSUME NEW st, WellFormed(st), NEW R, NEW L, R \subseteq Jobs,
           QueueInOrder(st, L), ReleasedInOrder(st, R, L)
    PROVE  LET r == ReleaseReadyJobs(st)
           IN /\ QueueInOrder(r.st, L)
              /\ ReleasedInOrder(r.st, R \cup RunJobs(r.outs), L)
<1> DEFINE r == ReleaseReadyJobs(st)
           ready == ReadyJobs(st)
           less == [st EXCEPT !.queue = @ \ Range(ready)]
           past == PastReady(less, ready)
<1>1. st \in States
  BY DEF WellFormed
<1>2. CASE st.active = NoSession
  <2>1. r.st = st /\ r.outs = <<>>
    BY <1>2 DEF ReleaseReadyJobs
  <2>2. RunJobs(<<>>) = {}
    BY DEF RunJobs
  <2> QED BY <2>1, <2>2, FewerJobs
<1>3. CASE st.active # NoSession
  <2>1. ready \in Seq(st.queue)
    BY <1>3, ReadyJobsType
  <2>2. r.st = past /\ r.outs = Rulings(st, ready)
    BY <1>3, Zenon DEF ReleaseReadyJobs
  <2> HIDE DEF ready, r
  <2>3. less \in States /\ less.queue = st.queue \ Range(ready) /\ less.own = st.own
    BY <1>1 DEF States
  <2> HIDE DEF less
  <2>4. past.queue = less.queue /\ past.own = less.own
    <3> DEFINE a == [less.active EXCEPT !.next = AfterJob(ready[Len(ready)].job),
                                        !.head = ready[Len(ready)].job]
    <3>1. past \in {less, [less EXCEPT !.active = a]}
      BY <2>3, Zenon DEF PastReady, States
    <3> HIDE DEF a, past
    <3> QED BY <2>3, <3>1 DEF States
  <2> HIDE DEF past
  <2>5. QueueInOrder(past, L) /\ ReleasedInOrder(past, R, L)
    BY <2>3, <2>4, FewerQueued
  <2>6. ASSUME NEW j \in RunJobs(Rulings(st, ready)) \cap L
        PROVE  past.own[j] \notin {"none", "cancelled"} /\ j \notin QueuedJobs(past)
    <3> DEFINE os == Rulings(st, ready)
    <3>1. PICK n \in DOMAIN os : os[n].t = "run" /\ os[n].job = j
      BY DEF RunJobs
    <3>2. os \in {<<>>, [i \in DOMAIN ready |-> Ruling(st, ready[i])]}
      BY Zenon DEF Rulings
    <3>3. os = [i \in DOMAIN ready |-> Ruling(st, ready[i])]
      BY <3>1, <3>2
    <3>4. PICK k \in DOMAIN ready : Ruling(st, ready[k]).t = "run"
                                    /\ Ruling(st, ready[k]).job = j
      BY <3>1, <3>3, Zenon
    <3> HIDE DEF os
    <3> DEFINE q == ready[k]
    <3>5. q \in st.queue /\ q \in Range(ready)
      BY <2>1 DEF Range
    <3> HIDE DEF q
    <3>6. Ruling(st, q).t = "run" /\ Ruling(st, q).job = j
      BY <3>4 DEF q
    <3>7. q.job = j /\ q.here /\ (st.own[j] = "none" \/ st.own[j] = "queued")
      BY <3>6, Zenon DEF Ruling, Run, Gossip, Nothing, HistoryHas
    <3>8. st.own[j] = "queued"
      BY <3>5, <3>7 DEF QueueInOrder
    <3>9. j \notin QueuedJobs(past)
      BY <2>3, <2>4, <3>5, <3>7 DEF QueueInOrder, QueuedJobs
    <3> QED BY <2>3, <2>4, <3>8, <3>9
  <2> QED BY <2>2, <2>5, <2>6 DEF ReleasedInOrder, r
<1> QED BY <1>2, <1>3

\* settle runs nothing, and leaves queue and statuses alone.
LEMMA SettleInOrder ==
    ASSUME NEW st, WellFormed(st)
    PROVE  /\ Settle(st).st.queue = st.queue /\ Settle(st).st.own = st.own
           /\ RunJobs(Settle(st).outs) = {}
<1> DEFINE due == ReapZombies(st)
           order == InSomeOrder(due)
           rules == connected /\ InheritedHere(st) /\ st.adjudicated # st.committed.job
           told == [i \in DOMAIN order |-> Gossip("interrupted", order[i])]
           said == IF rules /\ st.own[st.committed.job] = "none" THEN Verdict(st.committed)
                   ELSE <<>>
           reaped == st.reaped \cup due
           adj == IF rules THEN st.committed.job ELSE st.adjudicated
           new == [st EXCEPT !.reaped = reaped, !.adjudicated = adj]
<1>1. Settle(st).st = new /\ Settle(st).outs = told \o said
  BY Zenon DEF Settle
<1>2. new.queue = st.queue /\ new.own = st.own
  <2> HIDE DEF reaped, adj
  <2> QED BY DEF WellFormed, States
<1>3. due \in SUBSET Jobs /\ IsFiniteSet(due)
  BY FS_Subset DEF ReapZombies, WellFormed, States
<1>4. told \in Seq(Outputs)
  BY <1>3, AnnouncementType, Zenon DEF EventKind
<1>5. said \in Seq(Outputs)
  <2>1. rules => st.committed.job \in Jobs
    BY DEF WellFormed, States, InheritedHere, Exec!Boundary
  <2> HIDE DEF rules
  <2>2. <<>> \in Seq(Outputs)
    OBVIOUS
  <2> QED BY <2>1, <2>2, VerdictType, Zenon
<1>6. RunJobs(told) = {}
  BY AnnouncementsRunNothing
<1>7. RunJobs(said) = {}
  <2>1. RunJobs(<<>>) = {}
    BY DEF RunJobs
  <2>2. RunJobs(Verdict(st.committed)) = {}
    BY DEF RunJobs, Verdict, Gossip
  <2> QED BY <2>1, <2>2, Zenon
<1> HIDE DEF told, said, new
<1>8. RunJobs(told \o said) = {}
  BY <1>4, <1>5, <1>6, <1>7, RunJobsConcat
<1> QED BY <1>1, <1>2, <1>8

------------------------------------------------------------------------------
(* The handlers of the state machine. *)

\* An output that is not a run.
LEMMA OneOutputRunsNothing ==
    ASSUME NEW o, o.t # "run"
    PROVE  RunJobs(<<o>>) = {}
BY DEF RunJobs

\* No outputs, no runs.
LEMMA NoOutputRunsNothing == RunJobs(<<>>) = {}
BY DEF RunJobs

\* Starting and stopping sessions releases no job.
LEMMA SessionHandlersInOrder ==
    ASSUME SledTypeOK, NEW m \in Messages, NEW R, NEW L,
           HandleSessionStart(m) \/ HandleSessionStop(m),
           QueueInOrder(state, L), ReleasedInOrder(state, R, L)
    PROVE  /\ QueueInOrder(state', L) /\ ReleasedInOrder(state', R, L)
           /\ RunJobs(outs') = {}
<1>1. state \in States
  BY DEF SledTypeOK, WellFormed
<1>2. outs = <<>>
  BY Zenon DEF HandleSessionStart, HandleSessionStop, Receive
<1>3. CASE HandleSessionStart(m)
  <2> DEFINE pending == PutPending(state.pending,
               [id |-> m.body.session, actor |-> m.body.actor, live |-> Live(m)])
  <2>1. state' \in {state, [state EXCEPT !.pending = pending]} /\ outs' = outs
    BY <1>3, Zenon DEF HandleSessionStart
  <2> HIDE DEF pending
  <2>2. state'.queue = state.queue /\ state'.own = state.own
    BY <1>1, <2>1 DEF States
  <2> QED BY <1>2, <2>1, <2>2, FewerQueued, NoOutputRunsNothing
<1>4. CASE HandleSessionStop(m)
  <2> DEFINE new == [state EXCEPT !.active = NoSession, !.queue = {}]
  <2>1. \/ state' = state /\ outs' = outs
        \/ state' = new /\ outs' = SkipQueuedJobs(state)
    BY <1>4, Zenon DEF HandleSessionStop
  <2>2. new.queue = {} /\ new.own = state.own
    BY <1>1 DEF States
  <2> HIDE DEF new
  <2>3. state'.queue \subseteq state.queue /\ state'.own = state.own
    BY <2>1, <2>2
  <2>4. RunJobs(outs') = {}
    BY <1>2, <2>1, SkipsRunNothing, NoOutputRunsNothing
  <2> QED BY <2>3, <2>4, FewerQueued
<1> QED BY <1>3, <1>4

\* A skip releases only jobs whose turn has come, and skips the others.
LEMMA SkipInOrder ==
    ASSUME SledTypeOK, NEW m \in Messages, HandleSkip(m), NEW R, NEW L, R \subseteq Jobs,
           QueueInOrder(state, L), ReleasedInOrder(state, R, L)
    PROVE  /\ QueueInOrder(state', L)
           /\ ReleasedInOrder(state', R \cup RunJobs(outs'), L)
<1> DEFINE j == m.body.job
           a == [state.active EXCEPT !.next = AfterBurn(j), !.head = NoJob]
           burned == [state EXCEPT !.active = a]
           c == CancelJob(burned, j, Live(m))
           r == ReleaseReadyJobs(c)
<1>1. /\ WellFormed(state) /\ state \in States
  BY DEF SledTypeOK, WellFormed
<1>2. j \in Jobs /\ Live(m) \in BOOLEAN
  <2>1. Live(m) \in BOOLEAN
    BY LiveType
  <2> QED BY <2>1, BodyType, Zenon DEF HandleSkip
<1>3. AfterBurn(j) \in Sessions \X Seq({"S", "B"})
  BY <1>2, NextPositions
<1>4. \/ state' = state /\ outs' = <<>>
      \/ /\ state.active # NoSession
         /\ state' = r.st /\ outs' = r.outs
  <2>1. [state EXCEPT !.active.next = AfterBurn(j), !.active.head = NoJob] = burned
    BY <1>1, Zenon DEF States
  <2>2. outs = <<>>
    BY DEF HandleSkip, Receive
  <2> HIDE DEF burned
  <2> QED BY <2>1, <2>2, Zenon DEF HandleSkip, IsActive
<1>5. CASE state' = state /\ outs' = <<>>
  BY <1>5, NoOutputRunsNothing, Zenon
<1>6. CASE state.active # NoSession /\ state' = r.st /\ outs' = r.outs
  <2>1. a \in ActiveSession
    BY <1>1, <1>3, <1>6, Zenon DEF States, ActiveSession
  <2> HIDE DEF a, j
  <2>2. WellFormed(burned) /\ burned.queue = state.queue /\ burned.own = state.own
    BY <1>1, <2>1 DEF WellFormed, States
  <2> HIDE DEF burned
  <2>3. QueueInOrder(burned, L) /\ ReleasedInOrder(burned, R, L)
    BY <2>2, FewerQueued
  <2>4. WellFormed(c)
    BY <1>2, <2>2, CancelJobType
  <2>5. QueueInOrder(c, L) /\ ReleasedInOrder(c, R, L)
    BY <1>2, <2>2, <2>3, CancelInOrder
  <2> HIDE DEF c
  <2> QED BY <1>6, <2>4, <2>5, ReleaseInOrder
<1> QED BY <1>4, <1>5, <1>6

\* A request releases only jobs whose turn has come; a replayed one was not
\* cancelled live.
LEMMA JobStartInOrder ==
    ASSUME SledTypeOK, NEW m \in Messages, HandleJobStart(m), NEW R, NEW L,
           R \subseteq Jobs, QueueInOrder(state, L), ReleasedInOrder(state, R, L),
           ~Live(m) => m.body.job \notin L
    PROVE  /\ QueueInOrder(state', L)
           /\ ReleasedInOrder(state', R \cup RunJobs(outs'), L)
<1> DEFINE j == m.body.job
           s == m.body.session
           c == ConfirmStart(state, s)
           e == EnqueueJob(c.st, j, m.body.here, Live(m))
           r == ReleaseReadyJobs(e)
           silent == Append(c.outs, Gossip("skipped", j))
<1>1. WellFormed(state)
  BY DEF SledTypeOK
<1>2. /\ j \in Jobs /\ s \in Sessions /\ m.body.here \in BOOLEAN
  BY BodyType, Zenon DEF HandleJobStart
<1>3. Live(m) \in BOOLEAN
  BY LiveType
<1>4. \/ state' = state /\ outs' = <<>>
      \/ state' = r.st /\ outs' = c.outs \o r.outs
      \/ state' = c.st /\ outs' \in {silent, c.outs}
  <2>1. outs = <<>>
    BY Zenon DEF HandleJobStart, Receive
  <2> QED BY <2>1, Zenon DEF HandleJobStart
<1>5. ~Live(m) => j \notin L
  OBVIOUS
<1> HIDE DEF j, s
<1>6. WellFormed(c.st) /\ c.outs \in Seq(Outputs)
  BY <1>1, <1>2, ConfirmStartType
<1>7. QueueInOrder(c.st, L) /\ ReleasedInOrder(c.st, R, L) /\ RunJobs(c.outs) = {}
  BY <1>1, <1>2, ConfirmInOrder
<1> HIDE DEF c
<1>8. WellFormed(e)
  BY <1>2, <1>3, <1>6, EnqueueJobType
<1>9. QueueInOrder(e, L) /\ ReleasedInOrder(e, R, L)
  BY <1>2, <1>3, <1>5, <1>6, <1>7, EnqueueInOrder
<1> HIDE DEF e
<1>10. r.outs \in Seq(Outputs)
  BY <1>8, ReleaseReadyJobsType
<1>11. QueueInOrder(r.st, L) /\ ReleasedInOrder(r.st, R \cup RunJobs(r.outs), L)
  BY <1>8, <1>9, ReleaseInOrder
<1> HIDE DEF r
<1>12. RunJobs(c.outs \o r.outs) \subseteq RunJobs(r.outs)
  BY <1>6, <1>7, <1>10, RunJobsConcat
<1>13. RunJobs(silent) = {}
  <2> DEFINE o == Gossip("skipped", j)
  <2>1. o.t = "gossip"
    BY DEF Gossip
  <2> HIDE DEF o
  <2>2. silent = Append(c.outs, o)
    BY DEF o
  <2>3. \A i \in DOMAIN silent : silent[i].t = "run" => silent[i].job \in RunJobs(c.outs)
    BY <1>6, <2>1, <2>2 DEF RunJobs
  <2> QED BY <1>7, <2>3, Zenon DEF RunJobs
<1>14. CASE state' = state /\ outs' = <<>>
  BY <1>14, NoOutputRunsNothing, Zenon
<1>15. CASE state' = r.st /\ outs' = c.outs \o r.outs
  BY <1>11, <1>12, <1>15, FewerJobs
<1>16. CASE state' = c.st /\ outs' \in {silent, c.outs}
  <2>1. RunJobs(outs') = {}
    BY <1>7, <1>13, <1>16, Zenon
  <2> QED BY <1>7, <1>16, <2>1
<1> QED BY <1>4, <1>14, <1>15, <1>16, Zenon

\* No event takes a status away, and none but a cancelled job is cancelled.
LEMMA EventKeepsStatus ==
    ASSUME NEW old \in Status, NEW kind \in EventKind,
           old \notin {"none", "cancelled"}
    PROVE  OnEvent(old, kind) \notin {"none", "cancelled"}
BY DEF OnEvent, OnStart, OnStop, OnEnd, Status, EventKind, Terminal, Unsettled

\* The sled's own past events release no job.
LEMMA OwnEventInOrder ==
    ASSUME SledTypeOK, NEW m \in Messages, HandleOwnEvent(m), NEW R, NEW L,
           R \subseteq Jobs, QueueInOrder(state, L), ReleasedInOrder(state, R, L)
    PROVE  /\ QueueInOrder(state', L) /\ ReleasedInOrder(state', R, L)
           /\ RunJobs(outs') = {}
<1> DEFINE j == m.body.job
           status == OnEvent(state.own[j], m.body.kind)
           own == [state.own EXCEPT ![j] = status]
           zombies == Zombies(m)
           new == [state EXCEPT !.own = own, !.zombies = zombies]
<1>1. state \in States /\ state.own \in [Jobs -> Status]
  BY DEF SledTypeOK, WellFormed, States
<1>2. j \in Jobs /\ m.body.kind \in EventKind
  BY BodyType, Zenon DEF HandleOwnEvent
<1>3. state' = [state EXCEPT !.own[j] = status, !.zombies = zombies]
  BY Zenon DEF HandleOwnEvent
<1>4. outs' \in {<<>>, <<Ran(j, status)>>}
  BY Zenon DEF HandleOwnEvent
<1>5. state.own[j] # "none" => status # "none"
  BY <1>1, <1>2 DEF OnEvent, OnStart, OnStop, OnEnd, Status, EventKind, Terminal, Unsettled
<1>6. state.own[j] \notin {"none", "cancelled"} => status \notin {"none", "cancelled"}
  BY <1>1, <1>2, EventKeepsStatus
<1> HIDE DEF status, zombies, j
<1>7. state' = new
  BY <1>1, <1>3 DEF States
<1>8. own[j] = status /\ \A k \in Jobs : k # j => own[k] = state.own[k]
  BY <1>1, <1>2
<1> HIDE DEF own
<1>9. new.queue = state.queue /\ new.own = own
  BY <1>1 DEF States
<1> HIDE DEF new
<1>10. QueueInOrder(state', L)
  <2>1. \A q \in state.queue : q.job \in Jobs
    BY <1>1 DEF States
  <2>2. \A k \in Jobs : state.own[k] # "none" => own[k] # "none"
    BY <1>5, <1>8
  <2> QED BY <1>7, <1>9, <2>1, <2>2 DEF QueueInOrder
<1>11. ReleasedInOrder(state', R, L)
  <2>1. \A k \in Jobs : state.own[k] \notin {"none", "cancelled"}
                          => own[k] \notin {"none", "cancelled"}
    BY <1>6, <1>8
  <2> QED BY <1>7, <1>9, <2>1 DEF ReleasedInOrder, QueuedJobs
<1>12. RunJobs(outs') = {}
  <2>1. Ran(j, status).t # "run"
    BY DEF Ran
  <2> QED BY <1>4, <2>1, OneOutputRunsNothing, NoOutputRunsNothing
<1> QED BY <1>10, <1>11, <1>12

\* A stop, a peer's event and a version release no job.
LEMMA OtherHandlersInOrder ==
    ASSUME SledTypeOK, NEW m \in Messages, NEW R, NEW L, R \subseteq Jobs,
           HandleJobStop(m) \/ HandlePeerEvent(m) \/ HandleVersion(m),
           QueueInOrder(state, L), ReleasedInOrder(state, R, L)
    PROVE  /\ QueueInOrder(state', L) /\ ReleasedInOrder(state', R, L)
           /\ RunJobs(outs') = {}
<1>1. WellFormed(state) /\ state \in States
  BY DEF SledTypeOK, WellFormed
<1>2. outs = <<>>
  BY Zenon DEF HandleJobStop, HandlePeerEvent, HandleVersion, Receive
<1>3. CASE HandleJobStop(m)
  <2> DEFINE j == m.body.job
             c == CancelJob(state, j, Live(m))
  <2>1. j \in Jobs
    BY <1>3, BodyType, Zenon DEF HandleJobStop
  <2>2. \/ state' = state /\ outs' = outs
        \/ state' = c /\ outs' = <<Stop(j)>>
    BY <1>3, Zenon DEF HandleJobStop
  <2>3. QueueInOrder(c, L) /\ ReleasedInOrder(c, R, L)
    BY <1>1, <2>1, CancelInOrder
  <2>4. Stop(j).t # "run"
    BY DEF Stop
  <2> HIDE DEF c, j
  <2>5. RunJobs(outs') = {}
    BY <1>2, <2>2, <2>4, OneOutputRunsNothing, NoOutputRunsNothing
  <2> QED BY <2>2, <2>3, <2>5
<1>4. CASE HandlePeerEvent(m)
  <2>1. state' = [state EXCEPT !.elsewhere = @ \cup {m.body.job}] /\ outs' = outs
    BY <1>4 DEF HandlePeerEvent
  <2>2. state'.queue = state.queue /\ state'.own = state.own
    BY <1>1, <2>1 DEF States
  <2> QED BY <1>2, <2>1, <2>2, FewerQueued, NoOutputRunsNothing, Zenon
<1>5. CASE HandleVersion(m)
  BY <1>2, <1>5, NoOutputRunsNothing DEF HandleVersion
<1> QED BY <1>3, <1>4, <1>5

\* The driver applies one message.  A replayed request takes its job out of
\* the jobs the property is about.
LEMMA MessageInOrder ==
    ASSUME SledTypeOK, ReleasedOnce, NEW m \in rumors[state.net], HandleMessage(m)
    PROVE  ReleasedOnce'
<1> DEFINE L == LiveJobs'
<1>1. m \in Messages
  BY DEF SledTypeOK, WellFormed, States
<1>2. state'.birth = state.birth
  BY <1>1, SessionHandlersType, SkipHandlerType, JobStartHandlerType, JobStopHandlerType,
     EventHandlersType, Zenon DEF HandleMessage
<1>3. Receive(m) /\ inflight' = inflight
  BY MessagesOnlyOutput, Zenon DEF Receive, executorVars
<1>4. outs = <<>> /\ applied' = applied \cup {m}
  BY <1>3 DEF Receive
<1>5. L \subseteq LiveJobs
  BY <1>2, <1>4, Zenon DEF LiveJobs, Live
<1>6. m.body.t = "job start" /\ ~Live(m) => m.body.job \notin L
  BY <1>2, <1>4, Zenon DEF LiveJobs, Live
<1> HIDE DEF L
<1>7. inflight \subseteq Jobs
  BY DEF SledTypeOK, Exec!ExecutorTypeOK
<1>8. QueueInOrder(state, L) /\ ReleasedInOrder(state, inflight, L)
  <2>1. inflight \subseteq inflight \cup RunJobs(outs)
    OBVIOUS
  <2> QED
    BY <1>5, <2>1, FewerJobs, Zenon DEF ReleasedOnce
<1>9. /\ QueueInOrder(state', L)
      /\ ReleasedInOrder(state', inflight \cup RunJobs(outs'), L)
  <2>1. CASE HandleSkip(m)
    BY <1>1, <1>7, <1>8, <2>1, SkipInOrder
  <2>2. CASE HandleJobStart(m)
    <3>1. m.body.t = "job start"
      BY <2>2, Zenon DEF HandleJobStart
    <3> QED BY <1>1, <1>6, <1>7, <1>8, <2>2, <3>1, JobStartInOrder, Zenon
  <2>3. CASE \/ HandleSessionStart(m) \/ HandleSessionStop(m) \/ HandleJobStop(m)
             \/ HandleOwnEvent(m) \/ HandlePeerEvent(m) \/ HandleVersion(m)
    <3>1. /\ QueueInOrder(state', L) /\ ReleasedInOrder(state', inflight, L)
          /\ RunJobs(outs') = {}
      BY <1>1, <1>7, <1>8, <2>3, SessionHandlersInOrder, OwnEventInOrder,
         OtherHandlersInOrder, Zenon
    <3> QED BY <3>1
  <2> QED BY <2>1, <2>2, <2>3, Zenon DEF HandleMessage
<1> QED BY <1>3, <1>9 DEF ReleasedOnce, L

\* A step of the executor or of the environment: the state machine keeps its
\* state, and no job is added to those in flight or to be run.
LEMMA QuietInOrder ==
    ASSUME ReleasedOnce, UNCHANGED <<state, applied>>,
           inflight' \cup RunJobs(outs') \subseteq inflight \cup RunJobs(outs)
    PROVE  ReleasedOnce'
<1>1. LiveJobs' = LiveJobs
  BY DEF LiveJobs, Live
<1> QED BY <1>1, FewerJobs DEF ReleasedOnce

\* apply_outputs: the job of the first output is in flight from here on.
LEMMA ApplyInOrder ==
    ASSUME SledTypeOK, ReleasedOnce, ApplyOutput
    PROVE  ReleasedOnce'
<1> DEFINE o == Head(outs)
<1>1. outs \in Seq(Outputs) /\ outs # <<>> /\ outs' = Tail(outs)
  BY DEF SledTypeOK, ApplyOutput
<1>2. o \in Outputs /\ o = outs[1] /\ 1 \in DOMAIN outs
  BY <1>1
<1>3. RunJobs(outs') \subseteq RunJobs(outs)
  <2>1. \A i \in DOMAIN outs' : i + 1 \in DOMAIN outs /\ outs'[i] = outs[i + 1]
    BY <1>1
  <2> QED BY <2>1 DEF RunJobs
<1>4. o.t = "run" => o.job \in RunJobs(outs)
  BY <1>2 DEF RunJobs
<1>5. o.t \in {"run", "stop", "ran", "gossip", "nothing"}
  BY <1>2 DEF Outputs, Nothing
<1>6. \/ o.t = "run" /\ Exec!JobStart(o.job, o.at)
      \/ o.t = "stop" /\ Exec!JobStop(o.job)
      \/ o.t = "ran" /\ Exec!JobStopped(o.job, o.status)
      \/ UNCHANGED executorVars
  BY <1>5, Zenon DEF ApplyOutput
<1> HIDE DEF o
<1>7. inflight' \subseteq inflight \cup RunJobs(outs)
  <2>1. CASE o.t = "run" /\ Exec!JobStart(o.job, o.at)
    <3>1. inflight' \subseteq inflight \cup {o.job}
      BY <2>1 DEF Exec!JobStart
    <3> QED BY <1>4, <2>1, <3>1
  <2>2. CASE Exec!JobStop(o.job)
    BY <2>2 DEF Exec!JobStop
  <2>3. CASE Exec!JobStopped(o.job, o.status)
    BY <2>3 DEF Exec!JobStopped
  <2>4. CASE UNCHANGED executorVars
    BY <2>4 DEF executorVars
  <2> QED BY <1>6, <2>1, <2>2, <2>3, <2>4
<1>8. UNCHANGED <<state, applied>>
  BY DEF ApplyOutput
<1> QED BY <1>3, <1>7, <1>8, QuietInOrder

\* The end of a drain.
LEMMA DrainedInOrder ==
    ASSUME SledTypeOK, ReleasedOnce, Drained
    PROVE  ReleasedOnce'
<1>1. WellFormed(state)
  BY DEF SledTypeOK
<1>2. state' = Settle(state).st /\ outs' = Settle(state).outs
  BY DEF Drained
<1>3. /\ state'.queue = state.queue /\ state'.own = state.own
      /\ state'.birth = state.birth /\ RunJobs(outs') = {}
  BY <1>1, <1>2, SettleInOrder, SettleType, Zenon
<1>4. applied' = applied /\ inflight' = inflight
  BY DEF Drained, gossipVars, executorVars
<1>5. LiveJobs' = LiveJobs
  BY <1>3, <1>4 DEF LiveJobs, Live
<1>6. QueueInOrder(state, LiveJobs) /\ ReleasedInOrder(state, inflight, LiveJobs)
  BY FewerJobs DEF ReleasedOnce
<1>7. QueueInOrder(state', LiveJobs) /\ ReleasedInOrder(state', inflight, LiveJobs)
  BY <1>3, <1>6, FewerQueued
<1> QED BY <1>3, <1>4, <1>5, <1>7 DEF ReleasedOnce

\* A new incarnation starts with nothing queued and nothing in flight.
LEMMA EnterInOrder ==
    ASSUME NEW u, NEW birth, NEW record, EnterUniverse(u, birth, record),
           inflight' = {}, outs' = <<>>
    PROVE  ReleasedOnce'
<1>1. state'.queue = {}
  BY DEF EnterUniverse, FreshState
<1>2. inflight' \cup RunJobs(outs') = {}
  BY NoOutputRunsNothing
<1> QED BY <1>1, <1>2 DEF ReleasedOnce, QueueInOrder, ReleasedInOrder

\* The executor's own steps neither add to nor take from what is under way.
LEMMA InternalInOrder ==
    ASSUME Exec!InternalStep
    PROVE  inflight' = inflight
BY Zenon DEF Exec!InternalStep, Exec!Advance, Exec!AdvanceFails, Exec!Spawn, Exec!SpawnFails,
       Exec!Exit, Exec!RecordStatus

\* Every step keeps the released jobs in order.
LEMMA StepInOrder ==
    ASSUME SledTypeOK, ReleasedOnce, [Next]_vars
    PROVE  ReleasedOnce'
<1>1. CASE \/ ApiStep \/ Share \/ PeerStep \/ ForwardRequest
           \/ CubbiesChange \/ CloseNetwork \/ UNCHANGED vars
  <2>1. UNCHANGED <<state, applied, inflight, outs>>
    BY <1>1, Zenon
       DEF ApiStep, ApiSessionStart, ApiSessionStop, ApiSkipJob, ApiJobStart, ApiJobStop,
           Submit, Share, PeerStep, PeerRequest, PeerEvent, PeerSend, ForwardRequest,
           CubbiesChange, CloseNetwork, vars, executorVars, driverVars, gossipVars
  <2> QED BY <2>1, QuietInOrder
<1>2. CASE \E t \in tasks : ExecutorEvent(t)
  <2>1. UNCHANGED <<state, applied, outs>> /\ inflight' \subseteq inflight
    BY <1>2 DEF ExecutorEvent, Exec!TakeEvent
  <2> QED BY <2>1, QuietInOrder
<1>3. CASE ExecutorStep \/ Shutdown \/ MoveOutput
  <2>1. UNCHANGED <<state, applied, outs>>
    BY <1>3 DEF ExecutorStep, Shutdown, MoveOutput, driverVars, gossipVars
  <2>2. inflight' = inflight
    BY <1>3, InternalInOrder
       DEF ExecutorStep, Shutdown, MoveOutput, Exec!Shutdown, Exec!MoveOutput
  <2> QED BY <2>1, <2>2, QuietInOrder
<1>4. CASE \E m \in rumors[state.net] : HandleMessage(m)
  BY <1>4, MessageInOrder
<1>5. CASE ApplyOutput
  BY <1>5, ApplyInOrder
<1>6. CASE Drained
  BY <1>6, DrainedInOrder
<1>7. CASE \E u \in Universes : Swap(u)
  <2>1. PICK u \in Universes : Swap(u)
    BY <1>7
  <2>2. EnterUniverse(u, state.birth + 1, boundary) /\ inflight' = {} /\ outs' = <<>>
    BY <2>1 DEF Swap, Idle, Exec!JobSwap
  <2> QED BY <2>2, EnterInOrder
<1>8. CASE Restart
  <2>1. /\ EnterUniverse(life + 1, state.birth + 1, boundary')
        /\ inflight' = {} /\ outs' = <<>>
    BY <1>8 DEF Restart, Exec!Crash
  <2> QED BY <2>1, EnterInOrder
<1> QED BY <1>1, <1>2, <1>3, <1>4, <1>5, <1>6, <1>7, <1>8, Zenon DEF Next, DriverStep

------------------------------------------------------------------------------

\* What the state machine keeps of a job that it released: it is queued no
\* more and its status is neither absent nor cancelled.
THEOREM ReleasedInvariant == Spec => []ReleasedOnce
<1>1. Init => ReleasedOnce
  <2> SUFFICES ASSUME Init PROVE ReleasedOnce
    OBVIOUS
  <2>1. state.queue = {}
    BY DEF Init, FreshState
  <2>2. inflight \cup RunJobs(outs) = {}
    BY NoOutputRunsNothing DEF Init, Exec!ExecutorInit
  <2> QED BY <2>1, <2>2 DEF ReleasedOnce, QueueInOrder, ReleasedInOrder
<1>2. SledTypeOK /\ ReleasedOnce /\ [Next]_vars => ReleasedOnce'
  BY StepInOrder
<1> QED BY <1>1, <1>2, SledTypes, PTL DEF Spec

\* A job that this sled shows as cancelled is not about to run or running, in
\* whatever order a skip or stop of it and its release arrive, for every
\* scenario of requests, crashes and universe changes.
THEOREM NoCancelledLaunched == Spec => []NoCancelledJobLaunched
<1>1. ReleasedOnce => NoCancelledJobLaunched
  BY DEF ReleasedOnce, ReleasedInOrder, NoCancelledJobLaunched
<1> QED BY <1>1, ReleasedInvariant, PTL
===============================================================================
