-------------------------------- MODULE Sled --------------------------------
(***************************************************************************)
(* One sled's server: the session state machine and its driver loop        *)
(* (server/src/state.rs), the request checks of the manager in front of it *)
(* (server/src/manager.rs), and the executor and boundary store behind it  *)
(* (module Executor), through crashes, restarts and universe changes.      *)
(*                                                                         *)
(* The rest of the rack is the most general environment: peers put         *)
(* requests and events into any universe, with or without having heard of  *)
(* this sled's birth.  The rumors library is external; what is used of it  *)
(* is that messages are delivered once each, in an order that respects     *)
(* causality, and that a crash loses the messages no peer has received.    *)
(*                                                                         *)
(* A job id is <<session, path>>: the position in the session's hash       *)
(* chain, where path records, for each position before it, whether it was  *)
(* started ("S") or burned ("B").  There is one signed job per id.         *)
(***************************************************************************)
EXTENDS Naturals, Sequences, FiniteSets, Functions, JobStatus

CONSTANTS
    Sessions,         \* session ids, positive numbers, ordered as the ids are
    SessionSeq,       \* the signer-assigned sequence number of each session
    OriginLife,       \* the life of this sled whose nonce a session id binds,
                      \* or 0 when another sled's nonce does
    Jobs,             \* the job ids clients may name
    JobKind,          \* per job: "plain", "cubby" (its signed target names
                      \* this sled by cubby), "foreign" (it does not name this
                      \* sled), "dash" (bad command), "unverified"
    Scenarios,        \* what may be asked in a behaviour, see `asked`
    LaunchCapacity, MaxPendingStarts, MaxQueuedJobs,
    Faults,           \* see Executor
    MayShutDown,      \* whether the server may be shut down in an orderly way
    MaxLives,         \* bound on the lives of the server process
    MaxBirths         \* bound on the universes entered, over all lives

\* Life n of the server seeds universe n; peers may have universes of their own.
Universes == 1 .. MaxLives \cup UNION {DOMAIN sc.peers : sc \in Scenarios}

\* Session ids start at 1, so 0 is free to mean none.
ASSUME SledAssumption ==
    /\ Sessions \subseteq Nat \ {0}
    /\ SessionSeq \in [Sessions -> Nat]
    /\ OriginLife \in [Sessions -> Nat]
    /\ Jobs \subseteq Sessions \X Seq({"S", "B"})
    /\ JobKind \in [Jobs -> {"plain", "cubby", "foreign", "dash", "unverified"}]
    /\ LaunchCapacity \in Nat \ {0}
    /\ MaxPendingStarts \in Nat \ {0} /\ MaxQueuedJobs \in Nat
    /\ Faults \subseteq {"store", "load", "spawn", "join", "output"}
    /\ MayShutDown \in BOOLEAN
    /\ MaxLives \in Nat \ {0} /\ MaxBirths \in Nat \ {0}

VARIABLES
    open, issued, inflight, launch, tasks, boundary, disk, recording, files,
    newest, ran,      \* the executor's, see Executor
    state,            \* State, replaced at every entry into a universe
    mode,             \* "run", or "drain" inside drain_ready
    outs,             \* outputs of the last step still to be applied
    doomed,           \* jobs killed at a universe swap
    connected,        \* FALSE once the driver dropped its network handle
    placed,           \* the current cubby map has an entry for this sled
    cubby,            \* Rack::own_cubby is known
    inbox,            \* the channel of local requests
    rumors,           \* per universe, the messages sent into it
    unshared,         \* own messages that no peer has received yet
    applied,          \* the messages this incarnation has applied
    life,             \* the number of this server process
    asked             \* the scenario: `local` are the request bodies clients may
                      \* send to this sled, `peers` those that peers may send,
                      \* per universe with peers, `events` the jobs they may
                      \* report about; `repeat` is whether they may forward a
                      \* request twice, `moves` whether output directories move,
                      \* and `lives` bounds the crashes

executorVars ==
    <<open, issued, inflight, launch, tasks, boundary, disk, recording,
      files, newest, ran>>
driverVars == <<state, mode, outs, doomed, connected, placed, cubby, inbox>>
gossipVars == <<rumors, unshared, applied>>
vars == <<executorVars, driverVars, gossipVars, life, asked>>

PeerUniverses == DOMAIN asked.peers

------------------------------------------------------------------------------
(* Job chains (common/src/jobs.rs). *)

NoJob == <<0, <<>>>>
SessionOf(j) == j[1]

FirstJob(s) == <<s, <<>>>>
AfterJob(j) == <<j[1], Append(j[2], "S")>>
AfterBurn(j) == <<j[1], Append(j[2], "B")>>

\* The position k jobs after j when every job on the way is started.
JobsAfter(j, k) == <<j[1], j[2] \o [i \in 1 .. k |-> "S"]>>

\* What a boundary record holds beside its job and status.
Positions == [net : Universes, session : Sessions, next : {AfterJob(j) : j \in Jobs}]

NoRecord == [n |-> 0]

Exec == INSTANCE Executor WITH
            At <- Positions, Endings <- Terminal

------------------------------------------------------------------------------
(* Messages (server/src/messages.rs). *)

SessionStart(s, a)      == [t |-> "session start", session |-> s, actor |-> a]
SessionStop(s, a)       == [t |-> "session stop", session |-> s, actor |-> a]
SkipJob(j, a)           == [t |-> "skip", session |-> SessionOf(j), job |-> j, actor |-> a]
JobStart(j, here, a)    == [t |-> "job start", session |-> SessionOf(j), job |-> j,
                            here |-> here, actor |-> a]
JobStop(j, a)           == [t |-> "job stop", job |-> j, actor |-> a]
\* `run` is the universe for which the executor ran the job, and 0 in an
\* event that the state machine itself decided on.
JobEvent(sled, kind, j, run) ==
    [t |-> "event", sled |-> sled, kind |-> kind, job |-> j, run |-> run]
VersionEvent            == [t |-> "version"]

Actors == {"a", "b"}

Requests ==
    [t : {"session start", "session stop"}, session : Sessions, actor : Actors]
    \cup [t : {"skip"}, session : Sessions, job : Jobs, actor : Actors]
    \cup [t : {"job start"}, session : Sessions, job : Jobs, here : BOOLEAN,
          actor : Actors]
    \cup [t : {"job stop"}, job : Jobs, actor : Actors]

Events ==
    [t : {"event"}, sled : {"own", "peer"}, kind : EventKind, job : Jobs,
     run : Universes \cup {0}]
    \cup {VersionEvent}

ASSUME ScenariosAssumption ==
    \A sc \in Scenarios :
      /\ sc.local \subseteq Requests
      /\ \A u \in DOMAIN sc.peers : sc.peers[u] \subseteq Requests
      /\ sc.events \subseteq Jobs /\ sc.moves \in BOOLEAN
      /\ sc.lives \in 1 .. MaxLives

\* `born` is the latest birth of this sled in the message's causal past.
Message(body, via, born) == [body |-> body, via |-> via, born |-> born]

Live(m) == m.born >= state.birth

\* The messages of which at least one lies in m's causal past, grouped by
\* why: a job is accepted where its session was started, a stop or a skip
\* where the session is active, an event where the job was known, and the
\* end of a job comes after its start.
Causes(msgs, m) ==
    LET b == m.body
        Of(T, ok(_)) == {d \in msgs : d.body.t = T /\ ok(d.body)}
    IN CASE b.t = "job start" ->
              {Of("session start", LAMBDA d : d.session = b.session)}
         [] b.t \in {"session stop", "skip"} ->
              {Of("job start", LAMBDA d : d.session = b.session)}
         [] b.t = "job stop" ->
              {Of("job start", LAMBDA d : d.job = b.job)}
         [] b.t = "event" ->
              {Of("job start", LAMBDA d : d.job = b.job)}
              \cup IF b.kind = "start" THEN {}
                   ELSE {{d \in msgs : /\ d.body.t = "event" /\ d.body.kind = "start"
                                       /\ d.body.sled = b.sled /\ d.body.job = b.job
                                       /\ d.born = m.born}}
         [] OTHER -> {}

\* A message some of whose causes are in the universe waits for one of them.
Ready(m) ==
    /\ m \in rumors[state.net] \ applied
    /\ \A C \in Causes(rumors[state.net], m) : C = {} \/ C \cap applied # {}

Own(kind, j, run) == Message(JobEvent("own", kind, j, run), "own", state.birth)

Send(m) ==
    /\ rumors' = [rumors EXCEPT ![state.net] = @ \cup {m}]
    /\ unshared' = unshared \cup ({m} \ rumors[state.net])

------------------------------------------------------------------------------
(* The state machine (server/src/state.rs). *)

NoSession == [id |-> 0]

\* Past::new and State::new at an entry into universe u.
FreshState(u, birth, committed) ==
    [net |-> u, birth |-> birth, committed |-> committed,
     zombies |-> {}, reaped |-> {}, adjudicated |-> NoJob,
     active |-> NoSession, queue |-> {}, pending |-> <<>>,
     own |-> [j \in Jobs |-> "none"],   \* this sled's entry of each status map
     elsewhere |-> {}]                  \* jobs with an entry of another sled

\* Start s exceeds the active session in the order by sequence number, then id.
Outranks(s, active) ==
    IF active = NoSession THEN TRUE
    ELSE \/ SessionSeq[s] > SessionSeq[active.id]
         \/ SessionSeq[s] = SessionSeq[active.id] /\ s > active.id

IsActive(st, s) == st.active # NoSession /\ st.active.id = s
StartedBy(st, a) == st.active # NoSession /\ st.active.starter = a
IsPending(st, s) == \E i \in DOMAIN st.pending : st.pending[i].id = s
QueuedJobs(st) == {q.job : q \in st.queue}
HistoryHas(st, j) == st.own[j] # "none" \/ j \in st.elsewhere
IsJobKnown(st, j) == HistoryHas(st, j) \/ j \in QueuedJobs(st)

\* Past::boundary: the inherited record, if it belongs to this universe.
InheritedHere(st) == st.committed # NoRecord /\ st.committed.at.net = st.net


\* Past::screen.
Admits(st) ==
    IF st.committed = NoRecord THEN st.active.live
    ELSE \/ SessionSeq[st.active.id] > SessionSeq[st.committed.at.session]
         \/ InheritedHere(st) /\ st.committed.at.session = st.active.id

Gossip(kind, j) == [t |-> "gossip", kind |-> kind, job |-> j]
Run(j, at) == [t |-> "run", job |-> j, at |-> at]
Stop(j) == [t |-> "stop", job |-> j]
Ran(j, status) == [t |-> "ran", job |-> j, status |-> status]
Nothing == [t |-> "nothing"]

\* A hash map is walked in an order of its own.
InSomeOrder(S) == CHOOSE f \in [1 .. Cardinality(S) -> S] : IsInjective(f)

\* State::skip_queued_jobs.
SkipQueuedJobs(st) ==
    LET skipped == {q.job : q \in {x \in st.queue : x.here /\ ~x.replayed}}
        order == InSomeOrder(skipped)
    IN [i \in DOMAIN order |-> Gossip("skipped", order[i])]

\* LruCache::put of a start that is not pending yet.
PutPending(pending, start) ==
    Append(IF Len(pending) = MaxPendingStarts THEN Tail(pending) ELSE pending, start)

\* LruCache::pop of the start of s.
PendingAt(st, s) == CHOOSE i \in DOMAIN st.pending : st.pending[i].id = s
WithoutPending(st, s) ==
    LET i == PendingAt(st, s)
    IN SubSeq(st.pending, 1, i - 1) \o SubSeq(st.pending, i + 1, Len(st.pending))

\* Activates a pending start, at position `next`.
Activate(st, s, next) ==
    LET start == st.pending[PendingAt(st, s)] IN
    [st EXCEPT !.pending = WithoutPending(st, s),
               !.active = [id |-> s, live |-> start.live, starter |-> start.actor,
                           next |-> next, head |-> NoJob],
               !.queue = {}]

\* Mutant of ConfirmStart: a session the record names starts over.
ConfirmStartOver(st, s) ==
    IF ~IsPending(st, s) THEN [st |-> st, outs |-> <<>>]
    ELSE IF ~Outranks(s, st.active)
    THEN [st |-> [st EXCEPT !.pending = WithoutPending(st, s)], outs |-> <<>>]
    ELSE [st |-> Activate(st, s, FirstJob(s)), outs |-> SkipQueuedJobs(st)]

\* State::confirm_start.
ConfirmStart(st, s) ==
    IF ~IsPending(st, s) THEN [st |-> st, outs |-> <<>>]
    ELSE IF ~Outranks(s, st.active)
    THEN [st |-> [st EXCEPT !.pending = WithoutPending(st, s)], outs |-> <<>>]
    ELSE [st |-> Activate(st, s, IF InheritedHere(st) /\ st.committed.at.session = s
                                 THEN st.committed.at.next ELSE FirstJob(s)),
          outs |-> SkipQueuedJobs(st)]

\* State::enqueue_job.
EnqueueJob(st, j, here, live) ==
    IF live /\ (\/ HistoryHas(st, j)
                \/ Cardinality(st.queue) >= MaxQueuedJobs /\ j \notin QueuedJobs(st))
    THEN st
    ELSE [st EXCEPT
            !.queue = {q \in @ : q.job # j}
                        \cup {[job |-> j, here |-> here, replayed |-> ~live]},
            !.own[j] = IF here /\ live THEN "queued" ELSE @]

\* Mutant of CancelJob: a job that was released is cancelled too.
CancelJobReleased(st, j, live) ==
    IF st.active = NoSession THEN st
    ELSE [st EXCEPT
            !.queue = {q \in @ : q.job # j},
            !.own[j] = IF live /\ @ \in {"none", "queued"} THEN "cancelled" ELSE @]

\* State::cancel_job.
CancelJob(st, j, live) ==
    LET here == IF j \in QueuedJobs(st)
                THEN \E q \in st.queue : q.job = j /\ q.here
                ELSE ~HistoryHas(st, j)
    IN IF st.active = NoSession THEN st
       ELSE [st EXCEPT
               !.queue = {q \in @ : q.job # j},
               !.own[j] = IF live /\ here /\ @ \in {"none", "queued"}
                          THEN "cancelled" ELSE @]

\* Rack::check_target.
TargetsUs(j) == JobKind[j] # "foreign" /\ (JobKind[j] = "cubby" => cubby)

\* Mutant of Ruling: a job that does not target this sled is dropped silently.
RulingUntold(st, q) ==
    LET j == q.job IN
    IF ~q.here \/ ~TargetsUs(j) THEN Nothing
    ELSE IF ~Admits(st)
    THEN IF q.replayed THEN Nothing ELSE Gossip("skipped", j)
    ELSE IF HistoryHas(st, j) /\ st.own[j] # "queued" THEN Nothing
    ELSE IF JobKind[j] = "dash" THEN Gossip("error", j)
    ELSE Run(j, [net |-> st.net, session |-> st.active.id, next |-> AfterJob(j)])

\* What the release loop does with one job that has reached the chain head.
Ruling(st, q) ==
    LET j == q.job IN
    IF ~q.here THEN Nothing
    ELSE IF ~TargetsUs(j) \/ ~Admits(st)
    THEN IF q.replayed THEN Nothing ELSE Gossip("skipped", j)
    ELSE IF HistoryHas(st, j) /\ st.own[j] # "queued" THEN Nothing
    ELSE IF JobKind[j] = "dash" THEN Gossip("error", j)
    ELSE Run(j, [net |-> st.net, session |-> st.active.id, next |-> AfterJob(j)])

\* The largest of the numbers of S.
Greatest(S) == CHOOSE x \in S : \A y \in S : x >= y

\* The queued jobs reachable from the chain head, in chain order.
ReadyJobs(st) ==
    LET At(k) == JobsAfter(st.active.next, k)
        n == Greatest({i \in 0 .. Cardinality(st.queue) :
                    \A k \in 0 .. i - 1 : At(k) \in QueuedJobs(st)})
    IN [k \in 1 .. n |-> CHOOSE q \in st.queue : q.job = At(k - 1)]

\* The outputs for `ready`.  Without a network nothing is output.
Rulings(st, ready) ==
    IF connected THEN [k \in DOMAIN ready |-> Ruling(st, ready[k])] ELSE <<>>

\* Session::job_started for each of `ready`.
PastReady(st, ready) ==
    IF ready = <<>> THEN st
    ELSE LET j == ready[Len(ready)].job
         IN [st EXCEPT !.active.next = AfterJob(j), !.active.head = j]

\* Mutant of ReleaseReadyJobs: a released job stays in the queue.
ReleaseReadyJobsKept(st) ==
    IF st.active = NoSession THEN [st |-> st, outs |-> <<>>]
    ELSE LET ready == ReadyJobs(st) IN
         [st |-> PastReady(st, ready), outs |-> Rulings(st, ready)]

\* State::release_ready_jobs.
ReleaseReadyJobs(st) ==
    IF st.active = NoSession THEN [st |-> st, outs |-> <<>>]
    ELSE LET ready == ReadyJobs(st) IN
         [st |-> PastReady([st EXCEPT !.queue = @ \ Range(ready)], ready),
          outs |-> Rulings(st, ready)]

\* Mutant of ReapZombies: nothing is reaped.
ReapNothing(st) == {}

\* State::reap_zombies.
ReapZombies(st) == {j \in st.zombies : st.own[j] = "started"} \ st.reaped

\* Mutant of Verdict: a job without a recorded ending gets no verdict.
VerdictIfEnded(b) ==
    CASE b.status = "stopped" -> <<Gossip("start", b.job), Gossip("stop", b.job)>>
      [] b.status = "error" -> <<Gossip("error", b.job)>>
      [] OTHER -> <<>>

\* What is announced of the job an inherited record names.
Verdict(b) ==
    CASE b.status = "stopped" -> <<Gossip("start", b.job), Gossip("stop", b.job)>>
      [] b.status = "error" -> <<Gossip("error", b.job)>>
      [] OTHER -> <<Gossip("interrupted", b.job)>>

\* State::settle: reap_zombies, then adjudicate_boundary.
Settle(st) ==
    LET due == ReapZombies(st)
        order == InSomeOrder(due)
        b == st.committed
        rules == connected /\ InheritedHere(st) /\ st.adjudicated # b.job
    IN [st |-> [st EXCEPT !.reaped = @ \cup due,
                          !.adjudicated = IF rules THEN b.job ELSE @],
        outs |-> [i \in DOMAIN order |-> Gossip("interrupted", order[i])]
                   \o (IF rules /\ st.own[b.job] = "none" THEN Verdict(b) ELSE <<>>)]

------------------------------------------------------------------------------
(* The manager's request checks (server/src/manager.rs). *)

\* A request enters the channel to the driver; it may be forwarded much later.
Submit(b) ==
    /\ b \in asked.local
    /\ open
    /\ inbox = <<>>
    /\ inbox' = <<b>>
    /\ UNCHANGED <<executorVars, gossipVars, life, asked, state, mode, outs, doomed,
                   connected, placed, cubby>>

\* Manager::session_start: the session id binds this process's nonce.
ApiSessionStart(s, a) == OriginLife[s] = life /\ Submit(SessionStart(s, a))

\* Manager::session_stop, after starter_check and currency_check.
ApiSessionStop(s, a) ==
    IsActive(state, s) /\ StartedBy(state, a) /\ Submit(SessionStop(s, a))

\* Manager::session_skip_job.
ApiSkipJob(j, a) ==
    /\ IsActive(state, SessionOf(j)) /\ StartedBy(state, a)
    /\ state.active.next = j
    /\ Submit(SkipJob(j, a))

\* Manager::job_start: verified, not known, its session active or pending.
ApiJobStart(j, here, a) ==
    /\ JobKind[j] # "unverified"
    /\ ~HistoryHas(state, j)
    /\ \/ IsActive(state, SessionOf(j))
       \/ IsPending(state, SessionOf(j)) /\ Outranks(SessionOf(j), state.active)
    /\ Submit(JobStart(j, here, a))

\* Manager::job_stop.
ApiJobStop(j, a) ==
    StartedBy(state, a) /\ IsJobKnown(state, j) /\ Submit(JobStop(j, a))

ApiStep ==
    \E b \in asked.local :
      CASE b.t = "session start" -> ApiSessionStart(b.session, b.actor)
        [] b.t = "session stop"  -> ApiSessionStop(b.session, b.actor)
        [] b.t = "skip"          -> ApiSkipJob(b.job, b.actor)
        [] b.t = "job start"     -> ApiJobStart(b.job, b.here, b.actor)
        [] OTHER                 -> ApiJobStop(b.job, b.actor)

------------------------------------------------------------------------------
(* The driver loop (StateManager::run). *)

\* The driver is back at its select.
Idle == mode = "run" /\ outs = <<>>

ForwardRequest ==
    /\ Idle /\ connected /\ open
    /\ inbox # <<>>
    /\ inbox' = <<>>
    /\ Send(Message(inbox[1], "own", state.birth))
    /\ UNCHANGED <<executorVars, state, mode, outs, doomed, connected, placed, cubby,
                   applied, life, asked>>

\* Mutant of ExecutorEvent: events are no longer taken once shutdown began.
ExecutorEventWhileOpen(t) ==
    /\ Idle /\ connected /\ open
    /\ Exec!TakeEvent(t)
    /\ Send(Own(Head(t.unsent), t.job, t.at.net))
    /\ UNCHANGED <<state, mode, outs, doomed, connected, placed, cubby, inbox, applied, life, asked>>

\* Mutant of ExecutorEvent: a job is forgotten with its first event.
ExecutorEventOnlyFirst(t) ==
    /\ Idle /\ connected
    /\ t.unsent # <<>>
    /\ tasks' = tasks \ {t}
    /\ Send(Own(Head(t.unsent), t.job, t.at.net))
    /\ UNCHANGED <<open, issued, inflight, launch, boundary, disk, recording, files, newest,
                   ran, state, mode, outs, doomed, connected, placed, cubby, inbox, applied,
                   life, asked>>

\* An event of a doomed job is dropped, and its last one lifts the doom.
ExecutorEvent(t) ==
    /\ Idle /\ connected
    /\ Exec!TakeEvent(t)
    /\ LET kind == Head(t.unsent) IN
       IF t.job \in doomed
       THEN /\ doomed' = IF kind = "start" THEN doomed ELSE doomed \ {t.job}
            /\ UNCHANGED <<rumors, unshared>>
       ELSE /\ Send(Own(kind, t.job, t.at.net))
            /\ UNCHANGED doomed
    /\ UNCHANGED <<state, mode, outs, connected, placed, cubby, inbox, applied, life, asked>>

\* One message of the causal stream.  A replayed one starts a drain.
Receive(m) ==
    /\ outs = <<>>
    /\ Ready(m)
    /\ applied' = applied \cup {m}
    /\ mode' = IF Live(m) THEN mode ELSE "drain"
    /\ UNCHANGED <<executorVars, doomed, connected, placed, cubby, inbox, rumors,
                   unshared, life, asked>>

\* SessionRequest::Start.
HandleSessionStart(m) ==
    /\ m.body.t = "session start"
    /\ Receive(m)
    /\ LET s == m.body.session
           ignored == IsActive(state, s) \/ ~Outranks(s, state.active)
                        \/ IsPending(state, s)
           start == [id |-> s, actor |-> m.body.actor, live |-> Live(m)]
       IN state' = IF ignored THEN state
                   ELSE [state EXCEPT !.pending = PutPending(@, start)]
    /\ UNCHANGED outs

\* SessionRequest::Stop.
HandleSessionStop(m) ==
    /\ m.body.t = "session stop"
    /\ Receive(m)
    /\ IF IsActive(state, m.body.session) /\ StartedBy(state, m.body.actor)
       THEN /\ outs' = SkipQueuedJobs(state)
            /\ state' = [state EXCEPT !.active = NoSession, !.queue = {}]
       ELSE UNCHANGED <<state, outs>>

\* Session::skip_job.
Skippable(active, j) == j = active.next \/ j = active.head

\* SessionRequest::Skip.
HandleSkip(m) ==
    /\ m.body.t = "skip"
    /\ Receive(m)
    /\ LET j == m.body.job IN
       IF /\ IsActive(state, m.body.session) /\ StartedBy(state, m.body.actor)
          /\ Skippable(state.active, j)
       THEN LET burned == [state EXCEPT !.active.next = AfterBurn(j),
                                        !.active.head = NoJob]
                r == ReleaseReadyJobs(CancelJob(burned, j, Live(m)))
            IN state' = r.st /\ outs' = r.outs
       ELSE UNCHANGED <<state, outs>>

\* Mutant of HandleJobStart: a job of an inactive session is ignored.
HandleJobStartSilently(m) ==
    /\ m.body.t = "job start"
    /\ Receive(m)
    /\ LET j == m.body.job
           s == m.body.session
           c == ConfirmStart(state, s)
           r == ReleaseReadyJobs(EnqueueJob(c.st, j, m.body.here, Live(m)))
       IN IF JobKind[j] # "unverified" /\ IsActive(c.st, s)
          THEN state' = r.st /\ outs' = c.outs \o r.outs
          ELSE UNCHANGED <<state, outs>>

\* JobRequest::Start.
HandleJobStart(m) ==
    /\ m.body.t = "job start"
    /\ Receive(m)
    /\ LET j == m.body.job
           s == m.body.session
           c == ConfirmStart(state, s)
           r == ReleaseReadyJobs(EnqueueJob(c.st, j, m.body.here, Live(m)))
       IN IF JobKind[j] = "unverified" THEN UNCHANGED <<state, outs>>
          ELSE IF IsActive(c.st, s)
          THEN state' = r.st /\ outs' = c.outs \o r.outs
          ELSE /\ state' = c.st
               /\ outs' = IF Live(m) /\ m.body.here /\ ~HistoryHas(c.st, j)
                          THEN Append(c.outs, Gossip("skipped", j))
                          ELSE c.outs

\* JobRequest::Stop.
HandleJobStop(m) ==
    /\ m.body.t = "job stop"
    /\ Receive(m)
    /\ LET j == m.body.job IN
       IF StartedBy(state, m.body.actor) /\ IsJobKnown(state, j)
       THEN state' = CancelJob(state, j, Live(m)) /\ outs' = <<Stop(j)>>
       ELSE UNCHANGED <<state, outs>>

\* Mutant of Zombies: a job this incarnation started is a candidate too.
ZombiesOfAnyLife(m) ==
    CASE m.body.kind = "start" ->
           IF state.own[m.body.job] \in Terminal THEN state.zombies
           ELSE state.zombies \cup {m.body.job}
      [] m.body.kind = "skipped" -> state.zombies
      [] OTHER -> state.zombies \ {m.body.job}

\* The jobs of earlier lives that an own event leaves to be reaped.
Zombies(m) ==
    CASE m.body.kind = "start" ->
           IF state.own[m.body.job] \in Terminal \/ Live(m) THEN state.zombies
           ELSE state.zombies \cup {m.body.job}
      [] m.body.kind = "skipped" -> state.zombies
      [] OTHER -> state.zombies \ {m.body.job}

\* Event::Job from this sled, of this life or an earlier one.
HandleOwnEvent(m) ==
    /\ m.body.t = "event" /\ m.body.sled = "own"
    /\ Receive(m)
    /\ LET j == m.body.job
           new == OnEvent(state.own[j], m.body.kind)
       IN /\ state' = [state EXCEPT !.own[j] = new, !.zombies = Zombies(m)]
          /\ outs' = IF new # state.own[j] /\ new \in Terminal
                     THEN <<Ran(j, new)>> ELSE <<>>

\* Event::Job from another sled: the job has a status map now.
HandlePeerEvent(m) ==
    /\ m.body.t = "event" /\ m.body.sled = "peer"
    /\ Receive(m)
    /\ state' = [state EXCEPT !.elsewhere = @ \cup {m.body.job}]
    /\ UNCHANGED outs

\* Event::Version of an earlier life: no effect but to start a drain.
HandleVersion(m) ==
    /\ m.body.t = "version"
    /\ Receive(m)
    /\ UNCHANGED <<state, outs>>

HandleMessage(m) ==
    \/ HandleSessionStart(m) \/ HandleSessionStop(m) \/ HandleSkip(m)
    \/ HandleJobStart(m) \/ HandleJobStop(m)
    \/ HandleOwnEvent(m) \/ HandlePeerEvent(m) \/ HandleVersion(m)

\* apply_outputs, one output at a time: the executor's tasks run meanwhile.
ApplyOutput ==
    /\ outs # <<>>
    /\ outs' = Tail(outs)
    /\ LET o == Head(outs) IN
       CASE o.t = "run"  -> Exec!JobStart(o.job, o.at) /\ UNCHANGED <<rumors, unshared>>
         [] o.t = "stop" -> Exec!JobStop(o.job) /\ UNCHANGED <<rumors, unshared>>
         [] o.t = "ran"  -> Exec!JobStopped(o.job, o.status) /\ UNCHANGED <<rumors, unshared>>
         [] o.t = "gossip" ->
              /\ IF connected THEN Send(Own(o.kind, o.job, 0))
                 ELSE UNCHANGED <<rumors, unshared>>
              /\ UNCHANGED executorVars
         [] o.t = "nothing" -> UNCHANGED <<executorVars, rumors, unshared>>
    /\ UNCHANGED <<state, mode, doomed, connected, placed, cubby, inbox, applied, life, asked>>

\* The end of drain_ready and Input::Drained.  Own messages are local at once;
\* how many of the others were local is up to the gossip sessions.
Drained ==
    /\ mode = "drain" /\ outs = <<>>
    /\ \A m \in rumors[state.net] : m.via = "own" /\ Live(m) => ~Ready(m)
    /\ mode' = "run"
    /\ state' = Settle(state).st
    /\ outs' = Settle(state).outs
    /\ UNCHANGED <<executorVars, doomed, connected, placed, cubby, inbox, gossipVars, life, asked>>

\* enter_universe: snapshot the boundary, announce, mark the birth.
EnterUniverse(u, birth, record) ==
    LET announce == Message(VersionEvent, "own", birth)
        left == [rumors EXCEPT ![state.net] = @ \ unshared]
    IN
    /\ state' = FreshState(u, birth, record)
    /\ rumors' = [left EXCEPT ![u] = @ \cup {announce}]
    /\ unshared' = {announce}
    /\ applied' = {announce}

\* Mutant of Swap: jobs are killed but their events are not dropped.
SwapUndoomed(u) ==
    /\ Idle /\ connected
    /\ u \in (1 .. life \cup PeerUniverses) \ {state.net}
    /\ state.birth < MaxBirths
    /\ EnterUniverse(u, state.birth + 1, boundary)
    /\ Exec!JobSwap
    /\ mode' = "drain"
    /\ cubby' = placed
    /\ UNCHANGED <<outs, doomed, connected, placed, inbox, life, asked>>

\* The universe changed: kill what is in flight, enter, drain, settle.
Swap(u) ==
    /\ Idle /\ connected
    /\ u \in (1 .. life \cup PeerUniverses) \ {state.net}
    /\ state.birth < MaxBirths
    /\ EnterUniverse(u, state.birth + 1, boundary)
    /\ doomed' = doomed \cup inflight
    /\ Exec!JobSwap
    /\ mode' = "drain"
    /\ cubby' = placed                   \* a new Rack, from the current map
    /\ UNCHANGED <<outs, connected, placed, inbox, life, asked>>

\* Rack::set_cubbies: a new cubby map of the management gateway.
CubbiesChange ==
    /\ Idle
    /\ \E j \in Jobs : JobKind[j] = "cubby"
    /\ placed' = ~placed
    /\ cubby' = (cubby \/ placed')
    /\ UNCHANGED <<executorVars, gossipVars, life, asked, state, mode, outs, doomed,
                   connected, inbox>>

\* Orderly shutdown: no more requests, no more launches.
Shutdown ==
    /\ MayShutDown
    /\ Exec!Shutdown
    /\ UNCHANGED <<driverVars, gossipVars, life, asked>>

\* Requests and events have ended: the driver drops its network handle.
CloseNetwork ==
    /\ Idle /\ connected
    /\ ~open /\ launch = <<>> /\ tasks = {}
    /\ connected' = FALSE
    /\ UNCHANGED <<executorVars, gossipVars, life, asked, state, mode, outs, doomed,
                   placed, cubby, inbox>>

\* The process dies at any point; the next one loads the boundary record and
\* seeds a universe of its own, which it may later leave (Swap).
Restart ==
    /\ life < asked.lives /\ state.birth < MaxBirths
    /\ life' = life + 1
    /\ Exec!Crash
    /\ EnterUniverse(life + 1, state.birth + 1, boundary')
    /\ mode' = "run"
    /\ outs' = <<>>
    /\ doomed' = {}
    /\ connected' = TRUE
    /\ placed' = FALSE
    /\ cubby' = FALSE
    /\ inbox' = <<>>
    /\ UNCHANGED asked

MoveOutput ==
    /\ asked.moves
    /\ Exec!MoveOutput
    /\ UNCHANGED <<driverVars, gossipVars, life, asked>>

ExecutorStep ==
    /\ Exec!InternalStep
    /\ UNCHANGED <<driverVars, gossipVars, life, asked>>

------------------------------------------------------------------------------
(* The rest of the rack, and gossip between sleds (external). *)

\* A gossip session hands this sled's messages to a peer.
Share ==
    /\ unshared # {}
    /\ unshared' = {}
    /\ UNCHANGED <<executorVars, driverVars, rumors, applied, life, asked>>

\* The births a message from a peer may have heard of, in universe u.
HeardOf(u) ==
    LET heard == {m.born : m \in {x \in rumors[u] : x.body = VersionEvent} \ unshared}
    IN {0} \cup (IF heard = {} THEN {} ELSE {Greatest(heard)})

\* A peer sends `body` into u, after a shared message of each kind it needs.
PeerSend(u, body) ==
    \E born \in HeardOf(u) :
      LET m == Message(body, "peer", born)
          shared == rumors[u] \ unshared
      IN /\ m \notin rumors[u]
         /\ asked.repeat \/ \A d \in rumors[u] : d.via = "peer" => d.body # body
         /\ \A C \in Causes(shared, m) : \E d \in C : d.born <= born
         /\ rumors' = [rumors EXCEPT ![u] = @ \cup {m}]
         /\ UNCHANGED <<executorVars, driverVars, unshared, applied, life, asked>>

PeerRequest(u, b) ==
    /\ b.t = "session start" => OriginLife[b.session] = 0
    /\ PeerSend(u, b)

PeerEvent(u, j) == PeerSend(u, JobEvent("peer", "start", j, 0))

PeerStep ==
    \E u \in PeerUniverses \ (life + 1 .. asked.lives) :
      \/ \E b \in asked.peers[u] : PeerRequest(u, b)
      \/ \E j \in asked.events : PeerEvent(u, j)

------------------------------------------------------------------------------

Init ==
    /\ Exec!ExecutorInit
    /\ asked \in Scenarios
    /\ life = 1
    /\ state = FreshState(1, 1, NoRecord)
    /\ mode = "run"
    /\ outs = <<>>
    /\ doomed = {}
    /\ connected = TRUE
    /\ placed = FALSE
    /\ cubby = FALSE
    /\ inbox = <<>>
    /\ rumors = [u \in Universes |->
                   IF u = 1 THEN {Message(VersionEvent, "own", 1)} ELSE {}]
    /\ unshared = {Message(VersionEvent, "own", 1)}
    /\ applied = {Message(VersionEvent, "own", 1)}

DriverStep ==
    \/ ForwardRequest
    \/ \E t \in tasks : ExecutorEvent(t)
    \/ \E m \in rumors[state.net] : HandleMessage(m)
    \/ ApplyOutput
    \/ Drained
    \/ \E u \in Universes : Swap(u)
    \/ CubbiesChange
    \/ CloseNetwork

Next ==
    \/ ApiStep
    \/ DriverStep
    \/ ExecutorStep
    \/ Shutdown
    \/ Restart
    \/ MoveOutput
    \/ Share
    \/ PeerStep

Spec == Init /\ [][Next]_vars

\* The driver's loop never blocks: outputs are applied and a drain runs to its
\* end without waiting, and select polls every branch.  Job tasks, the
\* launcher and the recording tasks run beside it.
Fairness ==
    /\ WF_vars(ApplyOutput)
    /\ WF_vars(Drained)
    /\ WF_vars(\E m \in rumors[state.net] : HandleMessage(m))
    /\ WF_vars(\E t \in tasks : ExecutorEvent(t))
    /\ WF_vars(CloseNetwork)
    /\ WF_vars(ExecutorStep)

FairSpec == Spec /\ Fairness

------------------------------------------------------------------------------
(* Properties. *)

ActiveSession ==
    [id : Sessions, live : BOOLEAN, starter : Actors,
     next : Sessions \X Seq({"S", "B"}), head : Jobs \cup {NoJob}]

States ==
    [net : Universes, birth : 1 .. MaxBirths,
     committed : Exec!Boundary \cup {NoRecord},
     zombies : SUBSET Jobs, reaped : SUBSET Jobs, adjudicated : Jobs \cup {NoJob},
     active : ActiveSession \cup {NoSession},
     queue : SUBSET [job : Jobs, here : BOOLEAN, replayed : BOOLEAN],
     pending : Seq([id : Sessions, actor : Actors, live : BOOLEAN]),
     own : [Jobs -> Status], elsewhere : SUBSET Jobs]

Outputs ==
    [t : {"run"}, job : Jobs, at : Positions]
    \cup [t : {"stop"}, job : Jobs]
    \cup [t : {"ran"}, job : Jobs, status : Terminal]
    \cup [t : {"gossip"}, kind : EventKind, job : Jobs]
    \cup {Nothing}

Messages ==
    [body : Requests \cup Events, via : {"own", "peer"}, born : 0 .. MaxBirths]

WellFormed(st) ==
    /\ st \in States
    /\ IsFiniteSet(st.queue) /\ IsFiniteSet(st.zombies)
    /\ Len(st.pending) <= MaxPendingStarts

\* The driver's variables always have the shapes the code gives them; the
\* executor's are covered by ExecutorTypeOK.
SledTypeOK ==
    /\ Exec!ExecutorTypeOK
    /\ WellFormed(state)
    /\ mode \in {"run", "drain"} /\ connected \in BOOLEAN
    /\ outs \in Seq(Outputs)
    /\ placed \in BOOLEAN /\ cubby \in BOOLEAN
    /\ doomed \subseteq Jobs
    /\ inbox \in Seq(Requests)
    /\ rumors \in [Universes -> SUBSET Messages]
    /\ unshared \subseteq rumors[state.net] /\ applied \subseteq rumors[state.net]
    /\ life \in 1 .. MaxLives /\ asked \in Scenarios

\* A job of a session with a lower sequence number than that of job j was
\* requested, in some universe.
LowerRequested(j) ==
    \E u \in Universes : \E m \in rumors[u] :
      m.body.t = "job start" /\ SessionSeq[m.body.session] < SessionSeq[SessionOf(j)]


\* "A session whose sequence number exceeds the committed one has never run
\* jobs here and is served" (locker/boundary.rs): the record on disk has the
\* highest sequence number of all the sessions that ran a job on this sled.
HigherSessionsNeverRan ==
    disk # NoRecord =>
      \A j \in Jobs :
        ran[j] > 0 => SessionSeq[SessionOf(j)] <= SessionSeq[disk.at.session]

\* Within one session the record on disk only moves down the job chain, so a
\* resumed session never starts before a position it already passed.
RecordAdvances ==
    [][ /\ disk # NoRecord /\ disk'.n > disk.n
        /\ disk'.at.session = disk.at.session
        => /\ Len(disk'.job[2]) > Len(disk.job[2])
           /\ SubSeq(disk'.job[2], 1, Len(disk.job[2])) = disk.job[2] ]_disk

\* This sled's announcements of one kind in universe u.
OwnEvents(u, kind) ==
    {m \in rumors[u] : m.body.t = "event" /\ m.body.sled = "own" /\ m.body.kind = kind}

\* The executor holds job j for universe u, queued, spawning or running.
LaunchedFor(u, j) ==
    \/ \E i \in DOMAIN launch : launch[i].job = j /\ launch[i].at.net = u
    \/ \E t \in tasks : t.job = j /\ t.at.net = u /\ t.stage # "over"

\* A client's stop of job j was sent into universe u.
StopSent(u, j) == \E m \in rumors[u] : m.body.t = "job stop" /\ m.body.job = j

\* "Running jobs are killed, and the new universe hears nothing about them":
\* what the executor reports of a job goes to the universe it ran the job for,
\* however the job's events, its kill and the swap interleave.  Not so for a job
\* that a client stopped: its token is gone when the swap dooms the jobs whose
\* tokens are held.
NewUniverseHearsNothing ==
    \A u \in Universes : \A m \in rumors[u] :
      m.body.t = "event" /\ m.body.run # 0
        => m.body.run = u \/ StopSent(m.body.run, m.body.job)

\* "A job this incarnation started is never a candidate" for reaping: the
\* executor holds no stop token for a job that was declared interrupted.
NoLiveJobInterrupted ==
    \A m \in OwnEvents(state.net, "interrupted") : m.body.job \notin inflight

\* The driver's state keeps its shape through every crash, swap and settling
\* (EnterUniverse clears what belongs to one universe), and no job that this
\* incarnation started is declared interrupted.
SledInv == SledTypeOK /\ NoLiveJobInterrupted

\* The messages of one kind that this incarnation applied.
Applied(kind) == {m \in applied : m.body.t = kind}

\* The jobs all of whose requests that this incarnation applied are younger
\* than its birth.
LiveJobs ==
    {j \in Jobs : \A m \in applied :
                    m.body.t = "job start" /\ m.body.job = j => Live(m)}

StartedOnce(s) ==
    \A m, d \in Applied("session start") : m.body.session = s /\ d.body.session = s => m = d

\* "The reporting sled decided it will never run this job": the executor holds
\* no stop token for a job that this incarnation announced as skipped, however
\* often the job was requested and whoever stopped its session.  This is about
\* jobs requested live, of sessions started once: a replayed job runs without a
\* status and a request that follows the session stop announces it as skipped,
\* and a session that is started again runs a job whose skip is still on its way.
NoSkippedJobLaunched ==
    \A m \in OwnEvents(state.net, "skipped") :
      LET j == m.body.job IN
      m.born = state.birth /\ j \in LiveJobs /\ StartedOnce(SessionOf(j)) => j \notin inflight

\* A job that this sled shows as cancelled is not about to run or running, in
\* whatever order a skip or stop of it and its release arrive.  Not so for a
\* replayed request: cancel_job takes a job without a status for one that was
\* not released, and a replayed job is released without one.
NoCancelledJobLaunched ==
    \A j \in inflight \cap LiveJobs : state.own[j] # "cancelled"

\* What makes it inductive.  There is one queue entry per job, and one that
\* was not replayed has a status; a released job is queued no more, and it has
\* a status other than cancelled.
QueueInOrder(st, live) ==
    \A q \in st.queue :
      /\ q.replayed => q.job \notin live
      /\ ~q.replayed /\ q.here => st.own[q.job] # "none"
      /\ \A x \in st.queue : x.job = q.job => x = q

ReleasedInOrder(st, released, live) ==
    \A j \in released \cap live :
      st.own[j] \notin {"none", "cancelled"} /\ j \notin QueuedJobs(st)

RunJobs(os) == {os[i].job : i \in {k \in DOMAIN os : os[k].t = "run"}}

ReleasedOnce ==
    /\ QueueInOrder(state, LiveJobs)
    /\ ReleasedInOrder(state, inflight \cup RunJobs(outs), LiveJobs)

\* Everything this incarnation was sent has been applied, and it has nothing
\* left to do for any job.
Quiet ==
    /\ Idle
    /\ applied = rumors[state.net]
    /\ launch = <<>> /\ tasks = {}

\* "Rule on the jobs a previous life left unresolved": back in the universe of
\* the inherited record and with its history applied, the sled shows an ending
\* for the job the record names.  It rules on no other job, and not on one that
\* was requested live before it settled: that request gives the job a status,
\* and the resumed chain has passed it.
BoundaryJobRuled ==
    /\ Quiet /\ connected
    /\ InheritedHere(state) /\ state.adjudicated # NoJob
    /\ \A m \in Applied("job start") : m.body.job = state.committed.job => ~Live(m)
    => state.own[state.committed.job] \in Terminal

\* What this sled reports as started comes to an end in its history, if the
\* executor is not running it: the stop that was sent arrives, or the job is
\* reaped, or the sled leaves the universe.
JobsSettle ==
    \A j \in Jobs :
      (state.own[j] = "started" /\ ~LaunchedFor(state.net, j))
        ~> (state.own[j] # "started")

\* A live request to start job j here has been sent into this universe.
Requested(j) ==
    /\ connected
    /\ JobKind[j] # "unverified"
    /\ \E m \in rumors[state.net] :
         m.body.t = "job start" /\ m.body.job = j /\ m.body.here /\ Live(m)

\* The client waits for the end of its job on the sleds it was sent to
\* (wait_for_job): a live request leads to a final status, whether the job is
\* skipped, cancelled, refused or run, unless it waits in the queue for an
\* earlier job of its chain or the sled leaves the universe.
RequestedJobsEnd ==
    \A j \in Jobs :
      Requested(j)
        ~> (state.own[j] \in Terminal \/ j \in QueuedJobs(state) \/ ~Requested(j))

\* An orderly shutdown waits for the jobs and then drops the network handle,
\* whatever was queued, spawning, running or killed when it began.
ShutdownDrains == ~open ~> ~connected

\* The sled drives its executor as module Executor says a client may.
RefinesExecutor == Exec!ExecutorSpec
==============================================================================
