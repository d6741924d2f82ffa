------------------------------- MODULE Manager -------------------------------
(***************************************************************************)
(* The job manager of one sled (server/src/manager.rs) between its API     *)
(* calls and the state machine it watches: calls check the published       *)
(* state, send a request, and wait on statuses that arrive from every      *)
(* sled.  The state machine is the one of server/src/state.rs seen through *)
(* its watch channel: one session whose jobs form the chain 1, 2, ...,     *)
(* the queue, the history with its eviction, and the attachments.  What    *)
(* Sled says about boundaries, replay and adjudication is left out here.   *)
(***************************************************************************)
EXTENDS JobHistory, Sequences

CONSTANTS
    Own,          \* this sled
    Calls,        \* API calls in progress at a time
    MaxQueued,    \* MAX_QUEUED_JOBS
    Resends,      \* whether a client may send a job again
    MaxRequests,  \* bound on the requests calls send
    TargetOf,     \* the sleds that each job names
    MaxUpsets,    \* bound on universe swaps and link changes
    Waits         \* the JobWait values clients ask for

ASSUME ManagerAssumption ==
    /\ Own \in Sleds
    /\ MaxQueued \in Nat /\ MaxRequests \in Nat /\ MaxUpsets \in Nat
    /\ TargetOf \in [Jobs -> SUBSET Sleds]
    /\ Waits \subseteq {"none", "start", "stop"}

Others == Sleds \ {Own}

VARIABLES
    session,   \* the session here: none, pending, active, or outranked
    next,      \* the job the chain waits for
    queue,     \* queued_jobs: <<job, sleds>>
    hist,      \* JobHistory
    attach,    \* attachments: jobs with an attachment point
    work,      \* the executor, here and elsewhere: [s -> [job -> phase]]
    wire,      \* events each sled has gossiped and this one not applied
    linked,    \* LinkedBaseboards
    requests,  \* tx_req, to the application of the request
    sent,      \* the number of requests sent
    begun,     \* jobs that some client has sent
    upsets,    \* the number of universe swaps and link changes
    calls      \* API calls

stateVars == <<session, next, queue, hist, attach>>
vars == <<session, next, queue, hist, attach, work, wire, linked,
          requests, sent, begun, upsets, calls>>

QueuedIds == {q[1] : q \in queue}

Phase == {"idle", "asked", "released", "running", "over"}

Kinds == {"start_session", "stop_session", "start", "stop"}
Request(kind, job, sleds) == [kind |-> kind, job |-> job, sleds |-> sleds]

NoCall == [op |-> "idle"]
Waiting(op, job, wait, sleds) ==
    [op |-> op, job |-> job, wait |-> wait, sleds |-> sleds, awake |-> TRUE]

\* A watch channel publishes: every waiter looks again.
Wake(cs) == [c \in Calls |->
                IF cs[c].op = "idle" THEN cs[c] ELSE [cs[c] EXCEPT !.awake = TRUE]]

Event(job, kind) == [job |-> job, kind |-> kind]

------------------------------------------------------------------------------
(* The state machine. *)

Init ==
    /\ session = "none"
    /\ next = 1
    /\ queue = {}
    /\ hist = NoHistory
    /\ attach = {}
    /\ work = [s \in Sleds |-> [j \in Jobs |-> "idle"]]
    /\ wire = [s \in Sleds |-> <<>>]
    /\ linked = Others
    /\ requests = <<>>
    /\ sent = 0
    /\ begun = {}
    /\ upsets = 0
    /\ calls = [c \in Calls |-> NoCall]

\* The queued jobs the chain has reached, once q is the queue.
Released(q) ==
    {j \in Jobs : j >= next /\ next .. j \subseteq {e[1] : e \in q}}

\* release_ready_jobs: each job the chain has reached leaves the queue; one
\* whose local status is queued, or that has no status at all, is run.
ReleaseReadyJobs(q, h) ==
    LET ready == Released(q)
        run == {j \in ready : /\ \E e \in q : e[1] = j /\ Own \in e[2]
                              /\ HistoryContains(h, j) => h.status[j][Own] = "queued"}
    IN /\ queue' = {e \in q : e[1] \notin ready}
       /\ next' = next + Cardinality(ready)
       /\ attach' = attach \cup run
       /\ work' = [s \in Sleds |-> [j \in Jobs |->
                     IF s = Own /\ j \in run /\ work[s][j] = "idle" THEN "released"
                     ELSE IF /\ s # Own /\ j \in ready /\ work[s][j] = "idle"
                             /\ \E e \in q : e[1] = j /\ s \in e[2] THEN "asked"
                     ELSE work[s][j]]]

\* enqueue_job and release_ready_jobs: a duplicate is dropped, and so is a job
\* that finds the queue full.
EnqueueJob(j, sleds) ==
    IF HistoryContains(hist, j) \/ (Cardinality(queue) >= MaxQueued /\ j \notin QueuedIds)
    THEN UNCHANGED <<next, queue, hist, attach, work>>
    ELSE LET q == {e \in queue : e[1] # j} \cup {<<j, sleds>>}
             h == IF Own \in sleds
                  THEN SetJobStatus(hist, j, Own, "queued", NoRank, {e[1] : e \in q})
                  ELSE hist
         IN hist' = h /\ ReleaseReadyJobs(q, h)

\* cancel_job
CancelJob(j) ==
    LET q == {e \in queue : e[1] # j}
        here == IF j \in QueuedIds THEN \E e \in queue : e[1] = j /\ Own \in e[2]
                ELSE ~HistoryContains(hist, j)
    IN /\ queue' = q
       /\ hist' = IF here /\ hist.status[j][Own] \in {"none", "queued"}
                  THEN SetJobStatus(hist, j, Own, "cancelled", NoRank, {e[1] : e \in q})
                  ELSE hist

\* A hash set is walked in an order of its own.
InSomeOrder(S) ==
    CHOOSE f \in [1 .. Cardinality(S) -> S] : \A i, k \in DOMAIN f : f[i] = f[k] => i = k

\* The events that skip_queued_jobs announces, as one batch.
SkipsOf(js) ==
    LET order == InSomeOrder(js) IN
    [wire EXCEPT ![Own] = @ \o [i \in DOMAIN order |-> Event(order[i], "skipped")]]

HandleSessionStart ==
    /\ session' = IF session = "none" THEN "pending" ELSE session
    /\ UNCHANGED <<next, queue, hist, attach, work, wire>>

HandleSessionStop ==
    /\ session' = IF session = "active" THEN "none" ELSE session
    /\ IF session = "active"
       THEN /\ wire' = SkipsOf({e[1] : e \in {q \in queue : Own \in q[2]}})
            /\ queue' = {}
       ELSE UNCHANGED <<wire, queue>>
    /\ UNCHANGED <<next, hist, attach, work>>

\* The first job confirms the session.  A job of a session that is not active
\* is skipped.
HandleJobStart(j, sleds) ==
    /\ session' = IF session = "pending" THEN "active" ELSE session
    /\ IF session' = "active"
       THEN EnqueueJob(j, sleds) /\ UNCHANGED wire
       ELSE /\ IF Own \in sleds /\ ~HistoryContains(hist, j)
               THEN wire' = SkipsOf({j}) ELSE UNCHANGED wire
            /\ UNCHANGED <<next, queue, hist, attach, work>>

HandleJobStop(j) ==
    /\ IF session = "active" /\ (HistoryContains(hist, j) \/ j \in QueuedIds)
       THEN CancelJob(j) ELSE UNCHANGED <<queue, hist>>
    /\ UNCHANGED <<session, next, attach, work, wire>>

ApplyRequest ==
    /\ requests # <<>>
    /\ requests' = Tail(requests)
    /\ calls' = Wake(calls)
    /\ LET r == Head(requests) IN
       \/ r.kind = "start_session" /\ HandleSessionStart
       \/ r.kind = "stop_session" /\ HandleSessionStop
       \/ r.kind = "start" /\ HandleJobStart(r.job, r.sleds)
       \/ r.kind = "stop" /\ HandleJobStop(r.job)
    /\ UNCHANGED <<linked, sent, begun, upsets>>

\* A session of higher rank becomes active here; the queue is skipped.
Supersede ==
    /\ session \in {"pending", "active"}
    /\ session' = "outranked"
    /\ wire' = SkipsOf({e[1] : e \in {q \in queue : Own \in q[2]}})
    /\ queue' = {}
    /\ calls' = Wake(calls)
    /\ UNCHANGED <<next, hist, attach, work, linked, requests, sent, begun, upsets>>

\* An event of sled s is applied.
ApplyEvent(s) ==
    /\ wire[s] # <<>>
    /\ LET e == Head(wire[s]) IN
       /\ \E rank \in 1 .. Cardinality(hist.causal) + 1 :
            hist' = ApplyJobEvent(hist, e.job, s, e.kind, rank, QueuedIds)
       /\ attach' = IF s = Own /\ e.kind \in {"stop", "error"}
                    THEN attach \ {e.job} ELSE attach
    /\ wire' = [wire EXCEPT ![s] = Tail(@)]
    /\ calls' = Wake(calls)
    /\ UNCHANGED <<session, next, queue, work, linked, requests, sent, begun, upsets>>

\* A universe swap: the state starts over, jobs in flight are killed without a
\* word, and those of the old universe's other sleds are not heard of again.
SwapUniverse ==
    /\ upsets < MaxUpsets
    /\ upsets' = upsets + 1
    /\ session' = "none"
    /\ next' = 1
    /\ queue' = {}
    /\ hist' = NoHistory
    /\ attach' = {}
    /\ work' = [s \in Sleds |-> [j \in Jobs |-> "idle"]]
    /\ wire' = [s \in Sleds |-> <<>>]
    /\ calls' = Wake(calls)
    /\ UNCHANGED <<linked, requests, sent, begun>>

------------------------------------------------------------------------------
(* Executors, here and on the other sleds, and the gossip links. *)

Announce(s, j, phase, kind) ==
    /\ work' = [work EXCEPT ![s][j] = phase]
    /\ wire' = [wire EXCEPT ![s] = Append(@, Event(j, kind))]
    /\ UNCHANGED <<session, next, queue, hist, attach, linked, requests, sent,
                   begun, upsets, calls>>

JobStarts(s, j) == work[s][j] \in {"asked", "released"} /\ Announce(s, j, "running", "start")
JobFails(s, j) == work[s][j] \in {"asked", "released"} /\ Announce(s, j, "over", "error")
JobSkipped(s, j) == work[s][j] = "asked" /\ Announce(s, j, "over", "skipped")
JobEnds(s, j) == work[s][j] = "running" /\ Announce(s, j, "over", "stop")

\* Mutant of Relink: waiters follow the state only.
RelinkUnseen(s) ==
    /\ upsets < MaxUpsets
    /\ upsets' = upsets + 1
    /\ linked' = IF s \in linked THEN linked \ {s} ELSE linked \cup {s}
    /\ UNCHANGED <<session, next, queue, hist, attach, work, wire,
                   requests, sent, begun, calls>>

Relink(s) ==
    /\ upsets < MaxUpsets
    /\ upsets' = upsets + 1
    /\ linked' = IF s \in linked THEN linked \ {s} ELSE linked \cup {s}
    /\ calls' = Wake(calls)
    /\ UNCHANGED <<session, next, queue, hist, attach, work, wire,
                   requests, sent, begun>>

------------------------------------------------------------------------------
(* API calls. *)

Send(r) ==
    /\ sent < MaxRequests
    /\ sent' = sent + 1
    /\ requests' = Append(requests, r)

OthersUnchanged == UNCHANGED <<session, next, queue, hist, attach, work, wire,
                               linked, upsets>>

\* session_start, after its session ID checks out.
SessionStart(c) ==
    /\ calls[c] = NoCall
    /\ Send(Request("start_session", 0, {}))
    /\ UNCHANGED begun
    /\ calls' = [calls EXCEPT ![c] = Waiting("session_start", 0, "none", {})]
    /\ OthersUnchanged

\* session_stop: starter_check and currency_check need an active session.
SessionStop(c) ==
    /\ calls[c] = NoCall
    /\ session = "active"
    /\ Send(Request("stop_session", 0, {}))
    /\ UNCHANGED <<begun, calls>>
    /\ OthersUnchanged

\* reachable_targets: this sled and those it has links to.
ReachableTargets(j) == TargetOf[j] \cap (linked \cup {Own})

\* job_start: the job is new here, its session is pending or active, and some
\* target can be reached.  Without a wait the call returns at once.
JobStart(c, j, wait) ==
    /\ calls[c] = NoCall
    /\ j \notin begun \/ Resends
    /\ ~HistoryContains(hist, j)
    /\ session \in {"pending", "active"}
    /\ ReachableTargets(j) # {}
    /\ Send(Request("start", j, ReachableTargets(j)))
    /\ begun' = begun \cup {j}
    /\ calls' = IF wait = "none" THEN calls
                ELSE [calls EXCEPT ![c] =
                        Waiting("job_start", j, wait, ReachableTargets(j))]
    /\ OthersUnchanged

\* job_stop sends its request ...
JobStop(c, j, wait) ==
    /\ calls[c] = NoCall
    /\ session = "active"
    /\ HistoryContains(hist, j) \/ j \in QueuedIds
    /\ Send(Request("stop", j, {}))
    /\ UNCHANGED begun
    /\ calls' = [calls EXCEPT ![c] = Waiting("stopping", j, wait, {})]
    /\ OthersUnchanged

\* ... and then, at whatever the state is by now, waits for the sleds that have a
\* status.
StopRequested(c) ==
    /\ calls[c].op = "stopping"
    /\ calls' = [calls EXCEPT ![c] = Waiting("job_stop", @.job, @.wait,
                    {s \in Sleds : hist.status[@.job][s] # "none"})]
    /\ UNCHANGED <<requests, sent, begun>>
    /\ OthersUnchanged

\* wait_for_job_status
WaitForJobStatus(c, j) ==
    /\ calls[c] = NoCall
    /\ calls' = [calls EXCEPT ![c] = Waiting("status", j, "none", {Own})]
    /\ UNCHANGED <<requests, sent, begun>>
    /\ OthersUnchanged

\* JobWait::matches_status
Matches(wait, status) ==
    CASE wait = "none"  -> TRUE
      [] wait = "start" -> status # "queued"
      [] wait = "stop"  -> status \in Terminal

\* What a call waits for.  A sled without a link is not waited for.
Settled(w) ==
    IF w.op = "session_start" THEN session # "none"
    ELSE \A s \in w.sleds :
            \/ w.op # "status" /\ s # Own /\ s \notin linked
            \/ /\ hist.status[w.job][s] # "none"
               /\ Matches(w.wait, hist.status[w.job][s])

\* The waiter's loop: look, then return or sleep until a channel changes.
Look(c) ==
    /\ calls[c].op \notin {"idle", "stopping"} /\ calls[c].awake
    /\ calls' = [calls EXCEPT ![c] = IF Settled(@) THEN NoCall
                                     ELSE [@ EXCEPT !.awake = FALSE]]
    /\ UNCHANGED <<requests, sent, begun>>
    /\ OthersUnchanged

Timeout(c) ==
    /\ calls[c].op \notin {"idle", "stopping"}
    /\ calls' = [calls EXCEPT ![c] = NoCall]
    /\ UNCHANGED <<requests, sent, begun>>
    /\ OthersUnchanged

CallStep ==
    \E c \in Calls :
        \/ SessionStart(c) \/ SessionStop(c)
        \/ \E j \in Jobs, wait \in Waits : JobStart(c, j, wait) \/ JobStop(c, j, wait)
        \/ \E j \in Jobs : WaitForJobStatus(c, j)
        \/ StopRequested(c) \/ Look(c) \/ Timeout(c)

WorkStep ==
    \E s \in Sleds, j \in Jobs :
        JobStarts(s, j) \/ JobFails(s, j) \/ JobSkipped(s, j) \/ JobEnds(s, j)

Next ==
    \/ ApplyRequest \/ Supersede \/ SwapUniverse
    \/ \E s \in Sleds : ApplyEvent(s)
    \/ WorkStep
    \/ \E s \in Others : Relink(s)
    \/ CallStep

Spec == Init /\ [][Next]_vars

\* Calls go on once their request is sent, and waiters that were woken look.  Nothing is assumed of clients, links, jobs,
\* swaps and the 600 s timeout.
FairSpec == Spec /\ \A c \in Calls : WF_vars(StopRequested(c) \/ Look(c))

------------------------------------------------------------------------------
(* Properties. *)

\* The published state, the other sleds and the requests have their types.
ManagerTypeOK ==
    /\ session \in {"none", "pending", "active", "outranked"}
    /\ next \in 1 .. Cardinality(Jobs) + 1 /\ sent \in Nat /\ upsets \in Nat
    /\ queue \subseteq Jobs \X SUBSET Sleds
    /\ hist.status \in [Jobs -> [Sleds -> Status]]
    /\ attach \subseteq Jobs
    /\ work \in [Sleds -> [Jobs -> Phase]]
    /\ linked \subseteq Others
    /\ \A i \in DOMAIN requests : requests[i].kind \in Kinds

InFlight(s, j) == \E i \in DOMAIN wire[s] : wire[s][i].job = j

\* The three tables of JobHistory agree, through every eviction.
TablesAgree == Consistent(hist)

\* "It may be the start event of a job that's still running": a job that runs
\* on some sled, and whose start was heard, is never evicted, whatever else is.
StartedJobsKept ==
    \A s \in Sleds, j \in Jobs :
        work[s][j] = "running" /\ ~InFlight(s, j) => hist.status[j][s] = "started"

\* Clients can attach only to jobs in flight here: the attachment point of a
\* job is gone once its end is applied, and no end leaves one behind.
AttachmentsInFlight ==
    \A j \in attach : work[Own][j] \in {"released", "running"} \/ InFlight(Own, j)

\* The tables that set_job_status, gc and handle_event keep in step: statuses,
\* running jobs, ranked events and attachment points.
ManagerInv == ManagerTypeOK /\ TablesAgree /\ AttachmentsInFlight

\* What makes the three invariants inductive.  What is under way has a shape...
ManagerShape ==
    /\ ManagerTypeOK
    /\ hist \in Histories
    /\ wire \in [Sleds -> Seq([job : Jobs, kind : EventKind])]
    /\ requests \in Seq([kind : Kinds, job : Jobs \cup {0}, sleds : SUBSET Sleds])
    /\ \A i \in DOMAIN requests :
         requests[i].kind \in {"start", "stop"} => requests[i].job \in Jobs

\* ... no job runs that the chain has not passed, and a job that ended here
\* says so to the state machine, which then drops the attachment point ...
EndInFlight(j) ==
    \E i \in DOMAIN wire[Own] :
        wire[Own][i].job = j /\ wire[Own][i].kind \in {"stop", "error"}

ReleasedBehindNext ==
    /\ 1 .. next - 1 \subseteq Jobs
    /\ \A j \in Jobs, s \in Sleds : j >= next => work[s][j] = "idle"
    /\ \A j \in attach : work[Own][j] \in {"released", "running"} \/ EndInFlight(j)

\* ... and, when no job is sent again, nothing is known of a job until its
\* request is applied, and nothing but a start of it before its end.
StartPending(j) ==
    \E i \in DOMAIN requests : requests[i].kind = "start" /\ requests[i].job = j

Untouched(j) ==
    \A s \in Sleds : work[s][j] = "idle" /\ ~InFlight(s, j) /\ hist.status[j][s] = "none"

OneStartInFlight(s, j) ==
    \E i \in DOMAIN wire[s] :
        /\ wire[s][i].kind = "start"
        /\ \A k \in DOMAIN wire[s] : wire[s][k].job = j <=> k = i

StartedInOrder ==
    /\ \A i, k \in DOMAIN requests :
         /\ requests[i].kind = "start" /\ requests[k].kind = "start"
         /\ requests[i].job = requests[k].job
         => i = k
    /\ \A j \in Jobs :
         /\ StartPending(j) => j \in begun
         /\ j \notin begun \/ StartPending(j) => Untouched(j) /\ j \notin QueuedIds
         /\ j \in QueuedIds => \A s \in Sleds :
              /\ work[s][j] = "idle" /\ ~InFlight(s, j)
              /\ hist.status[j][s] \in {"none", "queued"}
    /\ \A s \in Sleds, j \in Jobs :
         /\ work[s][j] \in {"asked", "released"} =>
              ~InFlight(s, j) /\ hist.status[j][s] \in {"none", "queued"}
         /\ work[s][j] = "running" =>
              \/ ~InFlight(s, j) /\ hist.status[j][s] = "started"
              \/ OneStartInFlight(s, j) /\ hist.status[j][s] \in {"none", "queued"}

ManagerIInv ==
    /\ ManagerShape /\ TablesAgree /\ ReleasedBehindNext
    /\ ~Resends => StartedInOrder

\* No wakeup is lost: a call whose condition holds for good returns, without
\* the timeout, when the last thing to change was a status, a link or a swap.
SettledWaitsReturn ==
    \A c \in Calls : []<>(calls[c].op = "idle" \/ ~Settled(calls[c]))
==============================================================================
