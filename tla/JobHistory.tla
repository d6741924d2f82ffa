----------------------------- MODULE JobHistory -----------------------------
(***************************************************************************)
(* The bounded record of job statuses everywhere (server/src/history.rs).  *)
(* A history h has                                                         *)
(*   h.status[j][s]  the status of job j on sled s, "none" without an      *)
(*                   entry (job_status; a job without entries is absent)   *)
(*   h.causal        the jobs with events that have a rank (causal_jobs)   *)
(*   h.older         <<i, j>> when the oldest event of i has a lower rank  *)
(*                   than the oldest of j (the order of causal_jobs)       *)
(*   h.running       <<job, sled>> (running, without the start times)      *)
(* Jobs are numbers in the order of their IDs, which is the order of the   *)
(* keys of job_status.                                                     *)
(***************************************************************************)
EXTENDS JobStatus, Naturals, FiniteSets

CONSTANTS
    Jobs,        \* job IDs
    Sleds,       \* baseboards
    MaxHistory,  \* MAX_HISTORY
    LowWater     \* low_water_mark

ASSUME HistoryAssumption ==
    /\ Jobs \subseteq Nat /\ IsFiniteSet(Jobs)
    /\ MaxHistory \in Nat /\ LowWater \in 0 .. MaxHistory

NoHistory ==
    [status |-> [j \in Jobs |-> [s \in Sleds |-> "none"]],
     causal |-> {}, older |-> {}, running |-> {}]

Entries(h) == {j \in Jobs : \E s \in Sleds : h.status[j][s] # "none"}

HistoryContains(h, j) == j \in Entries(h)

\* Entries without a rank go first, by ID, then the causally oldest.
EvictedBefore(h, i, j) ==
    \/ i \notin h.causal /\ (j \in h.causal \/ i < j)
    \/ <<i, j>> \in h.older

\* Mutant of Evictable: a running job is evicted too.
EvictableRunning(h, queued) == Entries(h) \ queued

\* Jobs that are neither queued here nor running anywhere.
Evictable(h, queued) == Entries(h) \ (queued \cup {e[1] : e \in h.running})

\* What gc removes: with more than MaxHistory jobs, evictable ones in order
\* until LowWater are left.
Evicted(h, queued) ==
    IF Cardinality(Entries(h)) <= MaxHistory THEN {}
    ELSE {j \in Evictable(h, queued) :
             Cardinality({i \in Evictable(h, queued) : EvictedBefore(h, i, j)})
               < Cardinality(Entries(h)) - LowWater}

Gc(h, queued) ==
    LET out == Evicted(h, queued) IN
    [status |-> [j \in Jobs |-> IF j \in out THEN NoHistory.status[j]
                                ELSE h.status[j]],
     causal |-> h.causal \ out,
     older |-> {e \in h.older : e[1] \notin out /\ e[2] \notin out},
     running |-> h.running]

NoRank == 0

\* The ranked jobs other than j whose oldest event is older than an event of
\* j that only rank - 1 of them precede, and older than the oldest of j.
\* Events of several sleds are concurrent, so any rank may come next.
OlderThan(h, j, rank) ==
    LET others == h.causal \ {j} IN
    {i \in others :
       /\ Cardinality({k \in others : <<k, i>> \in h.older}) < rank - 1
       /\ j \in h.causal => <<i, j>> \in h.older}

\* The order of the ranked jobs once j has an event of that rank.
Ranked(h, j, rank) ==
    LET others == h.causal \ {j}
        before == OlderThan(h, j, rank)
    IN IF rank = NoRank THEN h.older
       ELSE (h.older \cap (others \X others))
              \cup (before \X {j}) \cup ({j} \X (others \ before))

\* Mutant of SetJobStatus: a job that ends stays in the running set.
SetJobStatusStillRunning(h, j, s, new, rank, queued) ==
    Gc([status |-> [h.status EXCEPT ![j][s] = new],
        causal |-> IF rank = NoRank THEN h.causal ELSE h.causal \cup {j},
        older |-> Ranked(h, j, rank),
        running |-> IF new = "started" THEN h.running \cup {<<j, s>>}
                    ELSE h.running],
       queued)

\* set_job_status; NoRank for a status that no message carried.
SetJobStatus(h, j, s, new, rank, queued) ==
    Gc([status |-> [h.status EXCEPT ![j][s] = new],
        causal |-> IF rank = NoRank THEN h.causal ELSE h.causal \cup {j},
        older |-> Ranked(h, j, rank),
        running |-> IF new = "started" THEN h.running \cup {<<j, s>>}
                    ELSE h.running \ {<<j, s>>}],
       queued)

\* transition_job_status: nothing changes unless the status does.
TransitionJobStatus(h, j, s, new, rank, queued) ==
    IF new = h.status[j][s] THEN h ELSE SetJobStatus(h, j, s, new, rank, queued)

\* A job event applied by State::handle_event.  A start that is not ignored
\* is always recorded.
ApplyJobEvent(h, j, s, kind, rank, queued) ==
    LET old == h.status[j][s] IN
    IF kind = "start" /\ old \notin Terminal
    THEN SetJobStatus(h, j, s, "started", rank, queued)
    ELSE TransitionJobStatus(h, j, s, OnEvent(old, kind), rank, queued)
------------------------------------------------------------------------------

Histories ==
    [status : [Jobs -> [Sleds -> Status]], causal : SUBSET Jobs,
     older : SUBSET (Jobs \X Jobs), running : SUBSET (Jobs \X Sleds)]

\* The running set names the started statuses, every ranked event has its
\* job's entry, and the ranks order the jobs that have one.
Consistent(h) ==
    /\ h.running = {e \in Jobs \X Sleds : h.status[e[1]][e[2]] = "started"}
    /\ h.causal \subseteq Entries(h)
    /\ h.older \subseteq h.causal \X h.causal
    /\ \A i, j \in h.causal :
         <<i, j>> \in h.older <=> i # j /\ <<j, i>> \notin h.older
    /\ \A i, j, k \in h.causal :
         <<i, j>> \in h.older /\ <<j, k>> \in h.older => <<i, k>> \in h.older
==============================================================================
