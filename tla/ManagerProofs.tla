---------------------------- MODULE ManagerProofs ----------------------------
(***************************************************************************)
(* Proofs about the job manager and the job history it reads: the tables   *)
(* agree through every eviction, attachment points belong to jobs in       *)
(* flight, and the entry of a running job is never evicted.                *)
(***************************************************************************)
EXTENDS Manager, FiniteSetTheorems, TLAPS

------------------------------------------------------------------------------
(* The job history. *)

\* What gc evicts is neither queued nor running, and has an entry.
LEMMA EvictedFacts ==
    ASSUME NEW h, NEW queued
    PROVE  /\ Evicted(h, queued) \subseteq Entries(h) \ queued
           /\ \A e \in h.running : e[1] \notin Evicted(h, queued)
BY Zenon DEF Evicted, Evictable

\* What a history is once the jobs of `out` are forgotten.
Without(h, out) ==
    [status |-> [j \in Jobs |-> IF j \in out THEN NoHistory.status[j]
                                ELSE h.status[j]],
     causal |-> h.causal \ out,
     older |-> {e \in h.older : e[1] \notin out /\ e[2] \notin out},
     running |-> h.running]

\* Gc forgets what it evicts.
LEMMA GcIsWithout ==
    ASSUME NEW h, NEW queued
    PROVE  Gc(h, queued) = Without(h, Evicted(h, queued))
BY DEF Gc, Without

\* Forgetting jobs empties their status maps and leaves the others alone.
LEMMA WithoutFacts ==
    ASSUME NEW h \in Histories, NEW out
    PROVE  /\ Without(h, out) \in Histories
           /\ Without(h, out).running = h.running
           /\ Without(h, out).causal = h.causal \ out
           /\ Without(h, out).older = {e \in h.older : e[1] \notin out /\ e[2] \notin out}
           /\ \A j \in Jobs, s \in Sleds :
                Without(h, out).status[j][s]
                  = IF j \in out THEN "none" ELSE h.status[j][s]
<1> DEFINE g == Without(h, out)
<1>1. /\ g.running = h.running /\ g.causal = h.causal \ out
      /\ g.older = {e \in h.older : e[1] \notin out /\ e[2] \notin out}
      /\ g.status = [j \in Jobs |-> IF j \in out THEN [s \in Sleds |-> "none"]
                                    ELSE h.status[j]]
  BY DEF Without, Histories, NoHistory
<1>2. g = [status |-> g.status, causal |-> g.causal, older |-> g.older,
           running |-> g.running]
  BY DEF Without
<1>3. g.status \in [Jobs -> [Sleds -> Status]]
  BY <1>1 DEF Histories, Status
<1>4. g \in Histories
  BY <1>1, <1>2, <1>3 DEF Histories
<1> QED
  BY <1>1, <1>4 DEF Histories

\* Forgetting jobs that do not run keeps the tables in agreement.
LEMMA WithoutConsistent ==
    ASSUME NEW h \in Histories, Consistent(h), NEW out,
           \A e \in h.running : e[1] \notin out
    PROVE  Consistent(Without(h, out))
<1> DEFINE g == Without(h, out)
<1>0. /\ g \in Histories /\ g.running = h.running /\ g.causal = h.causal \ out
      /\ g.older = {e \in h.older : e[1] \notin out /\ e[2] \notin out}
      /\ \A j \in Jobs, s \in Sleds :
           g.status[j][s] = IF j \in out THEN "none" ELSE h.status[j][s]
  BY WithoutFacts
<1> HIDE DEF g
<1>1. g.running = {e \in Jobs \X Sleds : g.status[e[1]][e[2]] = "started"}
  <2>1. ASSUME NEW e \in Jobs \X Sleds
        PROVE  g.status[e[1]][e[2]] = "started" <=> h.status[e[1]][e[2]] = "started"
    <3>1. h.status[e[1]][e[2]] = "started" => e[1] \notin out
      BY DEF Consistent
    <3> QED
      BY <1>0, <3>1
  <2> QED
    BY <1>0, <2>1 DEF Consistent
<1>2. g.causal \subseteq Entries(g)
  BY <1>0 DEF Consistent, Entries, Histories
<1>3. g.older \subseteq g.causal \X g.causal
  BY <1>0 DEF Consistent
<1>4. ASSUME NEW i \in g.causal, NEW j \in g.causal
      PROVE  <<i, j>> \in g.older <=> <<i, j>> \in h.older
  BY <1>0
<1>5. \A i, j \in g.causal : <<i, j>> \in g.older <=> i # j /\ <<j, i>> \notin g.older
  BY <1>0, <1>4, Zenon DEF Consistent
<1>6. \A i, j, k \in g.causal :
        <<i, j>> \in g.older /\ <<j, k>> \in g.older => <<i, k>> \in g.older
  BY <1>0, <1>4 DEF Consistent
<1> QED
  BY <1>1, <1>2, <1>3, <1>5, <1>6 DEF Consistent, g

\* Gc: statuses stay or are forgotten, and those of queued and of running jobs
\* stay.
LEMMA GcFacts ==
    ASSUME NEW h \in Histories, Consistent(h), NEW queued
    PROVE  /\ Gc(h, queued) \in Histories
           /\ Consistent(Gc(h, queued))
           /\ \A j \in Jobs, s \in Sleds :
                Gc(h, queued).status[j][s] \in {"none", h.status[j][s]}
           /\ \A j \in Jobs : j \in queued \/ (\E s \in Sleds : h.status[j][s] = "started")
                => \A s \in Sleds : Gc(h, queued).status[j][s] = h.status[j][s]
<1> DEFINE out == Evicted(h, queued)
           g == Gc(h, queued)
<1>1. g = Without(h, out)
  BY GcIsWithout
<1>2. out \subseteq Entries(h) \ queued /\ \A e \in h.running : e[1] \notin out
  BY EvictedFacts
<1>3. ASSUME NEW j \in Jobs, NEW s \in Sleds, h.status[j][s] = "started"
      PROVE  j \notin out
  <2>1. <<j, s>> \in h.running
    BY <1>3 DEF Consistent
  <2> QED
    BY <2>1, <1>2
<1>4. \A j \in Jobs, s \in Sleds :
        g.status[j][s] = IF j \in out THEN "none" ELSE h.status[j][s]
  BY <1>1, WithoutFacts
<1>5. g \in Histories /\ Consistent(g)
  BY <1>1, <1>2, WithoutFacts, WithoutConsistent
<1> HIDE DEF out, g
<1>6. \A j \in Jobs : j \in queued \/ (\E s \in Sleds : h.status[j][s] = "started")
                => j \notin out
  BY <1>2, <1>3
<1>7. \A j \in Jobs, s \in Sleds : g.status[j][s] \in {"none", h.status[j][s]}
  BY <1>4
<1>8. \A j \in Jobs : j \in queued \/ (\E s \in Sleds : h.status[j][s] = "started")
        => \A s \in Sleds : g.status[j][s] = h.status[j][s]
  BY <1>4, <1>6
<1> QED
  BY <1>5, <1>7, <1>8 DEF g

\* A ranked event moves its job towards the older end and leaves the order of
\* the others alone.
LEMMA RankedFacts ==
    ASSUME NEW h \in Histories, Consistent(h), NEW j \in Jobs, NEW rank \in Nat \ {0}
    PROVE  LET all == h.causal \cup {j}
               older == Ranked(h, j, rank)
           IN /\ older \subseteq all \X all
              /\ \A a, b \in all : <<a, b>> \in older <=> a # b /\ <<b, a>> \notin older
              /\ \A a, b, c \in all :
                   <<a, b>> \in older /\ <<b, c>> \in older => <<a, c>> \in older
<1> DEFINE others == h.causal \ {j}
           before == OlderThan(h, j, rank)
           all == h.causal \cup {j}
           older == Ranked(h, j, rank)
           Ahead(i) == {k \in others : <<k, i>> \in h.older}
<1>1. older = (h.older \cap (others \X others))
                \cup (before \X {j}) \cup ({j} \X (others \ before))
  BY DEF Ranked, NoRank
<1>2. before = {i \in others : /\ Cardinality(Ahead(i)) < rank - 1
                               /\ j \in h.causal => <<i, j>> \in h.older}
  BY DEF OlderThan
<1>3. IsFiniteSet(others) /\ others \subseteq Jobs
  BY FS_Subset, HistoryAssumption DEF Histories
<1>4. \A i \in others : IsFiniteSet(Ahead(i)) /\ Cardinality(Ahead(i)) \in Nat
  <2> TAKE i \in others
  <2>1. Ahead(i) \subseteq others
    OBVIOUS
  <2> QED
    BY <2>1, <1>3, FS_Subset, FS_CardinalityType, Zenon
<1> DEFINE Older(a, b) == <<a, b>> \in h.older
<1>5. /\ \A a, b \in h.causal : Older(a, b) <=> a # b /\ ~Older(b, a)
      /\ \A a, b, c \in h.causal : Older(a, b) /\ Older(b, c) => Older(a, c)
  BY DEF Consistent
<1>6. ASSUME NEW a \in others, NEW b \in before, Older(a, b)
      PROVE  a \in before
  <2>1. b \in others /\ Cardinality(Ahead(b)) < rank - 1 /\ (j \in h.causal => Older(b, j))
    BY <1>2
  <2>2. Ahead(a) \subseteq Ahead(b)
    BY <1>5, <1>6, <2>1
  <2>3. Cardinality(Ahead(a)) <= Cardinality(Ahead(b))
    BY <1>4, <2>1, <2>2, FS_Subset, Zenon
  <2>4. Cardinality(Ahead(a)) < rank - 1
    <3> DEFINE m == Cardinality(Ahead(a))
               n == Cardinality(Ahead(b))
    <3>1. m \in Nat /\ n \in Nat /\ m <= n /\ n < rank - 1
      BY <1>4, <2>1, <2>3
    <3> HIDE DEF m, n
    <3>2. m < rank - 1
      BY <3>1
    <3> QED
      BY <3>2 DEF m
  <2>5. j \in h.causal => Older(a, j)
    BY <1>5, <1>6, <2>1
  <2> QED
    BY <1>2, <2>4, <2>5
<1>7. before \subseteq others /\ j \notin others /\ all = others \cup {j}
  BY <1>2
<1>8. /\ \A a, b \in others : <<a, b>> \in older <=> Older(a, b)
      /\ \A a \in others : <<a, j>> \in older <=> a \in before
      /\ \A a \in others : <<j, a>> \in older <=> a \notin before
      /\ <<j, j>> \notin older
      /\ older \subseteq all \X all
  BY <1>1, <1>7
<1>9. others \subseteq h.causal
  OBVIOUS
<1> HIDE DEF others, before, all, older, Older, Ahead
<1>10. \A a, b \in all : <<a, b>> \in older <=> a # b /\ <<b, a>> \notin older
  BY <1>5, <1>7, <1>8, <1>9, Zenon
<1>11. ASSUME NEW a \in all, NEW b \in all, NEW c \in all,
              <<a, b>> \in older, <<b, c>> \in older
       PROVE  <<a, c>> \in older
  <2>1. CASE a \in others /\ b \in others /\ c \in others
    BY <2>1, <1>5, <1>8, <1>9, <1>11
  <2>2. CASE a = j
    <3>1. b \in others /\ b \notin before
      BY <2>2, <1>7, <1>8, <1>11
    <3>2. c \in others
      BY <3>1, <1>7, <1>8, <1>11
    <3>3. c \notin before
      BY <3>1, <3>2, <1>6, <1>8, <1>11
    <3> QED
      BY <2>2, <3>2, <3>3, <1>8
  <2>3. CASE b = j
    <3>1. a \in before /\ a \in others /\ c \in others /\ c \notin before
      BY <2>3, <1>7, <1>8, <1>11
    <3>2. ~Older(c, a) /\ a # c
      BY <3>1, <1>6
    <3> QED
      BY <3>1, <3>2, <1>5, <1>8, <1>9
  <2>4. CASE c = j /\ a \in others /\ b \in others
    <3>1. b \in before /\ Older(a, b)
      BY <2>4, <1>8, <1>11
    <3>2. a \in before
      BY <2>4, <3>1, <1>6
    <3> QED
      BY <2>4, <3>2, <1>8
  <2> QED
    BY <2>1, <2>2, <2>3, <2>4, <1>7
<1> QED
  BY <1>8, <1>10, <1>11 DEF all, older

\* The history that set_job_status leaves to gc.
Updated(h, j, s, new, rank) ==
    [status |-> [h.status EXCEPT ![j][s] = new],
     causal |-> IF rank = NoRank THEN h.causal ELSE h.causal \cup {j},
     older |-> Ranked(h, j, rank),
     running |-> IF new = "started" THEN h.running \cup {<<j, s>>}
                 ELSE h.running \ {<<j, s>>}]

\* set_job_status changes one status, and the tables still agree.
LEMMA UpdatedFacts ==
    ASSUME NEW h \in Histories, Consistent(h), NEW j \in Jobs, NEW s \in Sleds,
           NEW new \in Status \ {"none"}, NEW rank \in Nat
    PROVE  /\ Updated(h, j, s, new, rank) \in Histories
           /\ Consistent(Updated(h, j, s, new, rank))
           /\ \A i \in Jobs, t \in Sleds :
                Updated(h, j, s, new, rank).status[i][t]
                  = IF i = j /\ t = s THEN new ELSE h.status[i][t]
<1> DEFINE g == Updated(h, j, s, new, rank)
           all == h.causal \cup {j}
<1>1. /\ g.status = [h.status EXCEPT ![j][s] = new]
      /\ g.causal = IF rank = NoRank THEN h.causal ELSE all
      /\ g.older = Ranked(h, j, rank)
      /\ g.running = IF new = "started" THEN h.running \cup {<<j, s>>}
                     ELSE h.running \ {<<j, s>>}
      /\ g = [status |-> g.status, causal |-> g.causal, older |-> g.older,
              running |-> g.running]
  BY DEF Updated
<1>2. /\ g.status \in [Jobs -> [Sleds -> Status]]
      /\ \A i \in Jobs, t \in Sleds :
           g.status[i][t] = IF i = j /\ t = s THEN new ELSE h.status[i][t]
  BY <1>1 DEF Histories
<1>3. /\ g.older \subseteq g.causal \X g.causal
      /\ \A a, b \in g.causal : <<a, b>> \in g.older <=> a # b /\ <<b, a>> \notin g.older
      /\ \A a, b, c \in g.causal :
           <<a, b>> \in g.older /\ <<b, c>> \in g.older => <<a, c>> \in g.older
  <2>1. CASE rank = NoRank
    <3>1. g.older = h.older /\ g.causal = h.causal
      BY <1>1, <2>1 DEF Ranked
    <3> QED
      BY <3>1 DEF Consistent
  <2>2. CASE rank # NoRank
    <3>1. rank \in Nat \ {0} /\ g.causal = all
      BY <1>1, <2>2 DEF NoRank
    <3> QED
      BY <1>1, <3>1, RankedFacts
  <2> QED
    BY <2>1, <2>2
<1> HIDE DEF g
<1>4. g.causal \subseteq Jobs /\ h.causal \subseteq Jobs /\ h.running \subseteq Jobs \X Sleds
  BY <1>1 DEF Histories
<1>5. g \in Histories
  <2>1. g.older \subseteq Jobs \X Jobs
    BY <1>3, <1>4
  <2>2. g.running \subseteq Jobs \X Sleds
    BY <1>1, <1>4
  <2> QED
    BY <1>1, <1>2, <1>4, <2>1, <2>2, Zenon DEF Histories
<1>6. g.running = {e \in Jobs \X Sleds : g.status[e[1]][e[2]] = "started"}
  <2>1. h.running = {e \in Jobs \X Sleds : h.status[e[1]][e[2]] = "started"}
    BY DEF Consistent
  <2>2. ASSUME NEW e \in Jobs \X Sleds
        PROVE  e \in g.running <=> g.status[e[1]][e[2]] = "started"
    <3>1. e = <<e[1], e[2]>> /\ e[1] \in Jobs /\ e[2] \in Sleds
      OBVIOUS
    <3>2. CASE e = <<j, s>>
      BY <1>1, <1>2, <3>2
    <3>3. CASE e # <<j, s>>
      <4>1. g.status[e[1]][e[2]] = h.status[e[1]][e[2]]
        BY <1>2, <3>1, <3>3
      <4>2. e \in g.running <=> e \in h.running
        BY <1>1, <3>3
      <4> QED
        BY <2>1, <4>1, <4>2
    <3> QED
      BY <3>2, <3>3
  <2>3. g.running \subseteq Jobs \X Sleds
    BY <1>1, <1>4
  <2> QED
    BY <2>2, <2>3
<1>7. g.causal \subseteq Entries(g)
  <2>1. j \in Entries(g)
    BY <1>2 DEF Entries
  <2>2. Entries(h) \subseteq Entries(g)
    BY <1>2 DEF Entries
  <2> QED
    BY <1>1, <2>1, <2>2 DEF Consistent
<1> QED
  BY <1>2, <1>3, <1>5, <1>6, <1>7 DEF Consistent, g

\* set_job_status with its gc: one status is set, others stay or are
\* forgotten, and jobs that are queued or run somewhere keep theirs.
LEMMA SetJobStatusFacts ==
    ASSUME NEW h \in Histories, Consistent(h), NEW j \in Jobs, NEW s \in Sleds,
           NEW new \in Status \ {"none"}, NEW rank \in Nat, NEW queued
    PROVE  LET g == SetJobStatus(h, j, s, new, rank, queued)
               now(i, t) == IF i = j /\ t = s THEN new ELSE h.status[i][t]
           IN /\ g \in Histories /\ Consistent(g)
              /\ \A i \in Jobs, t \in Sleds : g.status[i][t] \in {"none", now(i, t)}
              /\ \A i \in Jobs : i \in queued \/ (\E t \in Sleds : now(i, t) = "started")
                   => \A t \in Sleds : g.status[i][t] = now(i, t)
<1> DEFINE u == Updated(h, j, s, new, rank)
           now(i, t) == IF i = j /\ t = s THEN new ELSE h.status[i][t]
<1>1. SetJobStatus(h, j, s, new, rank, queued) = Gc(u, queued)
  BY DEF SetJobStatus, Updated
<1>2. u \in Histories /\ Consistent(u) /\ \A i \in Jobs, t \in Sleds : u.status[i][t] = now(i, t)
  BY UpdatedFacts
<1> HIDE DEF u
<1> QED
  BY <1>1, <1>2, GcFacts

\* What an event makes of a status.
LEMMA OnEventFacts ==
    ASSUME NEW old \in Status, NEW kind \in EventKind
    PROVE  /\ OnEvent(old, kind) \in Status
           /\ OnEvent(old, kind) # old => OnEvent(old, kind) # "none"
<1>1. CASE kind = "start"
  BY <1>1, Zenon DEF OnEvent, OnStart, Status, Terminal
<1>2. CASE kind = "stop"
  <2>1. OnEvent(old, kind) = OnStop(old)
    BY <1>2, Zenon DEF OnEvent
  <2> QED
    BY <2>1 DEF OnStop, Status, Terminal
<1>3. CASE kind \notin {"start", "stop"}
  <2>1. OnEvent(old, kind) = OnEnd(old, kind)
    BY <1>3, Zenon DEF OnEvent
  <2> QED
    BY <1>3, <2>1 DEF OnEnd, Status, Terminal, EventKind, Unsettled
<1> QED
  BY <1>1, <1>2, <1>3

\* The same, of the history g that h becomes.
Moved(h, g, j, s, new, queued) ==
    /\ \A i \in Jobs, t \in Sleds :
         g.status[i][t] \in {"none", IF i = j /\ t = s THEN new ELSE h.status[i][t]}
    /\ \A i \in Jobs :
         \/ i \in queued
         \/ \E t \in Sleds : (IF i = j /\ t = s THEN new ELSE h.status[i][t]) = "started"
         => \A t \in Sleds : g.status[i][t] = IF i = j /\ t = s THEN new ELSE h.status[i][t]

LEMMA StatusSet ==
    ASSUME NEW h \in Histories, Consistent(h), NEW j \in Jobs, NEW s \in Sleds,
           NEW new \in Status \ {"none"}, NEW rank \in Nat, NEW queued,
           NEW g, g = SetJobStatus(h, j, s, new, rank, queued)
    PROVE  Moved(h, g, j, s, new, queued)
BY SetJobStatusFacts DEF Moved

\* A job event is applied: at most its status changes, a start is recorded,
\* and no other started status is forgotten.
LEMMA ApplyJobEventFacts ==
    ASSUME NEW h \in Histories, Consistent(h), NEW j \in Jobs, NEW s \in Sleds,
           NEW kind \in EventKind, NEW rank \in Nat, NEW queued
    PROVE  LET g == ApplyJobEvent(h, j, s, kind, rank, queued)
           IN /\ g \in Histories /\ Consistent(g)
              /\ \A i \in Jobs, t \in Sleds : i # j \/ t # s =>
                   /\ g.status[i][t] \in {"none", h.status[i][t]}
                   /\ h.status[i][t] = "started" => g.status[i][t] = "started"
              /\ kind = "start" /\ h.status[j][s] \in {"none", "queued"}
                   => g.status[j][s] = "started"
<1> DEFINE old == h.status[j][s]
           g == ApplyJobEvent(h, j, s, kind, rank, queued)
           now(new, i, t) == IF i = j /\ t = s THEN new ELSE h.status[i][t]
<1>1. old \in Status
  BY DEF Histories
<1>2. ASSUME NEW new \in Status \ {"none"}, g = SetJobStatus(h, j, s, new, rank, queued)
      PROVE  /\ g \in Histories /\ Consistent(g)
             /\ \A i \in Jobs, t \in Sleds : i # j \/ t # s =>
                  /\ g.status[i][t] \in {"none", h.status[i][t]}
                  /\ h.status[i][t] = "started" => g.status[i][t] = "started"
             /\ new = "started" => g.status[j][s] = "started"
  <2>1. /\ g \in Histories /\ Consistent(g)
        /\ \A i \in Jobs, t \in Sleds : g.status[i][t] \in {"none", now(new, i, t)}
        /\ \A i \in Jobs : i \in queued \/ (\E t \in Sleds : now(new, i, t) = "started")
             => \A t \in Sleds : g.status[i][t] = now(new, i, t)
    BY <1>2, SetJobStatusFacts
  <2> HIDE DEF g
  <2> QED
    BY <2>1
<1>3. CASE kind = "start" /\ old \notin Terminal
  <2>1. g = SetJobStatus(h, j, s, "started", rank, queued)
    BY <1>3 DEF ApplyJobEvent
  <2>2. "started" \in Status \ {"none"}
    BY DEF Status
  <2> QED
    BY <1>2, <2>1, <2>2
<1>4. CASE ~(kind = "start" /\ old \notin Terminal)
  <2> DEFINE new == OnEvent(old, kind)
  <2>1. g = IF new = old THEN h ELSE SetJobStatus(h, j, s, new, rank, queued)
    BY <1>4, Zenon DEF ApplyJobEvent, TransitionJobStatus
  <2>2. new \in Status /\ (new # old => new # "none")
    BY <1>1, OnEventFacts
  <2>3. ~(kind = "start" /\ old \in {"none", "queued"})
    BY <1>4 DEF Terminal
  <2> HIDE DEF new, g, old
  <2>4. CASE new = old
    <3>1. g = h
      BY <2>1, <2>4
    <3> QED
      BY <3>1, <2>3 DEF g, old
  <2>5. CASE new # old
    <3>1. new \in Status \ {"none"} /\ g = SetJobStatus(h, j, s, new, rank, queued)
      BY <2>1, <2>2, <2>5
    <3> QED
      BY <3>1, <1>2, <2>3 DEF g, old
  <2> QED
    BY <2>4, <2>5
<1> QED
  BY <1>3, <1>4

------------------------------------------------------------------------------
(* The chain and the announcements. *)

\* The same, of the history g that h becomes.
Applied(h, g, j, s, kind) ==
    /\ \A i \in Jobs, t \in Sleds : i # j \/ t # s =>
         /\ g.status[i][t] \in {"none", h.status[i][t]}
         /\ h.status[i][t] = "started" => g.status[i][t] = "started"
    /\ kind = "start" /\ h.status[j][s] \in {"none", "queued"} => g.status[j][s] = "started"

LEMMA EventApplied ==
    ASSUME NEW h \in Histories, Consistent(h), NEW j \in Jobs, NEW s \in Sleds,
           NEW kind \in EventKind, NEW rank \in Nat, NEW queued,
           NEW g, g = ApplyJobEvent(h, j, s, kind, rank, queued)
    PROVE  Applied(h, g, j, s, kind)
BY ApplyJobEventFacts DEF Applied

\* The jobs that are released are the next ones of the chain, without a gap.
LEMMA ReleasedFacts ==
    ASSUME NEW q, {e[1] : e \in q} \subseteq Jobs, next \in Nat
    PROVE  /\ Cardinality(Released(q)) \in Nat
           /\ Released(q) = next .. next + Cardinality(Released(q)) - 1
           /\ Released(q) \subseteq Jobs
<1> DEFINE ids == {e[1] : e \in q}
           ready == Released(q)
           n == Cardinality(ready)
<1>1. ready = {j \in Jobs : j >= next /\ next .. j \subseteq ids}
  BY DEF Released
<1>2. IsFiniteSet(ready) /\ ready \subseteq Jobs /\ n \in Nat
  BY <1>1, FS_Subset, FS_CardinalityType, HistoryAssumption
<1>3. Jobs \subseteq Nat
  BY HistoryAssumption
<1>4. ASSUME NEW j \in ready, NEW i \in next .. j
      PROVE  i \in ready
  <2>1. j \in Nat /\ next .. j \subseteq ids
    BY <1>1, <1>3, Zenon
  <2>2. next .. i \subseteq next .. j
    BY <2>1
  <2>3. i \in ids /\ i >= next
    BY <2>1
  <2> QED
    BY <1>1, <2>1, <2>2, <2>3
<1> HIDE DEF ready, n, ids
<1>5. ASSUME NEW j \in ready
      PROVE  j \in next .. next + n - 1
  <2>1. j \in Nat /\ j >= next
    BY <1>1, <1>3
  <2>2. next .. j \subseteq ready
    BY <1>4
  <2>3. IsFiniteSet(next .. j) /\ Cardinality(next .. j) = j - next + 1
    BY <2>1, FS_Interval
  <2>4. j - next + 1 <= n
    BY <1>2, <2>2, <2>3, FS_Subset, Zenon DEF n
  <2> QED
    BY <1>2, <2>1, <2>4
<1>6. ASSUME NEW i \in next .. next + n - 1, i \notin ready
      PROVE  FALSE
  <2>0. i \in Nat /\ i >= next
    BY <1>2
  <2>1. ASSUME NEW j \in ready
        PROVE  j \in next .. i - 1
    <3>1. j \in Nat /\ j >= next
      BY <1>1, <1>3
    <3>2. ~(i <= j)
      BY <1>4, <1>6, <2>0, <3>1
    <3> QED
      BY <2>0, <3>1, <3>2
  <2>2. ready \subseteq next .. i - 1
    BY <2>1
  <2>3. /\ IsFiniteSet(next .. i - 1)
        /\ Cardinality(next .. i - 1) = IF next > i - 1 THEN 0 ELSE (i - 1) - next + 1
    <3>1. next \in Int /\ i - 1 \in Int
      BY <2>0
    <3> HIDE <2>0
    <3> QED
      BY <3>1, FS_Interval
  <2>4. n <= Cardinality(next .. i - 1)
    BY <2>2, <2>3, FS_Subset, Zenon DEF n
  <2> QED
    BY <1>2, <2>0, <2>3, <2>4
<1>7. ready = next .. next + n - 1
  BY <1>5, <1>6, Zenon
<1> QED
  BY <1>2, <1>7 DEF ready, n

\* A batch of skips is added behind what the sled has already announced.
LEMMA SkipsOfFacts ==
    ASSUME NEW js \in SUBSET Jobs, wire \in [Sleds -> Seq([job : Jobs, kind : EventKind])]
    PROVE  LET w == SkipsOf(js)
           IN /\ w \in [Sleds -> Seq([job : Jobs, kind : EventKind])]
              /\ \A s \in Sleds : s # Own => w[s] = wire[s]
              /\ Len(wire[Own]) <= Len(w[Own])
              /\ \A i \in 1 .. Len(wire[Own]) : w[Own][i] = wire[Own][i]
              /\ \A i \in Len(wire[Own]) + 1 .. Len(w[Own]) :
                   w[Own][i].job \in js /\ w[Own][i].kind = "skipped"
<1> DEFINE order == InSomeOrder(js)
           n == Cardinality(js)
           batch == [i \in DOMAIN order |-> Event(order[i], "skipped")]
           old == wire[Own]
<1>1. IsFiniteSet(js)
  BY FS_Subset, HistoryAssumption, Zenon
<1>2. /\ n \in Nat
      /\ \E f \in [1 .. n -> js] : \A i, k \in DOMAIN f : f[i] = f[k] => i = k
  <2>1. n \in Nat /\ ExistsBijection(1 .. n, js)
    BY <1>1, FS_CardinalityType
  <2> QED
    BY <2>1, Zenon DEF ExistsBijection, Bijection, Injection, IsInjective
<1>3. order \in [1 .. n -> js]
  BY <1>2, Zenon DEF InSomeOrder
<1>4. Own \in Sleds /\ old \in Seq([job : Jobs, kind : EventKind])
  BY ManagerAssumption, Zenon
<1> HIDE DEF order, n, old
<1>5. /\ batch \in Seq([job : Jobs, kind : EventKind]) /\ Len(batch) = n
      /\ \A i \in 1 .. n : batch[i] \in [job : js, kind : {"skipped"}]
  <2>1. \A i \in 1 .. n : Event(order[i], "skipped") \in [job : js, kind : {"skipped"}]
    BY <1>3 DEF Event
  <2>2. [job : js, kind : {"skipped"}] \subseteq [job : Jobs, kind : EventKind]
    BY DEF EventKind
  <2>3. batch = [i \in 1 .. n |-> Event(order[i], "skipped")]
    BY <1>3
  <2> QED
    BY <2>1, <2>2, <2>3, <1>2
<1> HIDE DEF batch
<1>6. SkipsOf(js) = [wire EXCEPT ![Own] = old \o batch]
  BY DEF SkipsOf, batch, order, old
<1>7. /\ old \o batch \in Seq([job : Jobs, kind : EventKind])
      /\ Len(old \o batch) = Len(old) + n /\ Len(old) \in Nat
      /\ \A i \in 1 .. Len(old) : (old \o batch)[i] = old[i]
      /\ \A i \in Len(old) + 1 .. Len(old) + n : (old \o batch)[i] = batch[i - Len(old)]
  <2> DEFINE E == [job : Jobs, kind : EventKind]
  <2>1. old \in Seq(E) /\ batch \in Seq(E) /\ Len(batch) = n /\ n \in Nat
    BY <1>2, <1>4, <1>5
  <2> HIDE DEF E
  <2>2. old \o batch \in Seq(E)
    BY <2>1
  <2>3. Len(old \o batch) = Len(old) + n /\ Len(old) \in Nat
    BY <2>1
  <2>4. \A i \in 1 .. Len(old) : (old \o batch)[i] = old[i]
    BY <2>1
  <2>5. \A i \in Len(old) + 1 .. Len(old) + n : (old \o batch)[i] = batch[i - Len(old)]
    BY <2>1
  <2> QED
    BY <2>2, <2>3, <2>4, <2>5 DEF E
<1>8. \A i \in Len(old) + 1 .. Len(old) + n :
        (old \o batch)[i].job \in js /\ (old \o batch)[i].kind = "skipped"
  <2> TAKE i \in Len(old) + 1 .. Len(old) + n
  <2>1. i - Len(old) \in 1 .. n
    BY <1>2, <1>7
  <2> QED
    BY <1>5, <1>7, <2>1
<1>9. /\ SkipsOf(js)[Own] = old \o batch
      /\ \A s \in Sleds : s # Own => SkipsOf(js)[s] = wire[s]
      /\ SkipsOf(js) \in [Sleds -> Seq([job : Jobs, kind : EventKind])]
  BY <1>4, <1>6, <1>7, Zenon
<1>10. /\ Len(old) <= Len(SkipsOf(js)[Own])
       /\ \A i \in 1 .. Len(old) : SkipsOf(js)[Own][i] = old[i]
       /\ \A i \in Len(old) + 1 .. Len(SkipsOf(js)[Own]) :
            SkipsOf(js)[Own][i].job \in js /\ SkipsOf(js)[Own][i].kind = "skipped"
  <2> DEFINE w == SkipsOf(js)[Own]
             c == old \o batch
  <2>1. w = c
    BY <1>9
  <2> HIDE DEF w, c
  <2>2. Len(old) <= Len(c)
    BY <1>2, <1>7 DEF c
  <2> QED
    BY <1>7, <1>8, <2>1, <2>2, Zenon DEF c, w
<1> QED
  BY <1>9, <1>10, Zenon DEF old

------------------------------------------------------------------------------
(* The tables, the chain and the attachment points. *)

Event_ == [job : Jobs, kind : EventKind]
Request_ == [kind : Kinds, job : Jobs \cup {0}, sleds : SUBSET Sleds]

\* What the first layer of the invariant says.
Base == ManagerShape /\ TablesAgree /\ ReleasedBehindNext

\* The bound on next follows from the jobs it has passed.
LEMMA NextBound ==
    ASSUME NEW n \in Nat \ {0}, 1 .. n - 1 \subseteq Jobs
    PROVE  n \in 1 .. Cardinality(Jobs) + 1
<1>1. IsFiniteSet(Jobs) /\ Cardinality(Jobs) \in Nat
  BY HistoryAssumption, FS_CardinalityType
<1>2. Cardinality(1 .. n - 1) = IF 1 > n - 1 THEN 0 ELSE (n - 1) - 1 + 1
  <2>1. 1 \in Int /\ n - 1 \in Int
    OBVIOUS
  <2> QED
    BY <2>1, FS_Interval
<1>3. Cardinality(1 .. n - 1) <= Cardinality(Jobs)
  BY <1>1, FS_Subset
<1> QED
  BY <1>1, <1>2, <1>3

\* A queue's head and what is left of it.
LEMMA TailFacts ==
    ASSUME NEW S, NEW q \in Seq(S), q # <<>>
    PROVE  /\ Head(q) \in S /\ Head(q) = q[1] /\ 1 \in DOMAIN q
           /\ Tail(q) \in Seq(S) /\ Len(Tail(q)) = Len(q) - 1
           /\ \A i \in DOMAIN Tail(q) : i + 1 \in DOMAIN q /\ Tail(q)[i] = q[i + 1]
           /\ \A i \in DOMAIN q : i # 1 => i - 1 \in DOMAIN Tail(q) /\ Tail(q)[i - 1] = q[i]
OBVIOUS

\* What release_ready_jobs changes.
LEMMA ReleaseFacts ==
    ASSUME Base, NEW q \in SUBSET (Jobs \X SUBSET Sleds), NEW h, ReleaseReadyJobs(q, h)
    PROVE  /\ queue' = {e \in q : e[1] \notin Released(q)}
           /\ next' \in Nat \ {0} /\ next' >= next /\ 1 .. next' - 1 \subseteq Jobs
           /\ Released(q) = next .. next' - 1
           /\ attach' \subseteq Jobs
           /\ \A j \in attach' : j \in attach \/ (j >= next /\ work'[Own][j] = "released")
           /\ work' \in [Sleds -> [Jobs -> Phase]]
           /\ \A s \in Sleds, j \in Jobs :
                IF j \in Released(q) THEN work'[s][j] \in {"idle", "asked", "released"}
                ELSE work'[s][j] = work[s][j]
<1> DEFINE ready == Released(q)
           n == Cardinality(ready)
           run == {j \in ready : /\ \E e \in q : e[1] = j /\ Own \in e[2]
                                 /\ HistoryContains(h, j) => h.status[j][Own] = "queued"}
           to(s, j) == IF s = Own /\ j \in run /\ work[s][j] = "idle" THEN "released"
                       ELSE IF /\ s # Own /\ j \in ready /\ work[s][j] = "idle"
                               /\ \E e \in q : e[1] = j /\ s \in e[2] THEN "asked"
                       ELSE work[s][j]
<1>0. Own \in Sleds /\ Jobs \subseteq Nat
  BY ManagerAssumption, HistoryAssumption
<1>1. /\ next \in Nat \ {0} /\ attach \subseteq Jobs /\ work \in [Sleds -> [Jobs -> Phase]]
      /\ 1 .. next - 1 \subseteq Jobs
      /\ \A j \in Jobs, s \in Sleds : j >= next => work[s][j] = "idle"
  <2>1. next \in 1 .. Cardinality(Jobs) + 1 /\ Cardinality(Jobs) \in Nat
    BY HistoryAssumption, FS_CardinalityType DEF Base, ManagerShape, ManagerTypeOK
  <2>2. next \in Nat \ {0}
    BY <2>1
  <2>3. attach \subseteq Jobs /\ work \in [Sleds -> [Jobs -> Phase]]
    BY Zenon DEF Base, ManagerShape, ManagerTypeOK
  <2>4. /\ 1 .. next - 1 \subseteq Jobs
        /\ \A j \in Jobs, s \in Sleds : j >= next => work[s][j] = "idle"
    BY Zenon DEF Base, ReleasedBehindNext
  <2> QED
    BY <2>2, <2>3, <2>4
<1>2. /\ queue' = {e \in q : e[1] \notin ready} /\ next' = next + n
      /\ attach' = attach \cup run
      /\ work' = [s \in Sleds |-> [j \in Jobs |-> to(s, j)]]
  BY Zenon DEF ReleaseReadyJobs
<1>3. {e[1] : e \in q} \subseteq Jobs
  OBVIOUS
<1>4. n \in Nat /\ ready = next .. next + n - 1 /\ ready \subseteq Jobs
  BY <1>1, <1>3, ReleasedFacts
<1>5. run \subseteq ready
  OBVIOUS
<1> HIDE DEF ready, n, run
<1>6. ASSUME NEW i \in 1 .. next' - 1
      PROVE  i \in Jobs
  <2>1. CASE i < next
    BY <1>1, <2>1
  <2>2. CASE ~(i < next)
    <3>1. i \in ready
      BY <1>1, <1>2, <1>4, <2>2
    <3> QED
      BY <3>1, <1>4
  <2> QED
    BY <2>1, <2>2
<1>7. \A s \in Sleds, j \in Jobs : work'[s][j] = to(s, j)
  BY <1>2
<1>8. ASSUME NEW s \in Sleds, NEW j \in Jobs
      PROVE  /\ j \in ready => work'[s][j] \in {"idle", "asked", "released"}
             /\ j \notin ready => work'[s][j] = work[s][j]
             /\ s = Own /\ j \in run => work'[s][j] = "released"
  <2>1. j \in ready => work[s][j] = "idle" /\ j >= next
    BY <1>1, <1>4, <1>0
  <2> QED
    BY <1>5, <1>7, <2>1
<1>9. work' \in [Sleds -> [Jobs -> Phase]]
  <2>1. \A s \in Sleds, j \in Jobs : to(s, j) \in Phase
    BY <1>1 DEF Phase
  <2> QED
    BY <1>2, <2>1
<1>10. attach' \subseteq Jobs
  BY <1>1, <1>2, <1>4, <1>5
<1>11. \A j \in attach' : j \in attach \/ (j >= next /\ work'[Own][j] = "released")
  <2> SUFFICES ASSUME NEW j \in run PROVE j >= next /\ work'[Own][j] = "released"
    BY <1>2, Zenon
  <2> QED
    BY <1>0, <1>1, <1>4, <1>5, <1>8
<1>12. next' \in Nat \ {0} /\ next' >= next /\ ready = next .. next' - 1
  BY <1>1, <1>2, <1>4
<1> QED
  BY <1>2, <1>6, <1>8, <1>9, <1>10, <1>11, <1>12, Zenon DEF ready

Scalars ==
    /\ session \in {"none", "pending", "active", "outranked"}
    /\ sent \in Nat /\ upsets \in Nat /\ linked \subseteq Others
QueueOK == queue \subseteq Jobs \X SUBSET Sleds
HistOK == hist \in Histories /\ Consistent(hist)
WireOK == wire \in [Sleds -> Seq(Event_)]
RequestsOK ==
    /\ requests \in Seq(Request_)
    /\ \A i \in DOMAIN requests :
         requests[i].kind \in {"start", "stop"} => requests[i].job \in Jobs
ChainOK ==
    /\ next \in Nat \ {0} /\ attach \subseteq Jobs
    /\ work \in [Sleds -> [Jobs -> Phase]]
    /\ ReleasedBehindNext

\* Base, part by part.
LEMMA BaseParts ==
    Base <=> Scalars /\ QueueOK /\ HistOK /\ WireOK /\ RequestsOK /\ ChainOK
<1>1. Base => Scalars /\ QueueOK /\ HistOK /\ WireOK /\ RequestsOK /\ ChainOK
  <2> SUFFICES ASSUME Base
               PROVE  Scalars /\ QueueOK /\ HistOK /\ WireOK /\ RequestsOK /\ ChainOK
    OBVIOUS
  <2>1. next \in Nat \ {0}
    <3>1. Cardinality(Jobs) \in Nat
      BY HistoryAssumption, FS_CardinalityType
    <3>2. next \in 1 .. Cardinality(Jobs) + 1
      BY DEF Base, ManagerShape, ManagerTypeOK
    <3> QED
      BY <3>1, <3>2
  <2>2. Scalars /\ QueueOK /\ HistOK
    BY DEF Base, ManagerShape, ManagerTypeOK, TablesAgree, Scalars, QueueOK, HistOK
  <2>3. WireOK /\ RequestsOK
    BY Zenon DEF Base, ManagerShape, WireOK, RequestsOK, Event_, Request_
  <2>4. ChainOK
    BY <2>1 DEF Base, ManagerShape, ManagerTypeOK, ChainOK
  <2> QED
    BY <2>2, <2>3, <2>4
<1>2. Scalars /\ QueueOK /\ HistOK /\ WireOK /\ RequestsOK /\ ChainOK => Base
  <2> SUFFICES ASSUME Scalars, QueueOK, HistOK, WireOK, RequestsOK, ChainOK
               PROVE  Base
    OBVIOUS
  <2>1. next \in 1 .. Cardinality(Jobs) + 1
    BY NextBound DEF ChainOK, ReleasedBehindNext
  <2>2. \A i \in DOMAIN requests : requests[i].kind \in Kinds
    <3>1. \A r \in Request_ : r.kind \in Kinds
      BY DEF Request_
    <3>2. \A i \in DOMAIN requests : requests[i] \in Request_
      BY DEF RequestsOK
    <3> QED
      BY <3>1, <3>2
  <2>3. hist.status \in [Jobs -> [Sleds -> Status]]
    BY DEF HistOK, Histories
  <2>4. ManagerTypeOK
    BY <2>1, <2>2, <2>3 DEF Scalars, QueueOK, ChainOK, ManagerTypeOK
  <2>5. ManagerShape
    BY <2>4, Zenon DEF ManagerShape, HistOK, WireOK, RequestsOK, Event_, Request_
  <2> QED
    BY <2>5 DEF Base, TablesAgree, HistOK, ChainOK
<1> QED
  BY <1>1, <1>2

\* The same of the next state.
LEMMA BasePartsNext ==
    ASSUME Scalars', QueueOK', HistOK', WireOK', RequestsOK', ChainOK'
    PROVE  Base'
BY BaseParts, PTL

\* An empty rack satisfies it.
LEMMA InitBase == Init => Base
<1> SUFFICES ASSUME Init PROVE Base
  OBVIOUS
<1>1. Scalars /\ QueueOK
  BY ManagerAssumption DEF Init, Scalars, QueueOK
<1>2. HistOK
  <2>1. NoHistory \in Histories
    BY DEF NoHistory, Histories, Status
  <2>2. Consistent(NoHistory)
    BY DEF NoHistory, Consistent, Entries
  <2> QED
    BY <2>1, <2>2 DEF Init, HistOK
<1>3. WireOK /\ RequestsOK
  BY DEF Init, WireOK, RequestsOK
<1>4. ChainOK
  BY DEF Init, ChainOK, ReleasedBehindNext, Phase
<1> QED
  BY <1>1, <1>2, <1>3, <1>4, BaseParts

\* The chain's part holds while its variables stay and ends announced here
\* are not taken off the wire.
LEMMA ChainFrame ==
    ASSUME ChainOK, UNCHANGED <<next, attach, work>>,
           Len(wire[Own]) \in Nat, Len(wire'[Own]) \in Nat,
           DOMAIN wire[Own] = 1 .. Len(wire[Own]),
           DOMAIN wire'[Own] = 1 .. Len(wire'[Own]),
           Len(wire[Own]) <= Len(wire'[Own]),
           \A i \in 1 .. Len(wire[Own]) : wire'[Own][i] = wire[Own][i]
    PROVE  ChainOK'
<1>1. \A j : EndInFlight(j) => EndInFlight(j)'
  BY DEF EndInFlight
<1> QED
  BY <1>1 DEF ChainOK, ReleasedBehindNext

\* It holds when skips are added.
LEMMA ChainSkips ==
    ASSUME ChainOK, WireOK, UNCHANGED <<next, attach, work>>, NEW js \in SUBSET Jobs,
           wire' = SkipsOf(js)
    PROVE  ChainOK' /\ WireOK'
<1>1. Own \in Sleds
  BY ManagerAssumption
<1>2. wire \in [Sleds -> Seq([job : Jobs, kind : EventKind])]
  BY Zenon DEF WireOK, Event_
<1>3. /\ wire' \in [Sleds -> Seq([job : Jobs, kind : EventKind])]
      /\ Len(wire[Own]) <= Len(wire'[Own])
      /\ \A i \in 1 .. Len(wire[Own]) : wire'[Own][i] = wire[Own][i]
  BY <1>2, SkipsOfFacts, Zenon
<1>4. WireOK'
  BY <1>3, Zenon DEF WireOK, Event_
<1>5. /\ Len(wire[Own]) \in Nat /\ Len(wire'[Own]) \in Nat
      /\ DOMAIN wire[Own] = 1 .. Len(wire[Own])
      /\ DOMAIN wire'[Own] = 1 .. Len(wire'[Own])
  BY <1>1, <1>2, <1>3
<1> QED
  BY <1>3, <1>4, <1>5, ChainFrame

\* It holds when neither changes.
LEMMA ChainSame ==
    ASSUME ChainOK, WireOK, UNCHANGED <<next, attach, work, wire>>
    PROVE  ChainOK' /\ WireOK'
BY DEF ChainOK, WireOK, ReleasedBehindNext, EndInFlight

\* The handlers of session requests keep the tables, the chain and the queue.
LEMMA SessionHandlersBase ==
    ASSUME Base, HandleSessionStart \/ HandleSessionStop
    PROVE  /\ session' \in {"none", "pending", "active", "outranked"}
           /\ QueueOK' /\ HistOK' /\ WireOK' /\ ChainOK'
<1>0. Scalars /\ QueueOK /\ HistOK /\ WireOK /\ ChainOK
  BY BaseParts
<1>02. \A q \in SUBSET queue : {e[1] : e \in q} \in SUBSET Jobs
  BY <1>0 DEF QueueOK
<1>1. CASE HandleSessionStart
  <2>1. session' \in {"none", "pending", "active", "outranked"}
    BY <1>0, <1>1 DEF HandleSessionStart, Scalars
  <2>2. UNCHANGED <<next, queue, hist, attach, work, wire>>
    BY <1>1 DEF HandleSessionStart
  <2>3. QueueOK' /\ HistOK'
    BY <2>2, <1>0 DEF QueueOK, HistOK
  <2> QED
    BY <2>1, <2>2, <2>3, <1>0, ChainSame
<1>2. CASE HandleSessionStop
  <2> DEFINE js == {e[1] : e \in {q \in queue : Own \in q[2]}}
  <2>1. session' \in {"none", "pending", "active", "outranked"}
    BY <1>0, <1>2 DEF HandleSessionStop, Scalars
  <2>2. UNCHANGED <<next, hist, attach, work>>
    BY <1>2 DEF HandleSessionStop
  <2>3. HistOK'
    BY <2>2, <1>0 DEF HistOK
  <2>4. \/ wire' = SkipsOf(js) /\ queue' = {}
        \/ UNCHANGED <<wire, queue>>
    BY <1>2, Zenon DEF HandleSessionStop
  <2>5. js \in SUBSET Jobs
    <3>1. {q \in queue : Own \in q[2]} \in SUBSET queue
      OBVIOUS
    <3> QED
      BY <3>1, <1>02
  <2> HIDE DEF js
  <2>6. QueueOK'
    BY <2>4, <1>0 DEF QueueOK
  <2> QED
    BY <2>1, <2>2, <2>3, <2>4, <2>5, <2>6, <1>0, ChainSame, ChainSkips
<1> QED
  BY <1>1, <1>2

\* So do the handlers of job requests.
LEMMA JobHandlersBase ==
    ASSUME Base, NEW j \in Jobs, NEW sleds \in SUBSET Sleds,
           HandleJobStart(j, sleds) \/ HandleJobStop(j)
    PROVE  /\ session' \in {"none", "pending", "active", "outranked"}
           /\ QueueOK' /\ HistOK' /\ WireOK' /\ ChainOK'
<1>0. Scalars /\ QueueOK /\ HistOK /\ WireOK /\ ChainOK
  BY BaseParts
<1>01. Own \in Sleds /\ NoRank \in Nat
  BY ManagerAssumption DEF NoRank
<1>3. CASE HandleJobStart(j, sleds)
  <2>1. session' \in {"none", "pending", "active", "outranked"}
    BY <1>0, <1>3 DEF HandleJobStart, Scalars
  <2>2. CASE EnqueueJob(j, sleds) /\ UNCHANGED wire
    <3> DEFINE q == {e \in queue : e[1] # j} \cup {<<j, sleds>>}
               ids == {e[1] : e \in q}
               h == IF Own \in sleds
                    THEN SetJobStatus(hist, j, Own, "queued", NoRank, ids) ELSE hist
    <3>1. CASE UNCHANGED <<next, queue, hist, attach, work>>
      <4>1. QueueOK' /\ HistOK'
        BY <3>1, <1>0 DEF QueueOK, HistOK
      <4> QED
        BY <2>1, <2>2, <3>1, <4>1, <1>0, ChainSame
    <3>2. CASE hist' = h /\ ReleaseReadyJobs(q, h)
      <4>1. q \in SUBSET (Jobs \X SUBSET Sleds)
        BY <1>0 DEF QueueOK
      <4>2. HistOK'
        <5>1. "queued" \in Status \ {"none"}
          BY DEF Status
        <5>2. h \in Histories /\ Consistent(h)
          BY <1>0, <1>01, <5>1, SetJobStatusFacts, SMTT(60) DEF HistOK
        <5> QED
          BY <3>2, <5>2 DEF HistOK
      <4> HIDE DEF q, h
      <4>3. /\ queue' = {e \in q : e[1] \notin Released(q)}
            /\ next' \in Nat \ {0} /\ next' >= next /\ 1 .. next' - 1 \subseteq Jobs
            /\ Released(q) = next .. next' - 1
            /\ attach' \subseteq Jobs
            /\ \A i \in attach' : i \in attach \/ (i >= next /\ work'[Own][i] = "released")
            /\ work' \in [Sleds -> [Jobs -> Phase]]
            /\ \A s \in Sleds, i \in Jobs :
                 IF i \in Released(q) THEN work'[s][i] \in {"idle", "asked", "released"}
                 ELSE work'[s][i] = work[s][i]
        BY <3>2, <4>1, ReleaseFacts
      <4>4. QueueOK'
        BY <4>1, <4>3 DEF QueueOK
      <4>5. WireOK'
        BY <2>2, <1>0 DEF WireOK
      <4>6. ASSUME NEW i \in Jobs, NEW s \in Sleds, i >= next'
            PROVE  work'[s][i] = "idle"
        <5>1. i \in Nat /\ next \in Nat
          BY <1>0, HistoryAssumption DEF ChainOK
        <5>2. next' \in Nat /\ next' >= next /\ Released(q) = next .. next' - 1
          BY <4>3
        <5>3. i >= next /\ i \notin next .. next' - 1
          <6> DEFINE n == next'
          <6>1. i \in Nat /\ next \in Nat /\ n \in Nat /\ n >= next /\ i >= n
            BY <4>6, <5>1, <5>2
          <6> HIDE DEF n
          <6>2. i >= next /\ ~(i <= n - 1)
            BY <6>1
          <6>3. i \notin next .. n - 1
            BY <6>1, <6>2
          <6> QED
            BY <6>2, <6>3 DEF n
        <5>4. i \notin Released(q)
          BY <5>2, <5>3
        <5> QED
          BY <4>3, <5>3, <5>4, <1>0 DEF ChainOK, ReleasedBehindNext
      <4>7. ASSUME NEW i \in attach'
            PROVE  work'[Own][i] \in {"released", "running"} \/ EndInFlight(i)'
        <5>1. CASE i \in attach
          <6>1. CASE EndInFlight(i)
            BY <2>2, <6>1 DEF EndInFlight
          <6>2. CASE work[Own][i] \in {"released", "running"}
            <7>1. i \in Jobs /\ i \in Nat /\ next \in Nat
              BY <1>0, <5>1, HistoryAssumption DEF ChainOK
            <7>2. ~(i >= next)
              BY <1>0, <1>01, <6>2, <7>1 DEF ChainOK, ReleasedBehindNext
            <7>3. i \notin Released(q)
              <8>1. next' \in Nat /\ Released(q) = next .. next' - 1
                BY <4>3
              <8>2. i \in next .. next' - 1 => i >= next
                BY <8>1, <7>1
              <8> QED
                BY <8>1, <8>2, <7>2
            <7> QED
              BY <4>3, <6>2, <7>1, <7>3, <1>01
          <6> QED
            BY <5>1, <6>1, <6>2, <1>0 DEF ChainOK, ReleasedBehindNext
        <5>2. CASE work'[Own][i] = "released"
          BY <5>2
        <5> QED
          BY <4>3, <5>1, <5>2
      <4>8. ChainOK'
        BY <4>3, <4>6, <4>7, Zenon DEF ChainOK, ReleasedBehindNext
      <4> QED
        BY <2>1, <4>2, <4>4, <4>5, <4>8
    <3> QED
      BY <2>2, <3>1, <3>2, Zenon DEF EnqueueJob
  <2>3. CASE /\ wire' = SkipsOf({j}) \/ UNCHANGED wire
             /\ UNCHANGED <<next, queue, hist, attach, work>>
    <3>1. QueueOK' /\ HistOK'
      BY <2>3, <1>0 DEF QueueOK, HistOK
    <3>2. {j} \in SUBSET Jobs
      OBVIOUS
    <3> QED
      BY <2>1, <2>3, <3>1, <3>2, <1>0, ChainSame, ChainSkips
  <2> QED
    BY <1>3, <2>2, <2>3, Zenon DEF HandleJobStart
<1>4. CASE HandleJobStop(j)
  <2>1. UNCHANGED <<session, next, attach, work, wire>>
    BY <1>4 DEF HandleJobStop
  <2> DEFINE q == {e \in queue : e[1] # j}
             ids == {e[1] : e \in q}
  <2>2. \/ UNCHANGED <<queue, hist>>
        \/ /\ queue' = q
           /\ hist' \in {hist, SetJobStatus(hist, j, Own, "cancelled", NoRank, ids)}
    <3>1. CASE CancelJob(j)
      BY <3>1 DEF CancelJob
    <3> QED
      BY <1>4, <3>1 DEF HandleJobStop
  <2>3. QueueOK'
    BY <2>2, <1>0 DEF QueueOK
  <2>4. HistOK'
    <3>1. "cancelled" \in Status \ {"none"}
      BY DEF Status, Terminal
    <3>11. hist \in Histories /\ Consistent(hist)
      BY <1>0 DEF HistOK
    <3> HIDE DEF ids
    <3>2. SetJobStatus(hist, j, Own, "cancelled", NoRank, ids) \in Histories
          /\ Consistent(SetJobStatus(hist, j, Own, "cancelled", NoRank, ids))
      BY <1>01, <3>1, <3>11, SetJobStatusFacts
    <3> QED
      BY <2>2, <3>2, <1>0 DEF HistOK
  <2>5. session' \in {"none", "pending", "active", "outranked"}
    BY <2>1, <1>0 DEF Scalars
  <2> QED
    BY <2>1, <2>3, <2>4, <2>5, <1>0, ChainSame
<1> QED
  BY <1>3, <1>4

\* The head of the requests is one, and the others are left.
LEMMA RequestTail ==
    ASSUME RequestsOK, requests # <<>>, requests' = Tail(requests)
    PROVE  /\ RequestsOK'
           /\ Head(requests) \in Request_
           /\ Head(requests).kind \in {"start", "stop"} => Head(requests).job \in Jobs
<1>1. requests \in Seq(Request_)
  BY DEF RequestsOK
<1>2. /\ Head(requests) \in Request_ /\ Head(requests) = requests[1]
      /\ 1 \in DOMAIN requests
      /\ Tail(requests) \in Seq(Request_)
      /\ \A i \in DOMAIN Tail(requests) :
           i + 1 \in DOMAIN requests /\ Tail(requests)[i] = requests[i + 1]
  BY <1>1, TailFacts
<1>3. Head(requests).kind \in {"start", "stop"} => Head(requests).job \in Jobs
  BY <1>2 DEF RequestsOK
<1>4. \A i \in DOMAIN Tail(requests) : Tail(requests)[i].kind \in {"start", "stop"}
        => Tail(requests)[i].job \in Jobs
  BY <1>2 DEF RequestsOK
<1> QED
  BY <1>2, <1>3, <1>4 DEF RequestsOK

\* The manager's turn with a request keeps the tables in step.
LEMMA ApplyRequestBase == Base /\ ApplyRequest => Base'
<1> SUFFICES ASSUME Base, ApplyRequest PROVE Base'
  OBVIOUS
<1> DEFINE r == Head(requests)
<1>0. Scalars /\ RequestsOK
  BY BaseParts
<1>1. /\ requests # <<>> /\ requests' = Tail(requests)
      /\ UNCHANGED <<linked, sent, begun, upsets>>
      /\ \/ HandleSessionStart \/ HandleSessionStop
         \/ r.kind = "start" /\ HandleJobStart(r.job, r.sleds)
         \/ r.kind = "stop" /\ HandleJobStop(r.job)
  BY DEF ApplyRequest
<1>2. /\ RequestsOK' /\ r \in Request_
      /\ r.kind \in {"start", "stop"} => r.job \in Jobs
  BY <1>0, <1>1, RequestTail
<1>3. r.sleds \in SUBSET Sleds
  BY <1>2 DEF Request_
<1> HIDE DEF r
<1>4. /\ session' \in {"none", "pending", "active", "outranked"}
      /\ QueueOK' /\ HistOK' /\ WireOK' /\ ChainOK'
  BY <1>1, <1>2, <1>3, SessionHandlersBase, JobHandlersBase, Zenon
<1>5. Scalars'
  BY <1>0, <1>1, <1>4 DEF Scalars
<1> QED
  BY <1>2, <1>4, <1>5, BasePartsNext

\* So does a session that another one supersedes: its queue is skipped.
LEMMA SupersedeBase == Base /\ Supersede => Base'
<1> SUFFICES ASSUME Base, Supersede PROVE Base'
  OBVIOUS
<1> DEFINE js == {e[1] : e \in {q \in queue : Own \in q[2]}}
<1>0. Scalars /\ QueueOK /\ HistOK /\ WireOK /\ RequestsOK /\ ChainOK
  BY BaseParts
<1>1. /\ session' = "outranked" /\ wire' = SkipsOf(js) /\ queue' = {}
      /\ UNCHANGED <<next, hist, attach, work, linked, requests, sent, begun, upsets>>
  BY DEF Supersede
<1>2. js \in SUBSET Jobs
  BY <1>0 DEF QueueOK
<1> HIDE DEF js
<1>3. ChainOK' /\ WireOK'
  BY <1>0, <1>1, <1>2, ChainSkips
<1>4. Scalars' /\ QueueOK' /\ HistOK' /\ RequestsOK'
  BY <1>0, <1>1 DEF Scalars, QueueOK, HistOK, RequestsOK
<1> QED
  BY <1>3, <1>4, BasePartsNext

\* A new universe starts with empty tables.
LEMMA SwapUniverseBase == Base /\ SwapUniverse => Base'
<1> SUFFICES ASSUME Base, SwapUniverse PROVE Base'
  OBVIOUS
<1>0. Scalars /\ RequestsOK
  BY BaseParts
<1>1. /\ session' = "none" /\ next' = 1 /\ queue' = {} /\ hist' = NoHistory /\ attach' = {}
      /\ work' = [s \in Sleds |-> [j \in Jobs |-> "idle"]]
      /\ wire' = [s \in Sleds |-> <<>>]
      /\ upsets' = upsets + 1
      /\ UNCHANGED <<linked, requests, sent, begun>>
  BY DEF SwapUniverse
<1>2. HistOK'
  <2>1. NoHistory \in Histories
    BY DEF NoHistory, Histories, Status
  <2>2. Consistent(NoHistory)
    BY DEF NoHistory, Consistent, Entries
  <2> QED
    BY <1>1, <2>1, <2>2 DEF HistOK
<1>3. ChainOK'
  BY <1>1 DEF ChainOK, ReleasedBehindNext, Phase
<1>4. Scalars' /\ RequestsOK'
  BY <1>0, <1>1 DEF Scalars, RequestsOK
<1>5. QueueOK' /\ WireOK'
  BY <1>1 DEF QueueOK, WireOK
<1> QED
  BY <1>2, <1>3, <1>4, <1>5, BasePartsNext

\* An event leaves the wire, and with an end its attachment point.
LEMMA ApplyEventBase ==
    ASSUME Base, NEW s \in Sleds, ApplyEvent(s)
    PROVE  Base'
<1> DEFINE e == Head(wire[s])
<1>0. Scalars /\ QueueOK /\ HistOK /\ WireOK /\ RequestsOK /\ ChainOK
  BY BaseParts
<1>1. /\ wire[s] # <<>>
      /\ \E rank \in 1 .. Cardinality(hist.causal) + 1 :
           hist' = ApplyJobEvent(hist, e.job, s, e.kind, rank, QueuedIds)
      /\ attach' = IF s = Own /\ e.kind \in {"stop", "error"} THEN attach \ {e.job} ELSE attach
      /\ wire' = [wire EXCEPT ![s] = Tail(wire[s])]
      /\ UNCHANGED <<session, next, queue, work, linked, requests, sent, begun, upsets>>
  BY DEF ApplyEvent
<1>2. wire[s] \in Seq(Event_) /\ Own \in Sleds
  BY <1>0, ManagerAssumption DEF WireOK
<1>3. /\ e \in Event_ /\ e = wire[s][1] /\ Tail(wire[s]) \in Seq(Event_)
      /\ \A i \in DOMAIN wire[s] : i # 1 =>
           i - 1 \in DOMAIN Tail(wire[s]) /\ Tail(wire[s])[i - 1] = wire[s][i]
  BY <1>1, <1>2, TailFacts
<1>4. e.job \in Jobs /\ e.kind \in EventKind
  BY <1>3 DEF Event_
<1> HIDE DEF e
<1>5. HistOK'
  <2>1. PICK rank \in 1 .. Cardinality(hist.causal) + 1 :
          hist' = ApplyJobEvent(hist, e.job, s, e.kind, rank, QueuedIds)
    BY <1>1
  <2>2. rank \in Nat
    OBVIOUS
  <2> QED
    BY <1>0, <1>4, <2>1, <2>2, ApplyJobEventFacts, SMTT(60) DEF HistOK
<1>6. WireOK' /\ wire'[s] = Tail(wire[s]) /\ \A t \in Sleds : t # s => wire'[t] = wire[t]
  BY <1>0, <1>1, <1>3, Zenon DEF WireOK
<1>7. ASSUME NEW j \in attach'
      PROVE  work'[Own][j] \in {"released", "running"} \/ EndInFlight(j)'
  <2>1. j \in attach /\ ~(s = Own /\ e.kind \in {"stop", "error"} /\ e.job = j)
    BY <1>1
  <2>2. CASE work[Own][j] \in {"released", "running"}
    BY <1>1, <2>2
  <2>3. CASE EndInFlight(j)
    <3>1. PICK i \in DOMAIN wire[Own] :
            wire[Own][i].job = j /\ wire[Own][i].kind \in {"stop", "error"}
      BY <2>3 DEF EndInFlight
    <3>2. CASE s # Own
      BY <1>2, <1>6, <3>1, <3>2 DEF EndInFlight
    <3>3. CASE s = Own
      <4>1. i # 1
        BY <1>3, <2>1, <3>1, <3>3
      <4>2. i - 1 \in DOMAIN wire'[Own] /\ wire'[Own][i - 1] = wire[Own][i]
        BY <1>3, <1>6, <3>3, <4>1, Zenon
      <4> QED
        BY <3>1, <4>2 DEF EndInFlight
    <3> QED
      BY <3>2, <3>3
  <2> QED
    BY <1>0, <2>1, <2>2, <2>3 DEF ChainOK, ReleasedBehindNext
<1>8. ChainOK'
  <2>1. attach' \subseteq Jobs
    BY <1>0, <1>1 DEF ChainOK
  <2> QED
    BY <1>0, <1>1, <1>7, <2>1 DEF ChainOK, ReleasedBehindNext
<1>9. Scalars' /\ QueueOK' /\ RequestsOK'
  BY <1>0, <1>1 DEF Scalars, QueueOK, RequestsOK
<1> QED
  BY <1>5, <1>6, <1>8, <1>9, BasePartsNext

\* An executor's step: the job leaves "asked", "released" or "running", and
\* says so.
LEMMA WorkStepBase == Base /\ WorkStep => Base'
<1> SUFFICES ASSUME Base, NEW s \in Sleds, NEW j \in Jobs,
                    \/ JobStarts(s, j) \/ JobFails(s, j)
                    \/ JobSkipped(s, j) \/ JobEnds(s, j)
             PROVE  Base'
  BY Zenon DEF WorkStep
<1>0. Scalars /\ QueueOK /\ HistOK /\ WireOK /\ RequestsOK /\ ChainOK
  BY BaseParts
<1>1. PICK phase, kind :
        /\ Announce(s, j, phase, kind) /\ work[s][j] # "idle"
        /\ phase \in Phase /\ kind \in EventKind
        /\ \/ phase = "running"
           \/ kind \in {"stop", "error"}
           \/ work[s][j] = "asked"
  BY DEF JobStarts, JobFails, JobSkipped, JobEnds, Phase, EventKind
<1>2. /\ work' = [work EXCEPT ![s][j] = phase]
      /\ wire' = [wire EXCEPT ![s] = Append(wire[s], Event(j, kind))]
      /\ UNCHANGED <<session, next, queue, hist, attach, linked, requests, sent,
                     begun, upsets, calls>>
  BY <1>1 DEF Announce
<1>3. Event(j, kind) \in Event_ /\ Event(j, kind).job = j /\ Event(j, kind).kind = kind
  BY <1>1 DEF Event, Event_
<1>4. wire[s] \in Seq(Event_) /\ Own \in Sleds
  BY <1>0, ManagerAssumption DEF WireOK
<1> DEFINE w == Append(wire[s], Event(j, kind))
<1>5. /\ w \in Seq(Event_) /\ Len(wire[s]) + 1 \in DOMAIN w
      /\ w[Len(wire[s]) + 1] = Event(j, kind)
      /\ \A i \in DOMAIN wire[s] : i \in DOMAIN w /\ w[i] = wire[s][i]
  BY <1>3, <1>4
<1>6. wire'[s] = w /\ WireOK' /\ \A t \in Sleds : t # s => wire'[t] = wire[t]
  BY <1>0, <1>2, <1>5 DEF WireOK
<1> HIDE DEF w
<1>7. /\ work' \in [Sleds -> [Jobs -> Phase]] /\ work'[s][j] = phase
      /\ \A t \in Sleds, i \in Jobs : t # s \/ i # j => work'[t][i] = work[t][i]
  BY <1>0, <1>1, <1>2 DEF ChainOK
<1>8. ~(j >= next)
  BY <1>0, <1>1 DEF ChainOK, ReleasedBehindNext
<1>9. ASSUME NEW i \in Jobs, EndInFlight(i)
      PROVE  EndInFlight(i)'
  <2>1. PICK k \in DOMAIN wire[Own] :
          wire[Own][k].job = i /\ wire[Own][k].kind \in {"stop", "error"}
    BY <1>9 DEF EndInFlight
  <2>2. k \in DOMAIN wire'[Own] /\ wire'[Own][k] = wire[Own][k]
    BY <1>4, <1>5, <1>6, Zenon
  <2> QED
    BY <2>1, <2>2, Zenon DEF EndInFlight
<1>10. ASSUME NEW i \in attach
       PROVE  work'[Own][i] \in {"released", "running"} \/ EndInFlight(i)'
  <2>0. i \in Jobs /\ (work[Own][i] \in {"released", "running"} \/ EndInFlight(i))
    BY <1>0 DEF ChainOK, ReleasedBehindNext
  <2>1. CASE EndInFlight(i)
    BY <1>9, <2>0, <2>1
  <2>2. CASE work[Own][i] \in {"released", "running"} /\ (Own # s \/ i # j)
    BY <1>4, <1>7, <2>0, <2>2
  <2>3. CASE work[Own][i] \in {"released", "running"} /\ Own = s /\ i = j
    <3>1. phase = "running" \/ kind \in {"stop", "error"}
      BY <1>1, <2>3
    <3>2. CASE phase = "running"
      BY <1>7, <2>3, <3>2
    <3>3. CASE kind \in {"stop", "error"}
      BY <1>3, <1>5, <1>6, <2>3, <3>3 DEF EndInFlight
    <3> QED
      BY <3>1, <3>2, <3>3
  <2> QED
    BY <2>0, <2>1, <2>2, <2>3
<1>11. \A i \in Jobs, t \in Sleds : i >= next => work'[t][i] = "idle"
  BY <1>0, <1>7, <1>8 DEF ChainOK, ReleasedBehindNext
<1>12. ChainOK'
  BY <1>0, <1>2, <1>7, <1>10, <1>11 DEF ChainOK, ReleasedBehindNext
<1>13. Scalars' /\ QueueOK' /\ HistOK' /\ RequestsOK'
  BY <1>0, <1>2 DEF Scalars, QueueOK, HistOK, RequestsOK
<1> QED
  BY <1>6, <1>12, <1>13, BasePartsNext

\* A request joins the others.
LEMMA SendFacts ==
    ASSUME RequestsOK, NEW r \in Request_, r.kind \in {"start", "stop"} => r.job \in Jobs,
           requests' = Append(requests, r)
    PROVE  RequestsOK'
<1>1. requests \in Seq(Request_)
  BY DEF RequestsOK
<1>2. /\ Append(requests, r) \in Seq(Request_)
      /\ \A i \in DOMAIN Append(requests, r) :
           IF i \in DOMAIN requests THEN Append(requests, r)[i] = requests[i]
           ELSE Append(requests, r)[i] = r
  BY <1>1
<1> QED
  BY <1>2 DEF RequestsOK

\* Calls and links change nothing else of what Base is about.
LEMMA CallStepBase == Base /\ CallStep => Base'
<1> SUFFICES ASSUME Base, CallStep PROVE Base'
  OBVIOUS
<1>0. Scalars /\ QueueOK /\ HistOK /\ WireOK /\ RequestsOK /\ ChainOK
  BY BaseParts
<1>1. /\ OthersUnchanged
      /\ \/ UNCHANGED <<requests, sent>>
         \/ \E r \in Request_ :
              /\ r.kind \in {"start", "stop"} => r.job \in Jobs
              /\ Send(r)
  <2> SUFFICES ASSUME NEW c \in Calls, NEW j \in Jobs \cup {0}, NEW wait \in Waits \cup {""},
                 \/ SessionStart(c) \/ SessionStop(c)
                 \/ j \in Jobs /\ (JobStart(c, j, wait) \/ JobStop(c, j, wait))
                 \/ WaitForJobStatus(c, j) \/ StopRequested(c) \/ Look(c) \/ Timeout(c)
               PROVE  /\ OthersUnchanged
                      /\ \/ UNCHANGED <<requests, sent>>
                         \/ \E r \in Request_ :
                              /\ r.kind \in {"start", "stop"} => r.job \in Jobs
                              /\ Send(r)
    BY Zenon DEF CallStep
  <2>1. CASE SessionStart(c)
    <3>1. Request("start_session", 0, {}) \in Request_
      BY Zenon DEF Request, Request_, Kinds
    <3>2. Request("start_session", 0, {}).kind = "start_session"
      BY Zenon DEF Request
    <3> QED
      BY <2>1, <3>1, <3>2, Zenon DEF SessionStart
  <2>2. CASE SessionStop(c)
    <3>1. Request("stop_session", 0, {}) \in Request_
      BY Zenon DEF Request, Request_, Kinds
    <3>2. Request("stop_session", 0, {}).kind = "stop_session"
      BY Zenon DEF Request
    <3> QED
      BY <2>2, <3>1, <3>2, Zenon DEF SessionStop
  <2>3. CASE j \in Jobs /\ JobStart(c, j, wait)
    <3>1. ReachableTargets(j) \in SUBSET Sleds
      BY <2>3, ManagerAssumption, Zenon DEF ReachableTargets
    <3>2. /\ Request("start", j, ReachableTargets(j)) \in Request_
          /\ Request("start", j, ReachableTargets(j)).job \in Jobs
      BY <2>3, <3>1, Zenon DEF Request, Request_, Kinds
    <3> QED
      BY <2>3, <3>2, Zenon DEF JobStart
  <2>4. CASE j \in Jobs /\ JobStop(c, j, wait)
    <3>1. Request("stop", j, {}) \in Request_ /\ Request("stop", j, {}).job \in Jobs
      BY <2>4, Zenon DEF Request, Request_, Kinds
    <3> QED
      BY <2>4, <3>1, Zenon DEF JobStop
  <2>5. CASE WaitForJobStatus(c, j) \/ StopRequested(c) \/ Look(c) \/ Timeout(c)
    BY <2>5, Zenon DEF WaitForJobStatus, StopRequested, Look, Timeout
  <2> QED
    BY <2>1, <2>2, <2>3, <2>4, <2>5, Zenon
<1>2. RequestsOK' /\ sent' \in Nat
  <2>1. CASE UNCHANGED <<requests, sent>>
    BY <1>0, <2>1 DEF RequestsOK, Scalars
  <2>2. ASSUME NEW r \in Request_, r.kind \in {"start", "stop"} => r.job \in Jobs, Send(r)
        PROVE  RequestsOK' /\ sent' \in Nat
    BY <1>0, <2>2, SendFacts DEF Send, Scalars
  <2> QED
    BY <1>1, <2>1, <2>2
<1>3. Scalars' /\ QueueOK' /\ HistOK'
  BY <1>0, <1>1, <1>2 DEF OthersUnchanged, Scalars, QueueOK, HistOK
<1>4. ChainOK' /\ WireOK'
  BY <1>0, <1>1, ChainSame DEF OthersUnchanged
<1> QED
  BY <1>2, <1>3, <1>4, BasePartsNext

\* A peer that comes or goes changes no table.
LEMMA RelinkBase ==
    ASSUME Base, NEW s \in Others, Relink(s)
    PROVE  Base'
<1>0. Scalars /\ QueueOK /\ HistOK /\ WireOK /\ RequestsOK /\ ChainOK
  BY BaseParts
<1>1. Scalars' /\ QueueOK' /\ HistOK' /\ RequestsOK'
  BY <1>0 DEF Relink, Scalars, QueueOK, HistOK, RequestsOK
<1>2. ChainOK' /\ WireOK'
  BY <1>0, ChainSame DEF Relink
<1> QED
  BY <1>1, <1>2, BasePartsNext

\* Every step keeps the tables, the chain and the attachment points.
LEMMA BaseStep == Base /\ [Next]_vars => Base'
<1> SUFFICES ASSUME Base, [Next]_vars PROVE Base'
  OBVIOUS
<1>1. CASE UNCHANGED vars
  <2>0. Scalars /\ QueueOK /\ HistOK /\ WireOK /\ RequestsOK /\ ChainOK
    BY BaseParts
  <2>1. Scalars' /\ QueueOK' /\ HistOK' /\ RequestsOK'
    BY <1>1, <2>0 DEF vars, Scalars, QueueOK, HistOK, RequestsOK
  <2>2. ChainOK' /\ WireOK'
    BY <1>1, <2>0, ChainSame DEF vars
  <2> QED
    BY <2>1, <2>2, BasePartsNext
<1>2. CASE Next
  BY <1>2, ApplyRequestBase, SupersedeBase, SwapUniverseBase, ApplyEventBase,
     WorkStepBase, RelinkBase, CallStepBase, Zenon DEF Next
<1> QED
  BY <1>1, <1>2

\* A job whose end is on the way to the state machine has an event in flight.
LEMMA BaseImpliesInv == Base => ManagerInv
<1> SUFFICES ASSUME Base PROVE ManagerInv
  OBVIOUS
<1>1. ManagerTypeOK /\ TablesAgree
  BY DEF Base, ManagerShape
<1>2. AttachmentsInFlight
  <2>1. \A j : EndInFlight(j) => InFlight(Own, j)
    BY DEF EndInFlight, InFlight
  <2> QED
    BY <2>1 DEF Base, ReleasedBehindNext, AttachmentsInFlight
<1> QED
  BY <1>1, <1>2 DEF ManagerInv

\* ManagerInv holds whatever the sizes of the history and the queue, and
\* whether or not jobs are sent again: through every eviction the statuses,
\* the running set and the ranks agree, the ranks order the jobs that have
\* them, and only jobs in flight here can be attached to.
THEOREM ManagerInvariant == Spec => []ManagerInv
<1>1. Spec => []Base
  BY InitBase, BaseStep, PTL DEF Spec
<1> QED
  BY <1>1, BaseImpliesInv, PTL

------------------------------------------------------------------------------
(* A job that runs keeps its status, when no job is sent again. *)

Has(w, j) == \E i \in DOMAIN w : w[i].job = j
OneStart(w, j) ==
    \E i \in DOMAIN w : w[i].kind = "start" /\ \A k \in DOMAIN w : w[k].job = j <=> k = i

\* What StartedInOrder says of a job on one sled...
SiteOK(s, j) ==
    /\ work[s][j] \in {"asked", "released"} =>
         ~InFlight(s, j) /\ hist.status[j][s] \in {"none", "queued"}
    /\ work[s][j] = "running" =>
         \/ ~InFlight(s, j) /\ hist.status[j][s] = "started"
         \/ OneStartInFlight(s, j) /\ hist.status[j][s] \in {"none", "queued"}

\* ... of a job in the queue ...
QueuedOK(j) ==
    \A s \in Sleds : work[s][j] = "idle" /\ ~InFlight(s, j)
                     /\ hist.status[j][s] \in {"none", "queued"}

\* ... and of a job.
JobOK(j) ==
    /\ StartPending(j) => j \in begun
    /\ j \notin begun \/ StartPending(j) => Untouched(j) /\ j \notin QueuedIds
    /\ j \in QueuedIds => QueuedOK(j)
    /\ \A s \in Sleds : SiteOK(s, j)

RequestedOnce ==
    \A i, k \in DOMAIN requests :
        requests[i].kind = "start" /\ requests[k].kind = "start"
        /\ requests[i].job = requests[k].job => i = k

\* StartedInOrder, job by job.
LEMMA StartedInOrderParts ==
    StartedInOrder <=> RequestedOnce /\ \A j \in Jobs : JobOK(j)
BY Zenon DEF StartedInOrder, RequestedOnce, JobOK, SiteOK, QueuedOK

\* Events in flight, as their sequence has them.
LEMMA InFlightHas ==
    ASSUME NEW s, NEW j
    PROVE  (InFlight(s, j) <=> Has(wire[s], j)) /\ (OneStartInFlight(s, j) <=> OneStart(wire[s], j))
BY Zenon DEF InFlight, Has, OneStartInFlight, OneStart

\* The events of a job when the head of the wire is taken.
LEMMA HasTail ==
    ASSUME NEW w \in Seq(Event_), w # <<>>, NEW j
    PROVE  /\ Head(w).job # j => (Has(Tail(w), j) <=> Has(w, j))
           /\ Head(w).job # j /\ OneStart(w, j) => OneStart(Tail(w), j)
           /\ Head(w).job = j => Has(w, j)
           /\ Head(w).job = j /\ OneStart(w, j) => Head(w).kind = "start" /\ ~Has(Tail(w), j)
<1>1. /\ Head(w) = w[1] /\ 1 \in DOMAIN w
      /\ \A i \in DOMAIN Tail(w) : i + 1 \in DOMAIN w /\ Tail(w)[i] = w[i + 1]
      /\ \A i \in DOMAIN w : i # 1 => i - 1 \in DOMAIN Tail(w) /\ Tail(w)[i - 1] = w[i]
  BY TailFacts
<1>2. DOMAIN w \subseteq Nat /\ DOMAIN Tail(w) \subseteq Nat \ {0}
  OBVIOUS
<1> DEFINE u == Tail(w)
           e == Head(w)
<1> HIDE DEF u, e
<1>3. e.job # j => (Has(u, j) <=> Has(w, j))
  BY <1>1, <1>2, Zenon DEF Has, u, e
<1>4. ASSUME e.job # j, OneStart(w, j)
      PROVE  OneStart(u, j)
  <2>1. PICK i \in DOMAIN w : /\ w[i].kind = "start"
                              /\ \A k \in DOMAIN w : w[k].job = j <=> k = i
    BY <1>4, Zenon DEF OneStart
  <2>2. i # 1
    BY <1>1, <1>4, <2>1 DEF e
  <2>3. i - 1 \in DOMAIN u /\ u[i - 1] = w[i]
    BY <1>1, <2>2 DEF u
  <2>4. ASSUME NEW k \in DOMAIN u PROVE u[k].job = j <=> k = i - 1
    <3>1. k + 1 \in DOMAIN w /\ u[k] = w[k + 1] /\ k \in Nat /\ i \in Nat
      BY <1>1, <1>2 DEF u
    <3>2. w[k + 1].job = j <=> k + 1 = i
      BY <2>1, <3>1
    <3> QED
      BY <3>1, <3>2
  <2> QED
    BY <2>1, <2>3, <2>4, Zenon DEF OneStart
<1>5. e.job = j => Has(w, j)
  BY <1>1 DEF Has, e
<1>6. ASSUME e.job = j, OneStart(w, j)
      PROVE  e.kind = "start" /\ ~Has(u, j)
  <2>1. PICK i \in DOMAIN w : /\ w[i].kind = "start"
                              /\ \A k \in DOMAIN w : w[k].job = j <=> k = i
    BY <1>6, Zenon DEF OneStart
  <2>2. i = 1
    BY <1>1, <1>6, <2>1 DEF e
  <2>3. ASSUME NEW k \in DOMAIN u PROVE u[k].job # j
    <3>1. k + 1 \in DOMAIN w /\ u[k] = w[k + 1] /\ k \in Nat \ {0}
      BY <1>1, <1>2 DEF u
    <3>2. k + 1 # 1
      BY <3>1
    <3> QED
      BY <2>1, <2>2, <3>1, <3>2
  <2> QED
    BY <1>1, <2>1, <2>2, <2>3 DEF Has, e
<1> QED
  BY <1>3, <1>4, <1>5, <1>6 DEF u, e

\* The events of a job when events of other jobs are added.
LEMMA HasMore ==
    ASSUME NEW w \in Seq(Event_), NEW v \in Seq(Event_), Len(w) <= Len(v), NEW j,
           \A i \in 1 .. Len(w) : v[i] = w[i],
           \A i \in Len(w) + 1 .. Len(v) : v[i].job # j
    PROVE  /\ Has(v, j) <=> Has(w, j)
           /\ OneStart(w, j) => OneStart(v, j)
<1>1. /\ DOMAIN w = 1 .. Len(w) /\ DOMAIN v = 1 .. Len(v) /\ Len(w) \in Nat /\ Len(v) \in Nat
  OBVIOUS
<1>2. DOMAIN w \subseteq DOMAIN v /\ \A i \in DOMAIN w : v[i] = w[i]
  BY <1>1
<1>3. \A i \in DOMAIN v : i \in DOMAIN w \/ v[i].job # j
  <2> TAKE i \in DOMAIN v
  <2>1. i \in 1 .. Len(w) \/ i \in Len(w) + 1 .. Len(v)
    BY <1>1
  <2> QED
    BY <1>1, <2>1
<1>4. Has(v, j) <=> Has(w, j)
  BY <1>2, <1>3 DEF Has
<1>5. ASSUME OneStart(w, j) PROVE OneStart(v, j)
  <2>1. PICK i \in DOMAIN w : /\ w[i].kind = "start"
                              /\ \A k \in DOMAIN w : w[k].job = j <=> k = i
    BY <1>5, Zenon DEF OneStart
  <2>2. \A k \in DOMAIN v : v[k].job = j <=> k = i
    BY <1>2, <1>3, <2>1
  <2> QED
    BY <1>2, <2>1, <2>2, Zenon DEF OneStart
<1> QED
  BY <1>4, <1>5

\* A start of a job that has no event in flight is the only one.
LEMMA HasFirst ==
    ASSUME NEW w \in Seq(Event_), NEW j \in Jobs, ~Has(w, j)
    PROVE  OneStart(Append(w, Event(j, "start")), j)
<1> DEFINE e == Event(j, "start")
           v == Append(w, e)
           n == Len(w) + 1
<1>1. e.job = j /\ e.kind = "start" /\ e \in Event_
  BY DEF Event, Event_, EventKind
<1> HIDE DEF e
<1>2. /\ n \in DOMAIN v /\ v[n] = e
      /\ \A i \in DOMAIN v : i = n \/ (i \in DOMAIN w /\ v[i] = w[i] /\ i # n)
  BY <1>1
<1> HIDE DEF v, n
<1>3. \A k \in DOMAIN v : v[k].job = j <=> k = n
  BY <1>1, <1>2 DEF Has
<1>4. OneStart(v, j)
  BY <1>1, <1>2, <1>3 DEF OneStart
<1> QED
  BY <1>4 DEF v, e

\* What is known of a job stays in order while, on every sled, its work and
\* its events stay, its statuses stay or are forgotten, and it is neither
\* queued nor sent.
LEMMA JobFrame ==
    ASSUME NEW j \in Jobs, JobOK(j),
           \A s \in Sleds :
             /\ work'[s][j] = work[s][j]
             /\ Has(wire'[s], j) <=> Has(wire[s], j)
             /\ OneStart(wire[s], j) => OneStart(wire'[s], j)
             /\ hist'.status[j][s] \in {"none", hist.status[j][s]}
             /\ hist.status[j][s] = "started" => hist'.status[j][s] = "started",
           j \in QueuedIds' => j \in QueuedIds,
           StartPending(j)' => StartPending(j),
           j \in begun => j \in begun'
    PROVE  JobOK(j)'
<1>1. \A s \in Sleds : /\ InFlight(s, j)' <=> InFlight(s, j)
                       /\ OneStartInFlight(s, j) => OneStartInFlight(s, j)'
  BY Zenon DEF InFlight, Has, OneStartInFlight, OneStart
<1>2. \A s \in Sleds : SiteOK(s, j) => SiteOK(s, j)'
  BY <1>1 DEF SiteOK
<1>3. Untouched(j) => Untouched(j)'
  BY <1>1 DEF Untouched
<1>4. QueuedOK(j) => QueuedOK(j)'
  BY <1>1 DEF QueuedOK
<1> QED
  BY <1>2, <1>3, <1>4, Zenon DEF JobOK

\* A request is taken: no job is asked for twice, and the one it starts is
\* asked for no more.
LEMMA TakenOnce ==
    ASSUME RequestsOK, RequestedOnce, requests # <<>>, requests' = Tail(requests)
    PROVE  /\ RequestedOnce'
           /\ \A j : StartPending(j)' => StartPending(j)
           /\ \A j : Head(requests).kind = "start" /\ Head(requests).job = j =>
                      StartPending(j) /\ ~StartPending(j)'
<1>1. requests \in Seq(Request_)
  BY DEF RequestsOK
<1>2. /\ Head(requests) = requests[1] /\ 1 \in DOMAIN requests
      /\ \A i \in DOMAIN Tail(requests) :
           i + 1 \in DOMAIN requests /\ Tail(requests)[i] = requests[i + 1]
  BY <1>1, TailFacts
<1>3. DOMAIN Tail(requests) \subseteq Nat \ {0}
  BY <1>1
<1> DEFINE u == Tail(requests)
           r == Head(requests)
<1> HIDE DEF u, r
<1>4. RequestedOnce'
  <2>1. ASSUME NEW i \in DOMAIN u, NEW k \in DOMAIN u,
               u[i].kind = "start", u[k].kind = "start", u[i].job = u[k].job
        PROVE  i = k
    <3>1. i + 1 = k + 1
      BY <1>2, <2>1 DEF RequestedOnce, u
    <3> QED
      BY <1>3, <3>1 DEF u
  <2> QED
    BY <2>1 DEF RequestedOnce, u
<1>5. \A j : StartPending(j)' => StartPending(j)
  BY <1>2 DEF StartPending
<1>6. ASSUME NEW j, r.kind = "start", r.job = j
      PROVE  StartPending(j) /\ ~StartPending(j)'
  <2>1. StartPending(j)
    BY <1>2, <1>6 DEF StartPending, r
  <2>2. ASSUME NEW i \in DOMAIN u, u[i].kind = "start", u[i].job = j
        PROVE  FALSE
    <3>1. i + 1 \in DOMAIN requests /\ u[i] = requests[i + 1] /\ i \in Nat \ {0}
      BY <1>2, <1>3 DEF u
    <3>2. i + 1 = 1
      BY <1>2, <1>6, <2>2, <3>1 DEF RequestedOnce, r
    <3> QED
      BY <3>1, <3>2
  <2>3. ~StartPending(j)'
    BY <2>2 DEF StartPending, u
  <2> QED
    BY <2>1, <2>3
<1> QED
  BY <1>4, <1>5, <1>6 DEF r

\* The events of jobs that a batch of skips does not name.
LEMMA SkipsKeep ==
    ASSUME WireOK, NEW js \in SUBSET Jobs, wire' = SkipsOf(js), NEW j, j \notin js,
           NEW s \in Sleds
    PROVE  /\ Has(wire'[s], j) <=> Has(wire[s], j)
           /\ OneStart(wire[s], j) => OneStart(wire'[s], j)
<1>1. wire \in [Sleds -> Seq([job : Jobs, kind : EventKind])] /\ Own \in Sleds
  BY ManagerAssumption, Zenon DEF WireOK, Event_
<1>2. /\ wire' \in [Sleds -> Seq([job : Jobs, kind : EventKind])]
      /\ \A t \in Sleds : t # Own => wire'[t] = wire[t]
      /\ Len(wire[Own]) <= Len(wire'[Own])
      /\ \A i \in 1 .. Len(wire[Own]) : wire'[Own][i] = wire[Own][i]
      /\ \A i \in Len(wire[Own]) + 1 .. Len(wire'[Own]) : wire'[Own][i].job \in js
  BY <1>1, SkipsOfFacts, Zenon
<1>3. CASE s # Own
  BY <1>2, <1>3
<1>4. CASE s = Own
  <2>1. wire[Own] \in Seq(Event_) /\ wire'[Own] \in Seq(Event_)
    BY <1>1, <1>2, Zenon DEF Event_
  <2> DEFINE w == wire[Own]
             v == wire'[Own]
  <2>2. /\ w \in Seq(Event_) /\ v \in Seq(Event_) /\ Len(w) <= Len(v)
        /\ \A i \in 1 .. Len(w) : v[i] = w[i]
        /\ \A i \in Len(w) + 1 .. Len(v) : v[i].job # j
    BY <1>2, <2>1
  <2> HIDE DEF w, v
  <2>3. (Has(v, j) <=> Has(w, j)) /\ (OneStart(w, j) => OneStart(v, j))
    BY <2>2, HasMore
  <2> QED
    BY <1>4, <2>3 DEF w, v
<1> QED
  BY <1>3, <1>4

\* The queue is dropped and its jobs are announced as skipped.
LEMMA SkippedJobs ==
    ASSUME Base, NEW j \in Jobs, JobOK(j),
           \/ /\ wire' = SkipsOf({e[1] : e \in {q \in queue : Own \in q[2]}})
              /\ queue' = {}
           \/ UNCHANGED <<wire, queue>>,
           UNCHANGED <<hist, work, begun>>,
           StartPending(j)' => StartPending(j)
    PROVE  JobOK(j)'
<1> DEFINE js == {e[1] : e \in {q \in queue : Own \in q[2]}}
<1>0. QueueOK /\ HistOK /\ WireOK
  BY BaseParts
<1>1. js \in SUBSET Jobs /\ js \subseteq QueuedIds
  BY <1>0 DEF QueueOK, QueuedIds
<1>2. j \in QueuedIds' => j \in QueuedIds
  BY DEF QueuedIds
<1> HIDE DEF js
<1>3. CASE j \notin js \/ UNCHANGED <<wire, queue>>
  <2>1. \A s \in Sleds : /\ Has(wire'[s], j) <=> Has(wire[s], j)
                         /\ OneStart(wire[s], j) => OneStart(wire'[s], j)
    BY <1>0, <1>1, <1>3, SkipsKeep, Zenon DEF js
  <2> QED
    BY <1>2, <2>1, JobFrame, Zenon
<1>4. CASE j \in js /\ queue' = {}
  <2>1. j \in QueuedIds /\ QueuedOK(j) /\ j \in begun /\ ~StartPending(j)
    BY <1>1, <1>4 DEF JobOK
  <2>2. j \notin QueuedIds'
    BY <1>4 DEF QueuedIds
  <2>3. \A s \in Sleds : SiteOK(s, j)'
    BY <2>1 DEF QueuedOK, SiteOK
  <2> QED
    BY <2>1, <2>2, <2>3, Zenon DEF JobOK
<1> QED
  BY <1>3, <1>4 DEF js

\* A job is enqueued and the chain moves on.
LEMMA StartedJobs ==
    ASSUME Base, RequestedOnce, NEW j \in Jobs, NEW sleds \in SUBSET Sleds,
           \A i \in Jobs : JobOK(i), HandleJobStart(j, sleds), UNCHANGED begun,
           StartPending(j), ~StartPending(j)',
           \A i \in Jobs : StartPending(i)' => StartPending(i)
    PROVE  \A i \in Jobs : JobOK(i)'
<1>0. QueueOK /\ HistOK /\ WireOK /\ Own \in Sleds
  BY BaseParts, ManagerAssumption
<1>1. j \in begun /\ Untouched(j) /\ j \notin QueuedIds
  BY DEF JobOK
<1>2. ASSUME UNCHANGED <<work, hist, queue>>,
             wire' = SkipsOf({j}) \/ UNCHANGED wire
      PROVE  \A i \in Jobs : JobOK(i)'
  <2> TAKE i \in Jobs
  <2>1. i \in QueuedIds' => i \in QueuedIds
    BY <1>2, Zenon DEF QueuedIds
  <2>2. CASE i # j
    <3>1. \A s \in Sleds : /\ Has(wire'[s], i) <=> Has(wire[s], i)
                           /\ OneStart(wire[s], i) => OneStart(wire'[s], i)
      BY <1>0, <1>2, <2>2, SkipsKeep
    <3> QED
      BY <1>2, <2>1, <3>1, JobFrame, Zenon
  <2>3. CASE i = j
    <3>1. \A s \in Sleds : SiteOK(s, j)'
      BY <1>1, <1>2 DEF Untouched, SiteOK
    <3>2. j \notin QueuedIds'
      BY <1>1, <2>1, <2>3
    <3> QED
      BY <1>1, <2>3, <3>1, <3>2 DEF JobOK
  <2> QED
    BY <2>2, <2>3
<1>3. ASSUME EnqueueJob(j, sleds), UNCHANGED wire
      PROVE  \A i \in Jobs : JobOK(i)'
  <2> DEFINE q == {e \in queue : e[1] # j} \cup {<<j, sleds>>}
             ids == {e[1] : e \in q}
             h == IF Own \in sleds
                  THEN SetJobStatus(hist, j, Own, "queued", NoRank, ids) ELSE hist
  <2>1. CASE UNCHANGED <<next, queue, hist, attach, work>>
    BY <1>2, <1>3, <2>1
  <2>2. CASE hist' = h /\ ReleaseReadyJobs(q, h)
    <3>1. q \in SUBSET (Jobs \X SUBSET Sleds) /\ ids \subseteq QueuedIds \cup {j}
      BY <1>0 DEF QueueOK, QueuedIds
    <3>2. /\ \A i \in Jobs, s \in Sleds : i # j =>
               /\ h.status[i][s] \in {"none", hist.status[i][s]}
               /\ hist.status[i][s] = "started" => h.status[i][s] = "started"
          /\ \A s \in Sleds : h.status[j][s] \in {"none", "queued"}
      <4>1. CASE Own \notin sleds
        BY <1>1, <4>1, Zenon DEF Untouched
      <4>2. CASE Own \in sleds
        <5> DEFINE g == SetJobStatus(hist, j, Own, "queued", NoRank, ids)
                   now(i, t) == IF i = j /\ t = Own THEN "queued" ELSE hist.status[i][t]
        <5>1. "queued" \in Status \ {"none"} /\ NoRank \in Nat
          BY SMTT(30) DEF Status, NoRank
        <5>2. /\ \A i \in Jobs, t \in Sleds : g.status[i][t] \in {"none", now(i, t)}
              /\ \A i \in Jobs : i \in ids \/ (\E t \in Sleds : now(i, t) = "started")
                   => \A t \in Sleds : g.status[i][t] = now(i, t)
          <6>1. PICK x, I, f : x = hist /\ I = ids /\ f = g
            BY Zenon
          <6>2. x \in Histories /\ Consistent(x) /\ Own \in Sleds
            BY <1>0, <6>1 DEF HistOK
          <6>3. f = SetJobStatus(x, j, Own, "queued", NoRank, I)
            BY <6>1, Zenon
          <6>4. Moved(x, f, j, Own, "queued", I)
            BY <5>1, <6>2, <6>3, StatusSet, Zenon
          <6> QED
            BY <6>1, <6>4, Zenon DEF Moved
        <5>3. h = g
          BY <4>2
        <5> HIDE DEF g, h, ids
        <5> QED
          BY <1>1, <5>2, <5>3, Zenon DEF Untouched
      <4> QED
        BY <4>1, <4>2, Zenon
    <3>20. j \in ids
      <4>1. <<j, sleds>> \in q /\ <<j, sleds>>[1] = j
        OBVIOUS
      <4> QED
        BY <4>1, Zenon
    <3> HIDE DEF h, q
    <3>3. /\ queue' = {e \in q : e[1] \notin Released(q)}
          /\ \A s \in Sleds, i \in Jobs :
               IF i \in Released(q) THEN work'[s][i] \in {"idle", "asked", "released"}
               ELSE work'[s][i] = work[s][i]
      BY <2>2, <3>1, ReleaseFacts, Zenon
    <3>4. QueuedIds' \subseteq ids /\ \A i \in QueuedIds' : i \notin Released(q)
      BY <3>3, Zenon DEF QueuedIds, ids
    <3>5. Released(q) \subseteq ids
      <4>1. Jobs \subseteq Nat /\ next \in Nat
        BY HistoryAssumption, BaseParts DEF ChainOK
      <4>2. ASSUME NEW i \in Released(q) PROVE i \in ids
        <5>1. i \in Jobs /\ i >= next /\ next .. i \subseteq ids
          BY Zenon DEF Released, ids
        <5>2. i \in next .. i
          BY <4>1, <5>1
        <5> QED
          BY <5>1, <5>2, Zenon
      <4> QED
        BY <4>2, Zenon
    <3> HIDE DEF ids
    <3>6. ASSUME NEW i \in Jobs, i \in ids
          PROVE  QueuedOK(i) /\ i \in begun /\ ~StartPending(i)'
      BY <1>1, <3>1, <3>6 DEF JobOK, QueuedOK, Untouched
    <3>7. ASSUME NEW i \in Jobs, i \in ids
          PROVE  JobOK(i)'
      <4>1. \A s \in Sleds : /\ work[s][i] = "idle" /\ ~InFlight(s, i)
                             /\ hist'.status[i][s] \in {"none", "queued"}
        <5>1. \A s \in Sleds : hist.status[i][s] \in {"none", "queued"}
          BY <3>6, <3>7 DEF QueuedOK
        <5> QED
          BY <2>2, <3>2, <3>6, <3>7, <5>1, Zenon DEF QueuedOK
      <4>2. \A s \in Sleds : ~InFlight(s, i)'
        BY <1>3, <4>1, Zenon DEF InFlight
      <4>3. \A s \in Sleds : work'[s][i] \in {"idle", "asked", "released"}
        BY <3>3, <4>1, Zenon
      <4>4. \A s \in Sleds : SiteOK(s, i)'
        BY <4>1, <4>2, <4>3, Zenon DEF SiteOK
      <4>5. i \in QueuedIds' => QueuedOK(i)'
        BY <3>3, <3>4, <4>1, <4>2, Zenon DEF QueuedOK
      <4> QED
        BY <1>1, <3>6, <3>7, <4>4, <4>5 DEF JobOK
    <3>8. ASSUME NEW i \in Jobs, i \notin ids
          PROVE  JobOK(i)'
      <4>1. i # j
        BY <3>8, <3>20
      <4>2. \A s \in Sleds : work'[s][i] = work[s][i]
        BY <3>3, <3>5, <3>8, Zenon
      <4>3. i \notin QueuedIds'
        BY <3>4, <3>8
      <4> QED
        BY <1>3, <2>2, <3>2, <4>1, <4>2, <4>3, JobFrame, Zenon
    <3> QED
      BY <3>7, <3>8
  <2> QED
    BY <1>3, <2>1, <2>2, Zenon DEF EnqueueJob
<1> QED
  BY <1>2, <1>3, Zenon DEF HandleJobStart

\* A job in the queue is cancelled.
LEMMA StoppedJobs ==
    ASSUME Base, NEW j \in Jobs, \A i \in Jobs : JobOK(i), HandleJobStop(j),
           UNCHANGED begun, \A i \in Jobs : StartPending(i)' => StartPending(i)
    PROVE  \A i \in Jobs : JobOK(i)'
<1> DEFINE q == {e \in queue : e[1] # j}
           ids == {e[1] : e \in q}
           g == SetJobStatus(hist, j, Own, "cancelled", NoRank, ids)
<1>0. QueueOK /\ HistOK /\ Own \in Sleds
  BY BaseParts, ManagerAssumption
<1>1. UNCHANGED <<session, next, attach, work, wire>>
  BY DEF HandleJobStop
<1>2. ASSUME QueuedIds' \subseteq QueuedIds, hist' = hist
      PROVE  \A i \in Jobs : JobOK(i)'
  BY <1>1, <1>2, JobFrame, Zenon
<1>3. \/ UNCHANGED <<queue, hist>>
      \/ queue' = q /\ hist' = hist
      \/ queue' = q /\ hist' = g /\ j \in QueuedIds
  <2>1. CASE CancelJob(j) /\ (HistoryContains(hist, j) \/ j \in QueuedIds)
    BY <2>1, Zenon DEF CancelJob
  <2> QED
    BY <2>1, Zenon DEF HandleJobStop
<1>4. CASE UNCHANGED <<queue, hist>>
  BY <1>2, <1>4 DEF QueuedIds
<1>5. CASE queue' = q /\ hist' = hist
  BY <1>2, <1>5 DEF QueuedIds
<1>6. CASE queue' = q /\ hist' = g /\ j \in QueuedIds
  <2> DEFINE now(i, t) == IF i = j /\ t = Own THEN "cancelled" ELSE hist.status[i][t]
  <2>1. "cancelled" \in Status \ {"none"} /\ NoRank \in Nat
    BY SMTT(30) DEF Status, Terminal, NoRank
  <2>2. /\ \A i \in Jobs, t \in Sleds : g.status[i][t] \in {"none", now(i, t)}
        /\ \A i \in Jobs : i \in ids \/ (\E t \in Sleds : now(i, t) = "started")
             => \A t \in Sleds : g.status[i][t] = now(i, t)
    <3>1. PICK x, I, f : x = hist /\ I = ids /\ f = g
      BY Zenon
    <3>2. x \in Histories /\ Consistent(x) /\ Own \in Sleds
      BY <1>0, <3>1 DEF HistOK
    <3>3. f = SetJobStatus(x, j, Own, "cancelled", NoRank, I)
      BY <3>1, Zenon
    <3>4. Moved(x, f, j, Own, "cancelled", I)
      BY <2>1, <3>2, <3>3, StatusSet, Zenon
    <3> QED
      BY <3>1, <3>4, Zenon DEF Moved
  <2>3. QueuedIds' \subseteq QueuedIds /\ j \notin QueuedIds'
    BY <1>6, Zenon DEF QueuedIds
  <2>4. hist' = g
    BY <1>6, Zenon
  <2> HIDE DEF g
  <2>5. ASSUME NEW i \in Jobs, i # j PROVE JobOK(i)'
    BY <1>1, <2>2, <2>3, <2>4, <2>5, JobFrame, Zenon
  <2>6. JobOK(j)'
    <3>1. QueuedOK(j) /\ j \in begun /\ ~StartPending(j)'
      BY <1>6 DEF JobOK
    <3>2. \A s \in Sleds : SiteOK(s, j)'
      BY <1>1, <3>1, Zenon DEF QueuedOK, SiteOK
    <3> QED
      BY <2>3, <3>1, <3>2 DEF JobOK
  <2> QED
    BY <2>5, <2>6
<1> QED
  BY <1>3, <1>4, <1>5, <1>6, Zenon

\* A request that is applied leaves every job in order.
LEMMA ApplyRequestInOrder ==
    ASSUME Base, RequestedOnce, \A i \in Jobs : JobOK(i), ApplyRequest
    PROVE  RequestedOnce' /\ \A i \in Jobs : JobOK(i)'
<1> DEFINE r == Head(requests)
<1>0. RequestsOK
  BY BaseParts
<1>1. /\ requests # <<>> /\ requests' = Tail(requests) /\ UNCHANGED begun
      /\ \/ HandleSessionStart \/ HandleSessionStop
         \/ r.kind = "start" /\ HandleJobStart(r.job, r.sleds)
         \/ r.kind = "stop" /\ HandleJobStop(r.job)
  BY Zenon DEF ApplyRequest
<1>2. /\ r \in Request_ /\ (r.kind \in {"start", "stop"} => r.job \in Jobs)
  BY <1>0, <1>1, RequestTail, Zenon
<1>3. r.sleds \in SUBSET Sleds
  BY <1>2 DEF Request_
<1>4. /\ RequestedOnce' /\ \A i : StartPending(i)' => StartPending(i)
      /\ \A i : r.kind = "start" /\ r.job = i => StartPending(i) /\ ~StartPending(i)'
  BY <1>0, <1>1, TakenOnce, Zenon
<1> HIDE DEF r
<1>5. CASE HandleSessionStart
  <2>1. UNCHANGED <<queue, hist, work, wire>>
    BY <1>5 DEF HandleSessionStart
  <2> QED
    BY <1>1, <1>4, <2>1, SkippedJobs, Zenon
<1>6. CASE HandleSessionStop
  <2>1. /\ UNCHANGED <<hist, work>>
        /\ \/ /\ wire' = SkipsOf({e[1] : e \in {q \in queue : Own \in q[2]}})
              /\ queue' = {}
           \/ UNCHANGED <<wire, queue>>
    BY <1>6, Zenon DEF HandleSessionStop
  <2> QED
    BY <1>1, <1>4, <2>1, SkippedJobs, Zenon
<1>7. CASE r.kind = "start" /\ HandleJobStart(r.job, r.sleds)
  <2>1. PICK j \in Jobs : j = r.job
    BY <1>2, <1>7
  <2>2. PICK sleds \in SUBSET Sleds : sleds = r.sleds
    BY <1>3
  <2>3. HandleJobStart(j, sleds) /\ StartPending(j) /\ ~StartPending(j)'
    BY <1>4, <1>7, <2>1, <2>2
  <2> QED
    BY <1>1, <1>4, <2>3, StartedJobs, Zenon
<1>8. CASE r.kind = "stop" /\ HandleJobStop(r.job)
  <2>1. PICK j \in Jobs : j = r.job
    BY <1>2, <1>8
  <2>2. HandleJobStop(j)
    BY <1>8, <2>1
  <2> QED
    BY <1>1, <1>4, <2>2, StoppedJobs
<1> QED
  BY <1>1, <1>5, <1>6, <1>7, <1>8

\* A start that is applied is the only event of its job in flight, and makes
\* its status "started".
LEMMA ApplyEventInOrder ==
    ASSUME Base, \A i \in Jobs : JobOK(i), NEW s \in Sleds, ApplyEvent(s)
    PROVE  \A i \in Jobs : JobOK(i)'
<1> DEFINE e == Head(wire[s])
<1>0. HistOK /\ WireOK
  BY BaseParts
<1>1. /\ wire[s] # <<>>
      /\ \E rank \in 1 .. Cardinality(hist.causal) + 1 :
           hist' = ApplyJobEvent(hist, e.job, s, e.kind, rank, QueuedIds)
      /\ wire' = [wire EXCEPT ![s] = Tail(wire[s])]
      /\ UNCHANGED <<queue, work, requests, begun>>
  BY Zenon DEF ApplyEvent
<1>2. wire[s] \in Seq(Event_)
  BY <1>0 DEF WireOK
<1>3. e \in Event_ /\ e.job \in Jobs /\ e.kind \in EventKind
  <2>1. e \in Event_
    BY <1>1, <1>2, TailFacts
  <2> QED
    BY <2>1 DEF Event_
<1>4. wire'[s] = Tail(wire[s]) /\ \A t \in Sleds : t # s => wire'[t] = wire[t]
  BY <1>0, <1>1 DEF WireOK
<1>5. \A i \in Jobs :
        /\ e.job # i => (Has(Tail(wire[s]), i) <=> Has(wire[s], i))
        /\ e.job # i /\ OneStart(wire[s], i) => OneStart(Tail(wire[s]), i)
        /\ e.job = i => Has(wire[s], i)
        /\ e.job = i /\ OneStart(wire[s], i) => e.kind = "start" /\ ~Has(Tail(wire[s]), i)
  BY <1>1, <1>2, HasTail, Zenon
<1> HIDE DEF e
<1>6. /\ \A i \in Jobs, t \in Sleds : i # e.job \/ t # s =>
           /\ hist'.status[i][t] \in {"none", hist.status[i][t]}
           /\ hist.status[i][t] = "started" => hist'.status[i][t] = "started"
      /\ e.kind = "start" /\ hist.status[e.job][s] \in {"none", "queued"}
           => hist'.status[e.job][s] = "started"
  <2>1. PICK rank \in 1 .. Cardinality(hist.causal) + 1 :
          hist' = ApplyJobEvent(hist, e.job, s, e.kind, rank, QueuedIds)
    BY <1>1
  <2>2. rank \in Nat
    OBVIOUS
  <2> QED
    <3>1. PICK x, y, I, j, k : x = hist /\ y = hist' /\ I = QueuedIds /\ j = e.job /\ k = e.kind
      BY Zenon
    <3>2. x \in Histories /\ Consistent(x) /\ j \in Jobs /\ k \in EventKind
      BY <1>0, <1>3, <3>1 DEF HistOK
    <3>3. y = ApplyJobEvent(x, j, s, k, rank, I)
      BY <2>1, <3>1, Zenon
    <3>4. Applied(x, y, j, s, k)
      BY <2>2, <3>2, <3>3, EventApplied, Zenon
    <3> QED
      BY <3>1, <3>4, Zenon DEF Applied
<1>7. \A i : (StartPending(i)' <=> StartPending(i)) /\ QueuedIds' = QueuedIds
  BY <1>1, Zenon DEF StartPending, QueuedIds
<1>8. ASSUME NEW i \in Jobs, i # e.job PROVE JobOK(i)'
  <2>1. \A t \in Sleds : /\ Has(wire'[t], i) <=> Has(wire[t], i)
                         /\ OneStart(wire[t], i) => OneStart(wire'[t], i)
    BY <1>4, <1>5, <1>8, Zenon
  <2> QED
    BY <1>1, <1>6, <1>7, <1>8, <2>1, JobFrame, Zenon
<1>9. ASSUME NEW i \in Jobs, i = e.job PROVE JobOK(i)'
  <2>1. Has(wire[s], i) /\ InFlight(s, i)
    BY <1>5, <1>9, InFlightHas
  <2>2. i \in begun /\ ~StartPending(i) /\ i \notin QueuedIds
    BY <2>1 DEF JobOK, Untouched, QueuedOK
  <2>3. ASSUME NEW t \in Sleds, t # s PROVE SiteOK(t, i)'
    <3>1. /\ InFlight(t, i)' <=> InFlight(t, i)
          /\ OneStartInFlight(t, i)' <=> OneStartInFlight(t, i)
      BY <1>4, <2>3 DEF InFlight, OneStartInFlight
    <3>2. SiteOK(t, i)
      BY DEF JobOK
    <3> QED
      BY <1>1, <1>6, <2>3, <3>1, <3>2, Zenon DEF SiteOK
  <2>4. SiteOK(s, i)'
    <3>1. SiteOK(s, i)
      BY DEF JobOK
    <3>2. CASE work[s][i] = "running"
      <4>1. OneStart(wire[s], i) /\ hist.status[i][s] \in {"none", "queued"}
        BY <2>1, <3>1, <3>2, InFlightHas, Zenon DEF SiteOK
      <4>2. e.kind = "start" /\ ~Has(Tail(wire[s]), i)
        BY <1>5, <1>9, <4>1, Zenon
      <4>3. hist'.status[i][s] = "started"
        BY <1>6, <1>9, <4>1, <4>2
      <4>4. ~InFlight(s, i)'
        BY <1>4, <4>2 DEF InFlight, Has
      <4> QED
        BY <1>1, <3>2, <4>3, <4>4, Zenon DEF SiteOK
    <3>3. CASE work[s][i] # "running"
      BY <1>1, <2>1, <3>1, <3>3, Zenon DEF SiteOK
    <3> QED
      BY <3>2, <3>3
  <2> QED
    BY <1>1, <1>7, <2>2, <2>3, <2>4 DEF JobOK
<1> QED
  BY <1>8, <1>9

\* A start is announced by a job of which nothing was in flight.
LEMMA WorkStepInOrder ==
    ASSUME Base, \A i \in Jobs : JobOK(i), WorkStep
    PROVE  \A i \in Jobs : JobOK(i)'
<1> SUFFICES ASSUME NEW s \in Sleds, NEW j \in Jobs,
                    \/ JobStarts(s, j) \/ JobFails(s, j)
                    \/ JobSkipped(s, j) \/ JobEnds(s, j)
             PROVE  \A i \in Jobs : JobOK(i)'
  BY Zenon DEF WorkStep
<1>0. WireOK /\ ChainOK
  BY BaseParts
<1>1. PICK phase, kind :
        /\ Announce(s, j, phase, kind) /\ work[s][j] # "idle" /\ kind \in EventKind
        /\ \/ /\ phase = "running" /\ kind = "start"
              /\ work[s][j] \in {"asked", "released"}
           \/ phase = "over"
  BY DEF JobStarts, JobFails, JobSkipped, JobEnds, EventKind
<1> DEFINE w == wire[s]
           e == Event(j, kind)
           v == Append(w, e)
<1>2. /\ work' = [work EXCEPT ![s][j] = phase]
      /\ wire' = [wire EXCEPT ![s] = v]
      /\ UNCHANGED <<queue, hist, requests, begun>>
  BY <1>1 DEF Announce
<1>3. e \in Event_ /\ e.job = j
  BY <1>1 DEF Event, Event_
<1>4. w \in Seq(Event_)
  BY <1>0 DEF WireOK
<1>5. wire'[s] = v /\ \A t \in Sleds : t # s => wire'[t] = wire[t]
  BY <1>0, <1>2 DEF WireOK
<1>6. /\ work'[s][j] = phase
      /\ \A t \in Sleds, i \in Jobs : t # s \/ i # j => work'[t][i] = work[t][i]
  BY <1>0, <1>2 DEF ChainOK
<1>7. \A i : (StartPending(i)' <=> StartPending(i)) /\ QueuedIds' = QueuedIds
  BY <1>2 DEF StartPending, QueuedIds
<1>8. ASSUME NEW i \in Jobs, i # j PROVE JobOK(i)'
  <2>1. (Has(v, i) <=> Has(w, i)) /\ (OneStart(w, i) => OneStart(v, i))
    <3> HIDE DEF w, e
    <3>1. /\ v \in Seq(Event_) /\ Len(w) <= Len(v)
          /\ \A k \in 1 .. Len(w) : v[k] = w[k]
          /\ \A k \in Len(w) + 1 .. Len(v) : v[k] = e
      BY <1>3, <1>4
    <3> HIDE DEF v
    <3>2. \A k \in Len(w) + 1 .. Len(v) : v[k].job # i
      BY <1>3, <1>8, <3>1
    <3> QED
      BY <1>4, <3>1, <3>2, HasMore
  <2> HIDE DEF w, v
  <2>2. \A t \in Sleds : /\ Has(wire'[t], i) <=> Has(wire[t], i)
                         /\ OneStart(wire[t], i) => OneStart(wire'[t], i)
    BY <1>5, <2>1, Zenon DEF w
  <2> QED
    BY <1>2, <1>6, <1>7, <1>8, <2>2, JobFrame
<1>9. JobOK(j)'
  <2>1. j \in begun /\ ~StartPending(j) /\ j \notin QueuedIds
    BY <1>1, Zenon DEF JobOK, Untouched, QueuedOK
  <2>2. ASSUME NEW t \in Sleds, t # s PROVE SiteOK(t, j)'
    <3>1. /\ InFlight(t, j)' <=> InFlight(t, j)
          /\ OneStartInFlight(t, j)' <=> OneStartInFlight(t, j)
      BY <1>5, <2>2 DEF InFlight, OneStartInFlight
    <3>2. SiteOK(t, j)
      BY DEF JobOK
    <3> QED
      BY <1>2, <1>6, <2>2, <3>1, <3>2 DEF SiteOK
  <2>3. SiteOK(s, j)'
    <3>1. CASE phase = "over"
      BY <1>6, <3>1, Zenon DEF SiteOK
    <3>2. CASE /\ phase = "running" /\ kind = "start"
               /\ work[s][j] \in {"asked", "released"}
      <4>1. ~Has(w, j) /\ hist.status[j][s] \in {"none", "queued"}
        BY <3>2, InFlightHas, Zenon DEF JobOK, SiteOK
      <4>2. OneStart(v, j)
        BY <1>4, <3>2, <4>1, HasFirst, Zenon
      <4> HIDE DEF v
      <4>21. OneStart(wire'[s], j)
        BY <1>5, <4>2
      <4>3. OneStartInFlight(s, j)'
        BY <4>21, Zenon DEF OneStartInFlight, OneStart
      <4> QED
        BY <1>2, <1>6, <3>2, <4>1, <4>3 DEF SiteOK
    <3> QED
      BY <1>1, <3>1, <3>2
  <2> QED
    BY <1>2, <1>7, <2>1, <2>2, <2>3 DEF JobOK
<1> QED
  BY <1>8, <1>9

\* A job is sent once, before anything is known of it.
LEMMA CallStepInOrder ==
    ASSUME Base, ~Resends, RequestedOnce, \A i \in Jobs : JobOK(i), CallStep
    PROVE  RequestedOnce' /\ \A i \in Jobs : JobOK(i)'
<1>0. RequestsOK /\ requests \in Seq(Request_)
  BY BaseParts DEF RequestsOK
<1>1. /\ OthersUnchanged
      /\ \/ UNCHANGED <<requests, begun>>
         \/ \E r \in Request_ :
              /\ requests' = Append(requests, r)
              /\ \/ r.kind # "start" /\ UNCHANGED begun
                 \/ /\ r.kind = "start" /\ r.job \in Jobs \ begun
                    /\ begun' = begun \cup {r.job}
  <2> SUFFICES ASSUME NEW c \in Calls, NEW j \in Jobs \cup {0}, NEW wait \in Waits \cup {""},
                 \/ SessionStart(c) \/ SessionStop(c)
                 \/ j \in Jobs /\ (JobStart(c, j, wait) \/ JobStop(c, j, wait))
                 \/ WaitForJobStatus(c, j) \/ StopRequested(c) \/ Look(c) \/ Timeout(c)
               PROVE  /\ OthersUnchanged
                      /\ \/ UNCHANGED <<requests, begun>>
                         \/ \E r \in Request_ :
                              /\ requests' = Append(requests, r)
                              /\ \/ r.kind # "start" /\ UNCHANGED begun
                                 \/ /\ r.kind = "start" /\ r.job \in Jobs \ begun
                                    /\ begun' = begun \cup {r.job}
    BY Zenon DEF CallStep
  <2>1. CASE SessionStart(c)
    <3>1. /\ Request("start_session", 0, {}) \in Request_
          /\ Request("start_session", 0, {}).kind = "start_session"
      BY Zenon DEF Request, Request_, Kinds
    <3> QED
      BY <2>1, <3>1, Zenon DEF SessionStart, Send
  <2>2. CASE SessionStop(c)
    <3>1. /\ Request("stop_session", 0, {}) \in Request_
          /\ Request("stop_session", 0, {}).kind = "stop_session"
      BY Zenon DEF Request, Request_, Kinds
    <3> QED
      BY <2>2, <3>1, Zenon DEF SessionStop, Send
  <2>3. CASE j \in Jobs /\ JobStart(c, j, wait)
    <3>1. ReachableTargets(j) \in SUBSET Sleds
      BY <2>3, ManagerAssumption, Zenon DEF ReachableTargets
    <3>2. /\ Request("start", j, ReachableTargets(j)) \in Request_
          /\ Request("start", j, ReachableTargets(j)).kind = "start"
          /\ Request("start", j, ReachableTargets(j)).job = j
      BY <2>3, <3>1, Zenon DEF Request, Request_, Kinds
    <3> QED
      BY <2>3, <3>2, Zenon DEF JobStart, Send
  <2>4. CASE j \in Jobs /\ JobStop(c, j, wait)
    <3>1. Request("stop", j, {}) \in Request_ /\ Request("stop", j, {}).kind = "stop"
      BY <2>4, Zenon DEF Request, Request_, Kinds
    <3> QED
      BY <2>4, <3>1, Zenon DEF JobStop, Send
  <2>5. CASE WaitForJobStatus(c, j) \/ StopRequested(c) \/ Look(c) \/ Timeout(c)
    BY <2>5, Zenon DEF WaitForJobStatus, StopRequested, Look, Timeout
  <2> QED
    BY <2>1, <2>2, <2>3, <2>4, <2>5, Zenon
<1>2. UNCHANGED <<queue, hist, work, wire>> /\ QueuedIds' = QueuedIds
  BY <1>1 DEF OthersUnchanged, QueuedIds
<1>3. CASE UNCHANGED <<requests, begun>>
  <2>1. RequestedOnce' /\ \A i : StartPending(i)' <=> StartPending(i)
    BY <1>3 DEF RequestedOnce, StartPending
  <2> QED
    BY <1>2, <1>3, <2>1, JobFrame
<1>4. ASSUME NEW r \in Request_, requests' = Append(requests, r),
             \/ r.kind # "start" /\ UNCHANGED begun
             \/ /\ r.kind = "start" /\ r.job \in Jobs \ begun
                /\ begun' = begun \cup {r.job}
      PROVE  RequestedOnce' /\ \A i \in Jobs : JobOK(i)'
  <2> DEFINE u == Append(requests, r)
             n == Len(requests) + 1
  <2>1. /\ n \in DOMAIN u /\ u[n] = r /\ n \notin DOMAIN requests
        /\ \A i \in DOMAIN u : i = n \/ (i \in DOMAIN requests /\ u[i] = requests[i])
        /\ \A i \in DOMAIN requests : i \in DOMAIN u /\ u[i] = requests[i]
    BY <1>0
  <2>2. requests' = u
    BY <1>4
  <2> HIDE DEF u, n
  <2>3. \A i : i # r.job \/ r.kind # "start" => (StartPending(i)' <=> StartPending(i))
    BY <2>1, <2>2 DEF StartPending
  <2>4. r.kind = "start" => ~StartPending(r.job) /\ Untouched(r.job) /\ r.job \notin QueuedIds
    BY <1>4 DEF JobOK
  <2>5. RequestedOnce'
    <3>1. ASSUME NEW i \in DOMAIN u, NEW k \in DOMAIN u,
                 u[i].kind = "start", u[k].kind = "start", u[i].job = u[k].job
          PROVE  i = k
      <4>1. CASE r.kind = "start"
        <5>1. \A m \in DOMAIN requests :
                requests[m].kind = "start" => requests[m].job # r.job
          BY <2>4, <4>1 DEF StartPending
        <5> QED
          BY <2>1, <3>1, <5>1 DEF RequestedOnce
      <4>2. CASE r.kind # "start"
        BY <2>1, <3>1, <4>2 DEF RequestedOnce
      <4> QED
        BY <4>1, <4>2
    <3> QED
      BY <2>2, <3>1 DEF RequestedOnce
  <2>6. ASSUME NEW i \in Jobs, i # r.job \/ r.kind # "start" PROVE JobOK(i)'
    <3>1. i \in begun => i \in begun'
      BY <1>4
    <3> QED
      BY <1>2, <2>3, <2>6, <3>1, JobFrame
  <2>7. ASSUME NEW i \in Jobs, i = r.job, r.kind = "start" PROVE JobOK(i)'
    <3>1. Untouched(i) /\ i \notin QueuedIds
      BY <2>4, <2>7
    <3>2. Untouched(i)'
      BY <1>2, <3>1 DEF Untouched, InFlight
    <3>3. \A s \in Sleds : SiteOK(s, i)'
      BY <3>2 DEF Untouched, SiteOK
    <3> QED
      BY <1>2, <1>4, <2>7, <3>1, <3>2, <3>3 DEF JobOK
  <2> QED
    BY <2>5, <2>6, <2>7
<1> QED
  BY <1>1, <1>3, <1>4

\* Every step leaves every job in order.
LEMMA InOrderStep ==
    ASSUME Base, ~Resends, StartedInOrder, [Next]_vars
    PROVE  StartedInOrder'
<1>0. RequestedOnce /\ \A i \in Jobs : JobOK(i)
  BY StartedInOrderParts
<1> SUFFICES RequestedOnce' /\ \A i \in Jobs : JobOK(i)'
  BY Zenon DEF StartedInOrder, RequestedOnce, JobOK, SiteOK, QueuedOK
<1>1. ASSUME UNCHANGED <<requests, begun>>
      PROVE  RequestedOnce' /\ \A i : (StartPending(i)' <=> StartPending(i))
  BY <1>0, <1>1 DEF RequestedOnce, StartPending
<1>2. ASSUME UNCHANGED <<requests, begun, queue, hist, work, wire>>
      PROVE  RequestedOnce' /\ \A i \in Jobs : JobOK(i)'
  <2>1. QueuedIds' = QueuedIds
    BY <1>2 DEF QueuedIds
  <2> QED
    BY <1>0, <1>1, <1>2, <2>1, JobFrame
<1>3. CASE UNCHANGED vars
  BY <1>2, <1>3 DEF vars
<1>4. CASE ApplyRequest
  BY <1>0, <1>4, ApplyRequestInOrder
<1>5. CASE Supersede
  <2>1. /\ wire' = SkipsOf({e[1] : e \in {q \in queue : Own \in q[2]}})
        /\ queue' = {} /\ UNCHANGED <<hist, work, begun, requests>>
    BY <1>5 DEF Supersede
  <2> QED
    BY <1>0, <1>1, <2>1, SkippedJobs
<1>6. CASE SwapUniverse
  <2>1. /\ queue' = {} /\ hist' = NoHistory
        /\ work' = [s \in Sleds |-> [j \in Jobs |-> "idle"]]
        /\ wire' = [s \in Sleds |-> <<>>]
        /\ UNCHANGED <<requests, begun>>
    BY <1>6 DEF SwapUniverse
  <2>2. ASSUME NEW i \in Jobs PROVE JobOK(i)'
    <3>1. \A s \in Sleds : ~InFlight(s, i)'
      BY <2>1 DEF InFlight
    <3>2. \A s \in Sleds : work'[s][i] = "idle" /\ hist'.status[i][s] = "none"
      BY <2>1 DEF NoHistory
    <3>3. i \notin QueuedIds'
      BY <2>1 DEF QueuedIds
    <3>4. Untouched(i)' /\ \A s \in Sleds : SiteOK(s, i)'
      BY <3>1, <3>2 DEF Untouched, SiteOK
    <3>5. StartPending(i)' => i \in begun'
      BY <1>0, <1>1, <2>1 DEF JobOK
    <3> QED
      BY <3>3, <3>4, <3>5 DEF JobOK
  <2> QED
    BY <1>1, <2>1, <2>2
<1>7. ASSUME NEW s \in Sleds, ApplyEvent(s)
      PROVE  RequestedOnce' /\ \A i \in Jobs : JobOK(i)'
  <2>1. UNCHANGED <<requests, begun>>
    BY <1>7 DEF ApplyEvent
  <2> QED
    BY <1>0, <1>1, <1>7, <2>1, ApplyEventInOrder
<1>8. CASE WorkStep
  <2>1. UNCHANGED <<requests, begun>>
    BY <1>8 DEF WorkStep, JobStarts, JobFails, JobSkipped, JobEnds, Announce
  <2> QED
    BY <1>0, <1>1, <1>8, <2>1, WorkStepInOrder
<1>9. ASSUME NEW s \in Others, Relink(s)
      PROVE  RequestedOnce' /\ \A i \in Jobs : JobOK(i)'
  BY <1>2, <1>9 DEF Relink
<1>10. CASE CallStep
  BY <1>0, <1>10, CallStepInOrder
<1> QED
  BY <1>3, <1>4, <1>5, <1>6, <1>7, <1>8, <1>9, <1>10, Zenon DEF Next

\* Nothing is in flight at first.
LEMMA InitInOrder == Init => StartedInOrder
<1> SUFFICES ASSUME Init PROVE StartedInOrder
  OBVIOUS
<1>1. /\ requests = <<>> /\ queue = {} /\ hist = NoHistory /\ begun = {}
      /\ work = [s \in Sleds |-> [j \in Jobs |-> "idle"]]
      /\ wire = [s \in Sleds |-> <<>>]
  BY DEF Init
<1>2. RequestedOnce
  BY <1>1 DEF RequestedOnce
<1>3. ASSUME NEW j \in Jobs PROVE JobOK(j)
  <2>1. \A s \in Sleds : ~InFlight(s, j) /\ work[s][j] = "idle" /\ hist.status[j][s] = "none"
    BY <1>1 DEF InFlight, NoHistory
  <2>2. ~StartPending(j) /\ j \notin QueuedIds
    BY <1>1 DEF StartPending, QueuedIds
  <2> QED
    BY <2>1, <2>2, Zenon DEF JobOK, Untouched, SiteOK
<1> QED
  BY <1>2, <1>3, StartedInOrderParts

\* When no client sends a job again, a job that runs on any sled and whose
\* start was heard keeps its status, however many jobs the history evicts, in
\* whatever order sessions stop, jobs are cancelled and events arrive.
THEOREM RunningJobsKept ==
    ASSUME ~Resends
    PROVE  Spec => []StartedJobsKept
<1>1. Init => Base /\ StartedInOrder
  BY InitBase, InitInOrder
<1>2. (Base /\ StartedInOrder) /\ [Next]_vars => (Base /\ StartedInOrder)'
  BY BaseStep, InOrderStep
<1>3. StartedInOrder => StartedJobsKept
  <2>1. ASSUME NEW s \in Sleds, NEW j \in Jobs, OneStartInFlight(s, j)
        PROVE  InFlight(s, j)
    BY <2>1 DEF OneStartInFlight, InFlight
  <2> QED
    BY <2>1 DEF StartedInOrder, StartedJobsKept
<1> QED
  BY <1>1, <1>2, <1>3, PTL DEF Spec
==============================================================================
