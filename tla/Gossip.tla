------------------------------- MODULE Gossip -------------------------------
(***************************************************************************)
(* The gossip manager of every sled (gossip.rs), the sprockets transport   *)
(* under it (link.rs) and the bookmark record beside it (bookmark.rs).     *)
(* Each peer starts in a universe of its own.  Managers dial one another,  *)
(* drive sessions on the links, find out in a session that the two         *)
(* universes differ, and the loser joins the winner's over a fresh link.   *)
(*                                                                         *)
(* A link is <<dialer, acceptor, slot>>.  Each of its two ends is wherever *)
(* that peer's process holds it: a dial task, the accept queue, a driver   *)
(* task, a join, or a finished task's report that nobody has read yet.     *)
(* A slot is reused once both ends are gone.                               *)
(***************************************************************************)
EXTENDS Naturals, FiniteSets, FiniteSetsExt, Functions

CONSTANTS
    Peers,       \* listen addresses, as numbers: the order the dial tiebreak uses
    Networks,    \* universe ids, as numbers: the order that breaks ties
    Known,       \* the peer set each peer is given
    Seeds,       \* the universes the peers may have started in
    Ip,          \* the IP of each listen address
    Parseable,   \* the peers whose platform id names a baseboard
    Slots,       \* the links to each acceptor that can be in flight
    MaxEvents,   \* bound on the event count of a universe
    MaxUpsets    \* bound on disturbances: failures, restarts, changes

ASSUME GossipAssumption ==
    /\ Peers \subseteq Nat \ {0} /\ IsFiniteSet(Peers)
    /\ Networks \subseteq Nat \ {0}
    /\ Slots \in [Peers -> SUBSET (Nat \ {0})]
    /\ Known \in [Peers -> SUBSET Peers] /\ \A p \in Peers : p \notin Known[p]
    /\ Seeds \subseteq {net \in [Peers -> Networks] : \A p, q \in Peers : net[p] = net[q] => p = q}
    /\ MaxEvents \in Nat /\ MaxUpsets \in Nat

VARIABLES
    mgr,      \* each peer's manager and process-local state
    ends,     \* where each link's two ends are held
    record,   \* the universe each peer's bookmark record names (0: none)
    late,     \* a store begun in a universe since abandoned (0: none)
    upsets

vars == <<mgr, ends, record, late, upsets>>

Links == {l \in Peers \X Peers \X UNION Range(Slots) :
              l[2] < l[1] /\ l[2] \in Known[l[1]] /\ l[3] \in Slots[l[2]]}

EndsOf(l) == {l[1], l[2]}

Far(l, p) == IF l[1] = p THEN l[2] ELSE l[1]

Gone == [at |-> "gone", net |-> 0]

NoEnds(l) == [p \in EndsOf(l) |-> Gone]

Held == {"gone", "dialing", "dialed", "refused", "queued", "driving",
         "joining", "dominated", "failed"}

At(l, p) == ends[l][p].at

Upset == upsets < MaxUpsets /\ upsets' = upsets + 1

(***************************************************************************)
(* Link bookkeeping as functions of the two tables, so that one turn of    *)
(* the loop can chain them.                                                *)
(***************************************************************************)
\* Replaces p's end of l.
WithEnd(es, l, p, e) == [es EXCEPT ![l][p] = e]

Holding(at) == [at |-> at, net |-> 0]

\* Aborts a task that owns p's end of l.  A task that has finished keeps its
\* report, which the manager still reads.
Aborted(es, l, p) ==
    IF es[l][p].at \in {"dialing", "driving"} THEN WithEnd(es, l, p, Gone) ELSE es

LinkTo(p, q, k) == IF q < p THEN <<p, q, k>> ELSE <<q, p, k>>

\* The slots for a dial from p to q.
FreeSlots(es, p, q) == {k \in Slots[q] : es[<<p, q, k>>] = NoEnds(<<p, q, k>>)}

\* The addresses the dial tiebreak makes ours to establish.
Wanted(p, m) == {q \in m.peers : q < p}

\* Starts a dial to every wanted peer without a link or a dial already.
Absent(es, p, m) ==
    {q \in Wanted(p, m) : m.live[q] = 0 /\ m.dialing[q] = 0 /\ FreeSlots(es, p, q) # {}}

LinkAbsentM(es, p, m) ==
    [m EXCEPT !.dialing = [q \in Peers |-> IF q \in Absent(es, p, m)
                                           THEN Min(FreeSlots(es, p, q))
                                           ELSE m.dialing[q]]]

LinkAbsentE(es, p, m) ==
    LET new == {<<p, q, Min(FreeSlots(es, p, q))>> : q \in Absent(es, p, m)}
    IN  [l \in Links |-> IF l \in new THEN [es[l] EXCEPT ![p] = Holding("dialing")] ELSE es[l]]

\* The baseboard attested at q's address: by a dial to it, or by the only
\* baseboard that connected from its IP.  A baseboard is named by its peer.
Resolve(m, q) ==
    IF q \in m.dialed THEN {q}
    ELSE LET ids == {r \in m.accepted : Ip[r] = Ip[q]}
         IN  IF Cardinality(ids) = 1 THEN ids ELSE {}

LinkedOf(m) == UNION {Resolve(m, q) : q \in {r \in Peers : m.live[r] # 0}}

\* The end of every turn of the loop: publish_linked.
PublishLinked(m) == [m EXCEPT !.linked = LinkedOf(m)]

EndTurn(p, m) == mgr' = [mgr EXCEPT ![p] = PublishLinked(m)]

(***************************************************************************)
(* The rule of the collision, and what a session shows each side.          *)
(***************************************************************************)
RemoteDominatesNoTie(localEvents, remoteEvents, localNet, remoteNet) ==
    remoteEvents > localEvents

\* The greater minimum event count wins, the lesser network id breaks ties.
RemoteDominates(localEvents, remoteEvents, localNet, remoteNet) ==
    \/ remoteEvents > localEvents
    \/ remoteEvents = localEvents /\ remoteNet < localNet

\* Spawns a driver for p's end of l, in place of any driver p has for that
\* peer.
DriveM(l, p, m) == [m EXCEPT !.live[Far(l, p)] = l[3]]

DriveE(es, l, p, m) ==
    LET q     == Far(l, p)
        stale == LinkTo(p, q, m.live[q])
        clear == IF m.live[q] = 0 THEN es ELSE Aborted(es, stale, p)
    IN  WithEnd(clear, l, p, [at |-> "driving", net |-> m.net])

\* Stops every driver before a join.
StopDrivers(es, p) ==
    [l \in Links |-> IF p \in EndsOf(l) /\ es[l][p].at = "driving"
                     THEN [es[l] EXCEPT ![p] = Gone] ELSE es[l]]

MigrateM(l, p, m) == [m EXCEPT !.live = [q \in Peers |-> 0], !.joining = l[3], !.via = Far(l, p)]

MigrateEKeeping(es, l, p) == WithEnd(es, l, p, Holding("joining"))

\* Begins a join over p's end of l.
MigrateE(es, l, p) == WithEnd(StopDrivers(es, p), l, p, Holding("joining"))

\* A fresh link: used to join if we owe that peer a join, driven if not.
\* The drivers a join aborts may leave one bookmark store in flight.
OnLink(es, l, p, m) ==
    IF Far(l, p) \in m.joins
    THEN /\ ends' = MigrateE(es, l, p)
         /\ mgr' = [mgr EXCEPT ![p] = MigrateM(l, p, m)]
         /\ \/ UNCHANGED <<late, upsets>>
            \/ /\ \E k \in Links : p \in EndsOf(k) /\ es[k][p].at = "driving"
               /\ m.handle = "real"
               /\ late' = [late EXCEPT ![p] = m.net]
               /\ Upset
    ELSE /\ ends' = DriveE(es, l, p, m)
         /\ EndTurn(p, DriveM(l, p, m))
         /\ UNCHANGED <<late, upsets>>

(***************************************************************************)
(* The arms of the manager's loop.  None runs while the loop is inside a   *)
(* join.                                                                   *)
(***************************************************************************)
Looping(p) == mgr[p].joining = 0

Tick(p) ==
    /\ Looping(p)
    /\ ends' = LinkAbsentE(ends, p, mgr[p])
    /\ EndTurn(p, LinkAbsentM(ends, p, mgr[p]))
    /\ UNCHANGED <<record, late, upsets>>

\* Tears down links, dials, debts and attestations of peers no longer in the
\* peer set.
PrunedM(m) ==
    [m EXCEPT !.live     = [q \in Peers |-> IF q \in m.peers THEN m.live[q] ELSE 0],
              !.dialing  = [q \in Peers |-> IF q \in m.peers THEN m.dialing[q] ELSE 0],
              !.joins    = @ \cap m.peers,
              !.dialed   = @ \cap m.peers,
              !.accepted = {r \in @ : \E q \in m.peers : Ip[q] = Ip[r]}]

PrunedE(es, p, m) ==
    LET out == {l \in Links : /\ p \in EndsOf(l) /\ Far(l, p) \notin m.peers
                              /\ l[3] \in {m.live[Far(l, p)], m.dialing[Far(l, p)]}}
    IN  [l \in Links |-> IF l \in out THEN Aborted(es, l, p)[l] ELSE es[l]]

PeersChanged(p) ==
    LET m == PrunedM([mgr[p] EXCEPT !.news = FALSE])
        e == PrunedE(ends, p, mgr[p])
    IN  /\ Looping(p) /\ mgr[p].news
        /\ ends' = LinkAbsentE(e, p, m)
        /\ EndTurn(p, [LinkAbsentM(e, p, m) EXCEPT
                         !.seen = @ /\ m.dialed = mgr[p].dialed /\ m.accepted = mgr[p].accepted])
        /\ UNCHANGED <<record, late, upsets>>

\* The arm itself does nothing: a late attestation names a link that is
\* already live, at the end of the turn.
AttestedChanged(p) ==
    /\ Looping(p) /\ ~mgr[p].seen
    /\ EndTurn(p, [mgr[p] EXCEPT !.seen = TRUE])
    /\ UNCHANGED <<ends, record, late, upsets>>

Accept(l) ==
    LET p == l[2]
    IN  /\ Looping(p) /\ At(l, p) = "queued"
        /\ OnLink(ends, l, p, mgr[p])
        /\ UNCHANGED record

\* A finished dial.  Only the dial still on the books acts on its result.
DialDone(l) ==
    LET p == l[1]
        q == l[2]
        m == [mgr[p] EXCEPT !.dialing[q] = 0]
    IN  /\ Looping(p) /\ At(l, p) \in {"dialed", "refused"}
        /\ IF mgr[p].dialing[q] = l[3] /\ At(l, p) = "dialed"
           THEN OnLink(ends, l, p, m)
           ELSE /\ ends' = WithEnd(ends, l, p, Gone)
                /\ EndTurn(p, IF mgr[p].dialing[q] = l[3] THEN m ELSE mgr[p])
                /\ UNCHANGED <<late, upsets>>
        /\ UNCHANGED record

\* What a finished driver's report does to the books when it is acted upon.
Reported(l, p) ==
    [mgr[p] EXCEPT !.live[Far(l, p)] = 0,
                   !.joins = IF At(l, p) = "dominated" THEN @ \cup {Far(l, p)} ELSE @]

DriverDoneAny(l, p) ==
    /\ Looping(p) /\ At(l, p) \in {"dominated", "failed"}
    /\ ends' = WithEnd(ends, l, p, Gone)
    /\ EndTurn(p, IF mgr[p].live[Far(l, p)] = l[3] \/ At(l, p) = "dominated"
                  THEN Reported(l, p) ELSE mgr[p])
    /\ UNCHANGED <<record, late, upsets>>

\* A finished (or panicked) driver.  Only the living driver's end may take
\* the peer out of the live set, and only it may put the manager in debt.
DriverDone(l, p) ==
    /\ Looping(p) /\ At(l, p) \in {"dominated", "failed"}
    /\ ends' = WithEnd(ends, l, p, Gone)
    /\ EndTurn(p, IF mgr[p].live[Far(l, p)] = l[3] THEN Reported(l, p) ELSE mgr[p])
    /\ UNCHANGED <<record, late, upsets>>

(***************************************************************************)
(* The join a manager is inside of.                                        *)
(***************************************************************************)
\* Follows the joined peer into its universe.
Adopt(m, net, events, handle) ==
    [m EXCEPT !.net = net, !.events = events, !.handle = handle, !.spoke = TRUE, !.joins = {}]

\* The rest of migrate once the join has ended as m: drops the link, redials.
JoinEnds(l, p, m) ==
    LET e == WithEnd(ends, l, p, Gone)
        n == [m EXCEPT !.joining = 0, !.via = 0]
    IN  /\ ends' = LinkAbsentE(e, p, n)
        /\ EndTurn(p, LinkAbsentM(e, p, n))

\* Whether p's handle lets a session start: a shed handle stores nothing.
Storing(p) == mgr[p].handle = "real"

Gate(p) == Storing(p) => mgr[p].disk

\* Whether p's bookmark reaches its record.
Stores(p) == Storing(p) /\ mgr[p].disk

\* A store the locker accepts outdates every store begun before it: the
\* late one loses to the sequence guard.
OutdatedNone(p) == late[p]

Outdated(p) == 0

Joining(l, p) == At(l, p) = "joining" /\ mgr[p].joining = l[3] /\ mgr[p].via = Far(l, p)

Joined(l, p) ==
    LET q == Far(l, p)
        n == ends[l][q].net
    IN  /\ Joining(l, p) /\ At(l, q) = "driving" /\ Gate(q)
        /\ JoinEnds(l, p, Adopt(mgr[p], n, mgr[q].events,
                                IF mgr[p].disk THEN "real" ELSE "shed"))
        /\ record' = [r \in Peers |-> IF (r = p /\ mgr[p].disk) \/ (r = q /\ Stores(q))
                                      THEN n ELSE record[r]]
        /\ late' = [late EXCEPT ![p] = IF mgr[p].disk THEN Outdated(p) ELSE @]
        /\ UNCHANGED upsets

\* Failed, bailed or timed out: our universe is intact and the debt stands.
\* A join whose other end is up and unhurried fails only by a disturbance.
JoinFails(l, p) ==
    LET q == Far(l, p)
    IN  /\ Joining(l, p)
        /\ \/ /\ \/ At(l, q) \in {"gone", "joining", "dominated", "failed", "refused"}
                 \/ At(l, q) \in {"queued", "dialed"} /\ ~Looping(q)
                 \/ At(l, q) = "driving" /\ ~Gate(q)
              /\ UNCHANGED upsets
           \/ Upset
        /\ JoinEnds(l, p, mgr[p])
        /\ UNCHANGED <<record, late>>

(***************************************************************************)
(* Handshakes and sessions.                                                *)
(***************************************************************************)
\* Records the peer attested on a connection, if its platform id parses.
AttestDialed(m, q) ==
    IF q \in Parseable \ m.dialed THEN [m EXCEPT !.dialed = @ \cup {q}, !.seen = FALSE] ELSE m

AttestAccepted(m, q) ==
    IF q \in Parseable \ m.accepted THEN [m EXCEPT !.accepted = @ \cup {q}, !.seen = FALSE] ELSE m

\* The books when both sides of a connection on l have seen the other's
\* platform id.
Attested(l) ==
    [r \in Peers |-> CASE r = l[1] -> AttestDialed(mgr[r], l[2])
                       [] r = l[2] -> AttestAccepted(mgr[r], l[1])
                       [] OTHER -> mgr[r]]

\* A dial's handshake and the acceptor's.  The link then waits for the
\* dialer's manager to read the dial and the acceptor's to accept.
Handshake(l) ==
    /\ At(l, l[1]) = "dialing"
    /\ ends' = [ends EXCEPT ![l] = [r \in EndsOf(l) |->
                                      Holding(IF r = l[1] THEN "dialed" ELSE "queued")]]
    /\ mgr' = Attested(l)
    /\ UNCHANGED <<record, late, upsets>>

\* The dial fails or times out; the acceptor may have seen the handshake.
HandshakeFails(l) ==
    /\ At(l, l[1]) = "dialing" /\ Upset
    /\ \/ ends' = WithEnd(ends, l, l[1], Holding("refused")) /\ UNCHANGED mgr
       \/ /\ ends' = [ends EXCEPT ![l] = [r \in EndsOf(l) |->
                                            Holding(IF r = l[1] THEN "refused" ELSE "queued")]]
          /\ mgr' = [mgr EXCEPT ![l[2]] = AttestAccepted(@, l[1])]
    /\ UNCHANGED <<record, late>>

\* A live link dials another stream, which attests both sides again.
StreamDial(l) ==
    /\ At(l, l[1]) = "driving" /\ At(l, l[2]) = "driving"
    /\ mgr' = Attested(l)
    /\ UNCHANGED <<ends, record, late, upsets>>

\* What a session that found different universes makes of p's driver.
Verdict(l, p) ==
    LET q == Far(l, p)
    IN  IF RemoteDominates(mgr[p].events, mgr[q].events, ends[l][p].net, ends[l][q].net)
        THEN "dominated" ELSE "failed"

\* A session between two drivers.  Each side first stores its bookmark; a
\* failed store fails the session.  Within one universe the two sides end up
\* with the same events; across two the drivers stop, and a side that loses
\* the link before the mismatch arrives only sees it fail.
Session(l) ==
    LET p == l[1]
        q == l[2]
        top == Max({mgr[p].events, mgr[q].events})
        same == ends[l][p].net = ends[l][q].net
    IN  /\ At(l, p) = "driving" /\ At(l, q) = "driving"
        /\ record' = [r \in Peers |-> IF r \in EndsOf(l) /\ Stores(r)
                                      THEN ends[l][r].net ELSE record[r]]
        /\ late' = [r \in Peers |-> IF r \in EndsOf(l) /\ Stores(r)
                                    THEN Outdated(r) ELSE late[r]]
        /\ IF Gate(p) /\ Gate(q)
           THEN mgr' = [r \in Peers |->
                          IF r \in EndsOf(l)
                          THEN [mgr[r] EXCEPT !.events = IF same THEN top ELSE @, !.spoke = TRUE]
                          ELSE mgr[r]]
           ELSE UNCHANGED mgr
        /\ \/ /\ Gate(p) /\ Gate(q) /\ same
              /\ UNCHANGED <<ends, upsets>>
           \/ /\ Gate(p) /\ Gate(q) /\ ~same
              /\ ends' = [ends EXCEPT ![l] = [r \in EndsOf(l) |-> Holding(Verdict(l, r))]]
              /\ UNCHANGED upsets
           \/ /\ IF Gate(p) /\ Gate(q) THEN ~same /\ Upset ELSE UNCHANGED upsets
              /\ ends' = [ends EXCEPT ![l] = [r \in EndsOf(l) |-> Holding("failed")]]

\* A driver finds that the other end of its link is no longer there.
Notice(l, p) ==
    /\ At(l, p) = "driving"
    /\ At(l, Far(l, p)) \in {"gone", "dominated", "failed", "refused"}
    /\ ends' = WithEnd(ends, l, p, Holding("failed"))
    /\ UNCHANGED <<mgr, record, late, upsets>>

\* A link breaks under its driver, or the driver panics.
LinkBreaks(l, p) ==
    /\ At(l, p) = "driving" /\ Upset
    /\ ends' = WithEnd(ends, l, p, Holding("failed"))
    /\ UNCHANGED <<mgr, record, late>>

(***************************************************************************)
(* The rest of a sled's life.                                              *)
(***************************************************************************)
\* The late store reaches the locker before any newer one.
LateStore(p) ==
    /\ late[p] # 0 /\ mgr[p].disk
    /\ record' = [record EXCEPT ![p] = late[p]]
    /\ late' = [late EXCEPT ![p] = 0]
    /\ UNCHANGED <<mgr, ends, upsets>>

\* The sled announces something: its universe grows.
Announce(p) ==
    /\ mgr[p].events < MaxEvents /\ Upset
    /\ mgr' = [mgr EXCEPT ![p].events = @ + 1]
    /\ UNCHANGED <<ends, record, late>>

Fresh(p, net, peers, disk) ==
    [net |-> net, events |-> 0, spoke |-> FALSE, handle |-> IF disk THEN "real" ELSE "shed", disk |-> disk,
     peers |-> peers, news |-> FALSE,
     live |-> [q \in Peers |-> 0], dialing |-> [q \in Peers |-> 0],
     joins |-> {}, joining |-> 0, via |-> 0,
     dialed |-> {}, accepted |-> {}, seen |-> TRUE, linked |-> {}]

\* Seed::grow and spawn_gossip in a new process: a universe of its own, and
\* a shed handle if the storage does not answer the probe.
Restart(p) ==
    /\ Upset
    /\ \E n \in Networks \ UNION {{mgr[q].net, record[q], late[q]} : q \in Peers} :
         mgr' = [mgr EXCEPT ![p] = Fresh(p, n, @.peers, @.disk)]
    /\ ends' = [l \in Links |-> IF p \in EndsOf(l) THEN [ends[l] EXCEPT ![p] = Gone] ELSE ends[l]]
    /\ late' = [late EXCEPT ![p] = 0]
    /\ UNCHANGED record

\* The peer set that p's sled is given loses a peer, or gets it back.
Forget(p, q) ==
    /\ q \in mgr[p].peers /\ Upset
    /\ mgr' = [mgr EXCEPT ![p].peers = @ \ {q}, ![p].news = TRUE]
    /\ UNCHANGED <<ends, record, late>>

Recall(p, q) ==
    /\ q \in Known[p] \ mgr[p].peers
    /\ mgr' = [mgr EXCEPT ![p].peers = @ \cup {q}, ![p].news = TRUE]
    /\ UNCHANGED <<ends, record, late, upsets>>

\* The sled's storage stops working.
Break(p) ==
    /\ mgr[p].disk /\ Upset
    /\ mgr' = [mgr EXCEPT ![p].disk = FALSE]
    /\ UNCHANGED <<ends, record, late>>

Init ==
    /\ \E net \in Seeds, disk \in [Peers -> BOOLEAN] :
         /\ mgr = [p \in Peers |-> Fresh(p, net[p], Known[p], disk[p])]
         /\ upsets = Cardinality({p \in Peers : ~disk[p]})
    /\ ends = [l \in Links |-> NoEnds(l)]
    /\ record = [p \in Peers |-> 0]
    /\ late = [p \in Peers |-> 0]
    /\ upsets <= MaxUpsets

Manager(p) ==
    \/ Tick(p)
    \/ PeersChanged(p)
    \/ AttestedChanged(p)
    \/ \E l \in Links : \/ l[2] = p /\ Accept(l)
                        \/ l[1] = p /\ DialDone(l)
                        \/ p \in EndsOf(l) /\ DriverDone(l, p)
                        \/ p \in EndsOf(l) /\ Joined(l, p)
                        \/ p \in EndsOf(l) /\ JoinFails(l, p)

Transport(l) ==
    \/ Handshake(l)
    \/ HandshakeFails(l)
    \/ StreamDial(l)
    \/ Session(l)
    \/ \E p \in EndsOf(l) : Notice(l, p) \/ LinkBreaks(l, p)

Sled(p) ==
    \/ LateStore(p)
    \/ Announce(p)
    \/ Restart(p)
    \/ Break(p)
    \/ \E q \in Peers : Forget(p, q) \/ Recall(p, q)

Next ==
    \/ \E p \in Peers : Manager(p) \/ Sled(p)
    \/ \E l \in Links : Transport(l)

Spec == Init /\ [][Next]_vars

LivingReport(p) ==
    \E l \in Links : p \in EndsOf(l) /\ mgr[p].live[Far(l, p)] = l[3] /\ DriverDone(l, p)

\* A manager with something to do does something, the tasks of a link run,
\* and a forgotten peer returns to the list.  Strong fairness of a living
\* driver's report: select! picks among ready arms at random, so a fresh link
\* does not overtake the report of the driver it replaces for ever.
FairSpec ==
    /\ Spec
    /\ \A p \in Peers : /\ WF_vars(Manager(p))
                        /\ SF_vars(LivingReport(p))
                        /\ \A q \in Peers : WF_vars(Recall(p, q))
    /\ \A l \in Links : WF_vars(Transport(l))

-----------------------------------------------------------------------------
\* A manager's books, with the universe and the storage they depend on.
Books ==
    [net : Networks, events : 0..MaxEvents, spoke : BOOLEAN,
     handle : {"real", "shed"}, disk : BOOLEAN,
     peers : SUBSET Peers, news : BOOLEAN,
     live : [Peers -> Nat], dialing : [Peers -> Nat],
     joins : SUBSET Peers, joining : Nat, via : Peers \cup {0},
     dialed : SUBSET Peers, accepted : SUBSET Peers, seen : BOOLEAN,
     linked : SUBSET Peers]

\* Those of p name neither p nor a link there is not.
BooksOf(p, m) ==
    /\ m.peers \subseteq Known[p]
    /\ p \notin UNION {m.joins, m.dialed, m.accepted, m.linked}
    /\ \A q \in Peers :
         {m.live[q], m.dialing[q]} \subseteq Slots[IF q < p THEN q ELSE p] \cup {0}

WellFormed(es) ==
    /\ DOMAIN es = Links
    /\ \A l \in Links :
         es[l] \in [EndsOf(l) -> [at : Held, net : Networks \cup {0}]]

\* The books only name links, peers and universes there are.
GossipTypeOK ==
    /\ mgr \in [Peers -> Books]
    /\ \A p \in Peers : BooksOf(p, mgr[p])
    /\ WellFormed(ends)
    /\ record \in [Peers -> Networks \cup {0}] /\ late \in [Peers -> Networks \cup {0}]
    /\ upsets \in 0..MaxUpsets

\* Two managers never owe each other a join.  If they did, each would use
\* every fresh link between them to bootstrap from the other, both would bail
\* ("mutual bootstrap, retrying"), and neither debt would ever be paid
\* (gossip.rs: the id check on a finished driver, and on_link).
NoMutualDebt ==
    \A p, q \in Peers : ~(q \in mgr[p].joins /\ p \in mgr[q].joins)

\* Every running driver gossips in its manager's current universe and is the
\* one on the books for its peer: none outlives a migration, and a replaced
\* one never runs beside its successor (gossip.rs: migrate, drive, prune).
DriversOnTheBooks(es, p, m) ==
    \A l \in Links :
        p \in EndsOf(l) /\ es[l][p].at = "driving" =>
            es[l][p].net = m.net /\ m.live[Far(l, p)] = l[3]

\* The manager is inside a join exactly when it holds an end that is joining,
\* and then no driver is live; nor is one for a peer it owes a join.
JoinsOnTheBooks(es, p, m) ==
    /\ \A l \in Links : p \in EndsOf(l) /\ es[l][p].at = "joining" =>
                         m.joining = l[3] /\ m.via = Far(l, p)
    /\ m.joining # 0 => /\ \E l \in Links : p \in EndsOf(l) /\ es[l][p].at = "joining"
                        /\ \A q \in Peers : m.live[q] = 0
    /\ \A q \in m.joins : m.live[q] = 0

\* A link that is still being dialed has no other end yet.
DialsAlone(es) ==
    \A l \in Links : es[l][l[1]].at = "dialing" => es[l][l[2]].at = "gone"

\* The peers that p owes a join, or will once it reads the report it has.
Owes(es, p, m) ==
    m.joins \cup {Far(l, p) : l \in {k \in Links : /\ p \in EndsOf(k)
                                                  /\ es[k][p].at = "dominated"
                                                  /\ m.live[Far(k, p)] = k[3]}}

\* What makes NoMutualDebt inductive: no debt to come is mutual either.
DebtsOneWay ==
    \A p, q \in Peers : ~(q \in Owes(ends, p, mgr[p]) /\ p \in Owes(ends, q, mgr[q]))

\* Once a peer with a real handle has spoken in its universe, its bookmark
\* record names that universe, whatever the stores of the universe it
\* abandoned still do: nothing on the wire outruns the record (gossip.rs:
\* the argument above migrate; bookmark.rs: handle).
RecordCoversWire ==
    \A p \in Peers :
        mgr[p].spoke /\ mgr[p].handle = "real" => record[p] = mgr[p].net

\* What makes it inductive: a store that is still to land is of the current
\* universe, unless the handle was shed.
LateIsCurrent ==
    \A p \in Peers : late[p] # 0 => late[p] = mgr[p].net \/ mgr[p].handle = "shed"

\* Unless the loop is inside a join or has an attestation change still to
\* see, the published baseboards are those attested by the live links, late
\* attestations and pruned ones included (gossip.rs: publish_linked).
LinkedCurrent ==
    \A p \in Peers :
        Looping(p) /\ mgr[p].seen => mgr[p].linked = LinkedOf(mgr[p])

\* The manager's books agree with its tasks and with what it publishes.
GossipInv ==
    /\ GossipTypeOK
    /\ \A p \in Peers : /\ DriversOnTheBooks(ends, p, mgr[p])
                        /\ JoinsOnTheBooks(ends, p, mgr[p])
    /\ DialsAlone(ends)
    /\ DebtsOneWay
    /\ LateIsCurrent
    /\ LinkedCurrent

\* A peer can hold sessions: a real handle whose storage broke after start
\* stops every session at the persist gate until the sled restarts.
Whole == \A p \in Peers : Gate(p)

\* If every peer can hold sessions from some time on, one universe remains,
\* however the collisions, failures, restarts and stale debts fell out
\* (gossip.rs: "the process repeats until one universe remains").
Converges ==
    <>[]Whole => <>[](\A p, q \in Peers : mgr[p].net = mgr[q].net)

=============================================================================
