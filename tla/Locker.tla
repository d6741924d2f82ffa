------------------------------- MODULE Locker -------------------------------
(***************************************************************************)
(* Durable storage of one tenant's record (server/src/locker.rs): a file   *)
(* in every slot, written in slot order and read back under the pair       *)
(* rules.  The tenants are the execution boundary and the rumors bookmark  *)
(* (locker/boundary.rs, locker/bookmark.rs), whose load and store are the  *)
(* callers here.                                                           *)
(*                                                                         *)
(* A record is the number of the store that first wrote it, over all lives *)
(* of the server, so that older and newer are visible; the code compares   *)
(* records for equality only.                                              *)
(***************************************************************************)
EXTENDS Naturals, Sequences, FiniteSets

CONSTANTS
    Missing,     \* what a slot without a file holds
    Bad,         \* a file that does not decode, or is another sled's
    SlotCount,   \* the M.2 drives
    Faults,      \* which of "wipe" (a slot directory is removed), "damage" (a
                 \* file turns corrupt or foreign), "write" and "read" (an I/O
                 \* error), "absent" (slots missing at startup), "cancel" (the
                 \* future of a call is dropped) may happen
    MaxStores,   \* bound on the stores, over all lives
    MaxSeq,      \* bound on the sequence numbers reserved, repairs included
    MaxLives     \* bound on the lives of the server process

Slots == 1 .. SlotCount

ASSUME LockerAssumption ==
    /\ SlotCount \in Nat \ {0}
    /\ MaxStores \in Nat /\ MaxSeq \in Nat /\ MaxLives \in Nat
    /\ Faults \subseteq {"wipe", "damage", "write", "read", "absent", "cancel"}

VARIABLES
    file,      \* what each slot holds
    broken,    \* slots that could not be claimed at startup
    life,      \* the number of this process, which stands for its random nonce
    reserved,  \* Tenant::reserved, locked by the caller
    committed, \* Tenant::committed
    caller,    \* the holder of the guard
    commits,   \* blocking commit tasks, one of them perhaps writing
    known,     \* this life has loaded its record
    stored,    \* history: the number of stores begun
    acked      \* history: the newest record a store reported as stored

vars == <<file, broken, life, reserved, committed, caller, commits, known,
          stored, acked>>

\* An envelope that decodes and names this sled.  One that does not decode
\* (magic, version, fields or digest), or names another sled, is Bad.
Envelope == [nonce : Nat, seq : Nat, record : Nat]

Idle == [op |-> "idle"]
Loading(got) == [op |-> "load", got |-> got]
Storing(seq) == [op |-> "store", seq |-> seq]
Repairing(seq, record) == [op |-> "repair", seq |-> seq, record |-> record]

\* A commit task that writes slot `at` next; 0 before it has the mutex.
Commit(seq, record) == [seq |-> seq, record |-> record, at |-> 0]

Writing == {c \in commits : c.at > 0}

\* The envelope that commit c writes, and the slots that hold one.
Sealed(c) == [nonce |-> life, seq |-> c.seq, record |-> c.record]
Held(s) == file[s] \notin {Missing, Bad}

------------------------------------------------------------------------------
(* The pair rules of Guard::load, given what was read from each slot. *)

Found(got) == {got[s] : s \in {i \in DOMAIN got : got[i] # Missing}}

Newest(found) == CHOOSE e \in found : \A d \in found : d.seq <= e.seq

Agree(found) == \A d, e \in found : d.record = e.record

\* Mutant of Torn: any disagreement is discarded.
NeverTorn(got) == FALSE

\* Slots torn by one process resolve to its newest write.
Torn(got) ==
    /\ \A d, e \in Found(got) : d.nonce = e.nonce
    /\ Cardinality({s \in DOMAIN got : got[s] # Missing
                      /\ got[s].seq = Newest(Found(got)).seq}) = 1

Verdict(got) ==
    IF Bad \in Found(got) THEN "discard"
    ELSE IF Found(got) = {} THEN "empty"
    ELSE IF Agree(Found(got))
         THEN IF \E s \in DOMAIN got : got[s] = Missing THEN "restore" ELSE "adopt"
    ELSE IF Torn(got) THEN "torn" ELSE "discard"

\* The record a verdict other than empty and discard stands for.
Record(got) == Newest(Found(got)).record

------------------------------------------------------------------------------
(* Calls on the tenant. *)

Init ==
    /\ file = [s \in Slots |-> Missing]
    /\ broken = {}
    /\ life = 1
    /\ reserved = 0
    /\ committed = 0
    /\ caller = Idle
    /\ commits = {}
    /\ known = FALSE
    /\ stored = 0
    /\ acked = 0

\* Guard::store: reserve a number and hand the write to a blocking task.
Store ==
    /\ caller = Idle /\ known
    /\ stored < MaxStores /\ reserved < MaxSeq
    /\ stored' = stored + 1
    /\ reserved' = reserved + 1
    /\ commits' = commits \cup {Commit(reserved', stored')}
    /\ caller' = Storing(reserved')
    /\ UNCHANGED <<file, broken, life, committed, known, acked>>

BeginLoad ==
    /\ caller = Idle /\ reserved < MaxSeq
    /\ caller' = Loading(<<>>)
    /\ UNCHANGED <<file, broken, life, reserved, committed, commits, known,
                   stored, acked>>

\* What a read of slot s may find.  The directory of a broken slot is missing,
\* or was put back since.
Readable(s) ==
    {file[s]} \cup (IF s \in broken THEN {Missing} ELSE {})
              \cup (IF "read" \in Faults THEN {Bad} ELSE {})

ReadSlot ==
    /\ caller.op = "load"
    /\ Len(caller.got) < SlotCount
    /\ Bad \notin Found(caller.got)
    /\ \E x \in Readable(Len(caller.got) + 1) :
         caller' = Loading(Append(caller.got, x))
    /\ UNCHANGED <<file, broken, life, reserved, committed, commits, known,
                   stored, acked>>

\* The end of Guard::load: a lone or torn record is stored again at once.
Judge ==
    /\ caller.op = "load"
    /\ Len(caller.got) = SlotCount \/ Bad \in Found(caller.got)
    /\ LET got == caller.got
           verdict == Verdict(got)
           newest == IF Newest(Found(got)).seq > reserved
                     THEN Newest(Found(got)).seq ELSE reserved
       IN CASE verdict \in {"empty", "discard"} ->
                 /\ known' = TRUE
                 /\ caller' = Idle
                 /\ UNCHANGED <<reserved, commits>>
            [] verdict = "adopt" ->
                 /\ known' = TRUE
                 /\ reserved' = newest
                 /\ caller' = Idle
                 /\ UNCHANGED commits
            [] OTHER ->
                 /\ reserved' = newest + 1
                 /\ commits' = commits \cup {Commit(newest + 1, Record(got))}
                 /\ caller' = Repairing(newest + 1, Record(got))
                 /\ UNCHANGED known
    /\ UNCHANGED <<file, broken, life, committed, stored, acked>>

\* The caller's future is dropped.  Its commit task runs on.
Cancel ==
    /\ "cancel" \in Faults
    /\ caller # Idle
    /\ caller' = Idle
    /\ UNCHANGED <<file, broken, life, reserved, committed, commits, known,
                   stored, acked>>

------------------------------------------------------------------------------
(* The blocking side. *)

\* The result of commit c reaches the caller, if it still waits.  A load
\* returns its record whether or not the repair worked.
Return(c, ok) ==
    IF caller.op \in {"store", "repair"} /\ caller.seq = c.seq
    THEN /\ caller' = Idle
         /\ IF caller.op = "repair"
            THEN known' = TRUE /\ UNCHANGED acked
            ELSE /\ acked' = IF ok THEN c.record ELSE acked
                 /\ UNCHANGED known
    ELSE UNCHANGED <<caller, known, acked>>

\* Mutant of BeginCommit: an overtaken commit writes all the same.
BeginCommitAnyway(c) ==
    /\ Writing = {} /\ c.at = 0
    /\ commits' = (commits \ {c}) \cup {[c EXCEPT !.at = 1]}
    /\ UNCHANGED <<file, broken, life, reserved, committed, caller, known,
                   stored, acked>>

\* commit, once it has the mutex.
BeginCommit(c) ==
    /\ Writing = {} /\ c.at = 0
    /\ IF c.seq <= committed
       THEN /\ commits' = commits \ {c}
            /\ Return(c, FALSE)
       ELSE /\ commits' = (commits \ {c}) \cup {[c EXCEPT !.at = 1]}
            /\ UNCHANGED <<caller, known, acked>>
    /\ UNCHANGED <<file, broken, life, reserved, committed, stored>>

\* Slot::write: a whole file is renamed into place, in a directory that is
\* made anew if it was removed.
WriteSlot(c) ==
    /\ c.at > 0 /\ c.at \notin broken
    /\ file' = [file EXCEPT ![c.at] = Sealed(c)]
    /\ IF c.at < SlotCount
       THEN /\ commits' = (commits \ {c}) \cup {[c EXCEPT !.at = @ + 1]}
            /\ UNCHANGED <<committed, caller, known, acked>>
       ELSE /\ commits' = commits \ {c}
            /\ committed' = c.seq
            /\ Return(c, TRUE)
    /\ UNCHANGED <<broken, life, reserved, stored>>

\* Mutant of WriteFails: the write is tried again until it works.
WriteRetried(c) == c.at > 0 /\ c.at \in broken /\ UNCHANGED vars

\* A broken slot, an I/O error, or a heal that fails, ends the commit.
WriteFails(c) ==
    /\ c.at > 0
    /\ c.at \in broken \/ "write" \in Faults
    /\ commits' = commits \ {c}
    /\ Return(c, FALSE)
    /\ UNCHANGED <<file, broken, life, reserved, committed, stored>>

------------------------------------------------------------------------------
(* The environment. *)

Wipe(s) ==
    /\ "wipe" \in Faults /\ file[s] # Missing
    /\ file' = [file EXCEPT ![s] = Missing]
    /\ UNCHANGED <<broken, life, reserved, committed, caller, commits, known,
                   stored, acked>>

Damage(s) ==
    /\ "damage" \in Faults /\ file[s] \notin {Missing, Bad}
    /\ file' = [file EXCEPT ![s] = Bad]
    /\ UNCHANGED <<broken, life, reserved, committed, caller, commits, known,
                   stored, acked>>

\* The process dies, with its blocking tasks.  The next one claims its slots
\* (Locker::new) under a nonce of its own.
Restart ==
    /\ life < MaxLives
    /\ life' = life + 1
    /\ broken' \in IF "absent" \in Faults THEN SUBSET Slots ELSE {{}}
    /\ reserved' = 0
    /\ committed' = 0
    /\ caller' = Idle
    /\ commits' = {}
    /\ known' = FALSE
    /\ UNCHANGED <<file, stored, acked>>

BlockingStep ==
    \E c \in commits : BeginCommit(c) \/ WriteSlot(c) \/ WriteFails(c)

CallerStep == Store \/ BeginLoad \/ ReadSlot \/ Judge \/ Cancel

Next ==
    \/ CallerStep
    \/ BlockingStep
    \/ \E s \in Slots : Wipe(s) \/ Damage(s)
    \/ Restart

Spec == Init /\ [][Next]_vars

\* A load reads on, and blocking tasks run on threads of their own.
FairSpec ==
    /\ Spec
    /\ WF_vars(ReadSlot) /\ WF_vars(Judge)
    /\ WF_vars(BlockingStep)

------------------------------------------------------------------------------
(* Properties. *)

\* The slots, the reservation and the commit tasks have their types.
LockerTypeOK ==
    /\ file \in [Slots -> Envelope \cup {Missing, Bad}]
    /\ broken \subseteq Slots
    /\ life \in Nat /\ reserved \in Nat /\ committed \in Nat
    /\ commits \subseteq [seq : Nat, record : Nat, at : 0 .. SlotCount]
    /\ known \in BOOLEAN
    /\ stored \in Nat /\ acked \in Nat
    /\ \/ caller = Idle
       \/ /\ caller.op = "load" /\ caller = Loading(caller.got)
          /\ caller.got \in Seq(Envelope \cup {Missing, Bad})
       \/ caller = Storing(reserved)
       \/ caller.op = "repair" /\ caller = Repairing(reserved, caller.record)

\* "Must not mistake old records for new": no slot holds a record older than
\* one that a store reported as stored, whatever was lost, damaged, cancelled
\* or cut short; so no load returns an older one either.
NothingOlderThanAcked == \A s \in Slots : Held(s) => file[s].record >= acked

\* What the slots hold: in one life a number is used for one record, and once a
\* commit of this life is complete every slot is of this life.
SlotsOK ==
    \A s \in Slots : Held(s) =>
        /\ file[s].nonce <= life /\ file[s].record <= stored
        /\ committed > 0 => file[s].nonce = life
        /\ file[s].nonce = life =>
             /\ file[s].seq <= reserved
             /\ \A t \in Slots :
                  Held(t) /\ file[t].nonce = life /\ file[t].seq = file[s].seq
                  => file[t].record = file[s].record

\* The commit tasks: one at a time writes, one per number; one that was not
\* overtaken has a current record, and has the slots before its place.
CommitsOK ==
    \A c \in commits :
        /\ c.seq <= reserved /\ c.record <= stored
        /\ c.seq > committed => c.record >= acked
        /\ c.at > 0 => c.seq > committed
        /\ \A d \in commits : c.seq = d.seq \/ (c.at > 0 /\ d.at > 0) => c = d
        /\ \A s \in Slots : Held(s) =>
             /\ file[s].nonce = life /\ file[s].seq = c.seq
                => file[s].record = c.record
             /\ s < c.at => file[s] = Sealed(c)

\* What a load has read so far: current records, one of them the newest.
LoadOK ==
    caller.op = "load" =>
        /\ \A e \in Found(caller.got) \ {Bad} : e.record \in acked .. stored
        /\ Found(caller.got) = {} \/ Bad \in Found(caller.got)
           \/ \E e \in Found(caller.got) :
                 \A d \in Found(caller.got) : d.seq <= e.seq

\* The storage is well formed and never holds less than was acknowledged.
LockerInv ==
    /\ LockerTypeOK /\ acked <= stored
    /\ NothingOlderThanAcked
    /\ SlotsOK /\ CommitsOK /\ LoadOK

\* "Slots torn by one process resolve to its newest write": once a process has
\* completed a store, a crash between any two writes, a failed write or a
\* lost slot leaves a record that the next load accepts, and a current one.
\* (Before that, the slots still carry the nonce of an earlier process, and
\* a crash between the two writes of its first store costs the record.)
RecordSurvivesCrash ==
    /\ committed > 0
    /\ \A s \in Slots : file[s] # Bad
    /\ \E s \in Slots : file[s] # Missing
    => Verdict(file) \in {"adopt", "restore", "torn"} /\ Record(file) >= acked

\* Every load and store returns, cancelled calls before it or not.
CallsReturn == (caller # Idle) ~> (caller = Idle)
==============================================================================
