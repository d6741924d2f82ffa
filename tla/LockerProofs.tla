----------------------------- MODULE LockerProofs -----------------------------
(***************************************************************************)
(* Proofs about Locker, for every number of slots and stores, every set of *)
(* faults and every bound: no slot ever holds a record older than one that *)
(* was acknowledged; and with at most two slots, the slots of a process    *)
(* that completed a store resolve to a record.                             *)
(***************************************************************************)
EXTENDS Locker, FiniteSetTheorems, TLAPS

USE DEF Slots, Idle, Loading, Storing, Repairing, Commit

\* The invariant holds when the store is new.
LEMMA LockerInit == Init => LockerInv
<1> SUFFICES ASSUME Init PROVE LockerInv
  OBVIOUS
<1> USE LockerAssumption
<1>1. LockerTypeOK /\ acked <= stored
  <2>1. file \in [Slots -> Envelope \cup {Missing, Bad}]
    BY DEF Init
  <2>2. caller = Idle /\ commits = {} /\ broken = {}
    BY DEF Init
  <2>3. /\ life \in Nat /\ reserved \in Nat /\ committed \in Nat
        /\ stored \in Nat /\ acked \in Nat /\ acked <= stored
    BY DEF Init
  <2>4. known \in BOOLEAN
    BY Zenon DEF Init
  <2> QED BY <2>1, <2>2, <2>3, <2>4 DEF LockerTypeOK
<1>2. NothingOlderThanAcked /\ SlotsOK /\ CommitsOK /\ LoadOK
  BY DEF Init, NothingOlderThanAcked, SlotsOK, CommitsOK, LoadOK, Held
<1> QED BY <1>1, <1>2 DEF LockerInv

\* Guard::store reserves a number above all others, for a record newer than all.
LEMMA StoreInv == LockerInv /\ Store => LockerInv'
<1> SUFFICES ASSUME LockerInv, Store PROVE LockerInv'
  OBVIOUS
<1> USE LockerAssumption
<1> DEFINE new == Commit(reserved + 1, stored + 1)
<1>1. /\ caller = Idle /\ stored' = stored + 1 /\ reserved' = reserved + 1
      /\ commits' = commits \cup {new} /\ caller' = Storing(reserved + 1)
      /\ UNCHANGED <<file, broken, life, committed, known, acked>>
  BY DEF Store
<1>2. LockerTypeOK' /\ acked' <= stored'
  BY <1>1 DEF LockerInv, LockerTypeOK
<1>3. NothingOlderThanAcked' /\ SlotsOK'
  BY <1>1 DEF LockerInv, LockerTypeOK, NothingOlderThanAcked, SlotsOK, Held, Envelope
<1>4. CommitsOK'
  BY <1>1 DEF LockerInv, LockerTypeOK, SlotsOK, CommitsOK, Held, Sealed, Envelope
<1>5. LoadOK'
  BY <1>1 DEF LoadOK
<1> QED BY <1>2, <1>3, <1>4, <1>5 DEF LockerInv

\* Steps that leave the storage and the commit tasks alone.
LEMMA CallerOnly ==
    ASSUME LockerInv, LockerTypeOK', LoadOK',
           reserved' >= reserved,
           UNCHANGED <<file, life, committed, commits, stored, acked>>
    PROVE  LockerInv'
BY DEF LockerInv, LockerTypeOK, NothingOlderThanAcked, SlotsOK, CommitsOK, Held, Sealed,
       Envelope

\* A load that begins keeps the invariant.
LEMMA BeginLoadInv == LockerInv /\ BeginLoad => LockerInv'
<1> SUFFICES ASSUME LockerInv, BeginLoad PROVE LockerInv'
  OBVIOUS
<1>1. LockerTypeOK' /\ LoadOK'
  BY DEF BeginLoad, LockerInv, LockerTypeOK, LoadOK, Found
<1> QED BY <1>1, CallerOnly DEF BeginLoad, LockerInv, LockerTypeOK

\* Cancelling what is under way keeps the invariant.
LEMMA CancelInv == LockerInv /\ Cancel => LockerInv'
<1> SUFFICES ASSUME LockerInv, Cancel PROVE LockerInv'
  OBVIOUS
<1>1. LockerTypeOK' /\ LoadOK'
  BY DEF Cancel, LockerInv, LockerTypeOK, LoadOK
<1> QED BY <1>1, CallerOnly DEF Cancel, LockerInv, LockerTypeOK

\* What reading one more slot adds to what a load has found.
LEMMA FoundAppend ==
    ASSUME NEW S, NEW got \in Seq(S), NEW x \in S
    PROVE  Found(Append(got, x)) = Found(got) \cup ({x} \ {Missing})
<1> DEFINE more == Append(got, x)
<1>1. /\ DOMAIN got = 1 .. Len(got) /\ DOMAIN more = 1 .. Len(got) + 1
      /\ Len(got) \in Nat
      /\ more[Len(got) + 1] = x /\ \A i \in 1 .. Len(got) : more[i] = got[i]
  OBVIOUS
<1> HIDE DEF more
<1>2. Found(got) = {got[i] : i \in {j \in 1 .. Len(got) : got[j] # Missing}}
  BY <1>1 DEF Found
<1>3. Found(more) = {more[i] : i \in {j \in 1 .. Len(got) + 1 : more[j] # Missing}}
  BY <1>1 DEF Found
<1>4. \A e \in Found(more) : e \in Found(got) \cup ({x} \ {Missing})
  BY <1>1, <1>2, <1>3
<1>5. \A e \in Found(got) \cup ({x} \ {Missing}) : e \in Found(more)
  BY <1>1, <1>2, <1>3
<1> QED BY <1>4, <1>5 DEF more

\* Reading a slot keeps the invariant.
LEMMA ReadSlotInv == LockerInv /\ ReadSlot => LockerInv'
<1> SUFFICES ASSUME LockerInv, ReadSlot PROVE LockerInv'
  OBVIOUS
<1> USE LockerAssumption
<1> DEFINE S == Envelope \cup {Missing, Bad}
           got == caller.got
<1>1. got \in Seq(S) /\ Len(got) + 1 \in Slots /\ Bad \notin Found(got)
  BY DEF ReadSlot, LockerInv, LockerTypeOK
<1>2. PICK x \in Readable(Len(got) + 1) : caller' = Loading(Append(got, x))
  BY Zenon DEF ReadSlot
<1>3. x \in {file[Len(got) + 1], Missing, Bad} /\ x \in S
  BY <1>1, <1>2 DEF Readable, LockerInv, LockerTypeOK
<1>4. x \notin {Missing, Bad} => x.record \in acked .. stored /\ x.seq \in Nat
  BY <1>1, <1>3 DEF LockerInv, LockerTypeOK, NothingOlderThanAcked, SlotsOK, Held, Envelope
<1>5. caller'.got = Append(got, x) /\ Found(caller'.got) = Found(got) \cup ({x} \ {Missing})
  BY <1>1, <1>2, <1>3, FoundAppend
<1>6. \A e \in Found(got) : e \in Envelope
  BY <1>1 DEF Found
<1>7. LockerTypeOK'
  BY <1>1, <1>2, <1>3 DEF ReadSlot, LockerInv, LockerTypeOK
<1>8. acked' = acked /\ stored' = stored
  BY DEF ReadSlot
<1>9. \A e \in Found(got) \ {Bad} : e.record \in acked .. stored
  BY DEF LockerInv, LoadOK, ReadSlot
<1>10. \A e \in Found(caller'.got) \ {Bad} : e.record \in acked' .. stored'
  BY <1>4, <1>5, <1>8, <1>9
<1>11. Found(got) = {} \/ \E e \in Found(got) : \A d \in Found(got) : d.seq <= e.seq
  BY <1>1 DEF LockerInv, LoadOK, ReadSlot
<1>12. \/ Found(caller'.got) = {} \/ Bad \in Found(caller'.got)
       \/ \E e \in Found(caller'.got) : \A d \in Found(caller'.got) : d.seq <= e.seq
  <2>1. CASE x \in {Missing, Bad}
    BY <2>1, <1>5, <1>11
  <2>2. CASE x \notin {Missing, Bad} /\ Found(got) = {}
    <3>1. Found(caller'.got) = {x}
      BY <2>2, <1>5
    <3> QED BY <3>1, <2>2, <1>4
  <2>3. CASE x \notin {Missing, Bad} /\ Found(got) # {}
    <3>1. PICK e \in Found(got) : \A d \in Found(got) : d.seq <= e.seq
      BY <2>3, <1>11
    <3>2. e.seq \in Nat /\ \A d \in Found(got) : d.seq \in Nat
      BY <1>6 DEF Envelope
    <3>3. Found(caller'.got) = Found(got) \cup {x}
      BY <2>3, <1>5
    <3>4. CASE x.seq <= e.seq
      BY <3>1, <3>3, <3>4
    <3>5. CASE e.seq <= x.seq
      BY <3>1, <3>2, <3>3, <3>5, <2>3, <1>4
    <3> QED BY <3>2, <3>4, <3>5, <2>3, <1>4
  <2> QED BY <2>1, <2>2, <2>3
<1>13. LoadOK'
  BY <1>10, <1>12 DEF LoadOK
<1>14. /\ UNCHANGED <<file, life, committed, commits, stored, acked>>
       /\ reserved' >= reserved
  BY DEF ReadSlot, LockerInv, LockerTypeOK
<1> QED BY <1>7, <1>13, <1>14, CallerOnly

\* A verdict that keeps a record is given on envelopes, the newest among them.
LEMMA NewestFound ==
    ASSUME LockerInv, caller.op = "load",
           Verdict(caller.got) \notin {"empty", "discard"}
    PROVE  LET e == Newest(Found(caller.got))
           IN  e \in Envelope /\ e.record \in acked .. stored
<1> DEFINE found == Found(caller.got)
<1>1. Bad \notin found /\ found # {}
  BY DEF Verdict
<1>2. \E e \in found : \A d \in found : d.seq <= e.seq
  BY <1>1 DEF LockerInv, LoadOK
<1>3. Newest(found) \in found
  BY <1>2 DEF Newest
<1>4. caller.got \in Seq(Envelope \cup {Missing, Bad})
  BY DEF LockerInv, LockerTypeOK
<1>5. found \subseteq Envelope
  BY <1>1, <1>4 DEF Found
<1> QED BY <1>1, <1>3, <1>5 DEF LockerInv, LoadOK

\* Judging the slots that were read keeps the invariant.
LEMMA JudgeInv == LockerInv /\ Judge => LockerInv'
<1> SUFFICES ASSUME LockerInv, Judge PROVE LockerInv'
  OBVIOUS
<1> USE LockerAssumption
<1> DEFINE found == Found(caller.got)
           verdict == Verdict(caller.got)
           newest == IF Newest(found).seq > reserved THEN Newest(found).seq
                     ELSE reserved
           record == Record(caller.got)
<1>1. /\ caller.op = "load"
      /\ UNCHANGED <<file, broken, life, committed, stored, acked>>
  BY DEF Judge
<1>2. known' \in BOOLEAN
  BY Zenon DEF Judge, LockerInv, LockerTypeOK
<1>3. CASE verdict \in {"empty", "discard"}
  <2>1. caller' = Idle /\ UNCHANGED <<reserved, commits>>
    BY <1>3 DEF Judge
  <2>2. LockerTypeOK' /\ LoadOK'
    BY <1>1, <1>2, <2>1 DEF LockerInv, LockerTypeOK, LoadOK
  <2>3. reserved' >= reserved
    BY <2>1 DEF LockerInv, LockerTypeOK
  <2> QED BY <1>1, <2>1, <2>2, <2>3, CallerOnly
<1>4. CASE verdict \notin {"empty", "discard"}
  <2>1. Newest(found) \in Envelope /\ record \in acked .. stored
    BY <1>1, <1>4, NewestFound DEF Record
  <2>2. newest \in Nat /\ newest >= reserved
    BY <2>1 DEF Envelope, LockerInv, LockerTypeOK
  <2>3. CASE verdict = "adopt"
    <3>1. caller' = Idle /\ reserved' = newest /\ UNCHANGED commits
      BY <2>3 DEF Judge
    <3> HIDE DEF newest
    <3>2. LockerTypeOK' /\ LoadOK'
      BY <1>1, <1>2, <2>2, <3>1 DEF LockerInv, LockerTypeOK, LoadOK
    <3> QED BY <1>1, <2>2, <3>1, <3>2, CallerOnly
  <2>4. CASE verdict # "adopt"
    <3>1. /\ reserved' = newest + 1
          /\ commits' = commits \cup {Commit(newest + 1, record)}
          /\ caller' = Repairing(newest + 1, record)
      BY <1>4, <2>4 DEF Judge
    <3> HIDE DEF newest, record
    <3>2. LockerTypeOK' /\ acked' <= stored'
      BY <1>1, <1>2, <2>1, <2>2, <3>1 DEF LockerInv, LockerTypeOK
    <3>3. NothingOlderThanAcked' /\ SlotsOK'
      BY <1>1, <2>2, <3>1
      DEF LockerInv, LockerTypeOK, NothingOlderThanAcked, SlotsOK, Held, Envelope
    <3>4. CommitsOK'
      <4> DEFINE new == Commit(newest + 1, record)
      <4>1. \A c \in commits : c.seq \in Nat /\ c.seq < new.seq /\ c.record \in Nat
        BY <2>2 DEF LockerInv, LockerTypeOK, CommitsOK
      <4>2. \A s \in Slots : Held(s) /\ file[s].nonce = life => file[s].seq # new.seq
        BY <2>2 DEF LockerInv, LockerTypeOK, SlotsOK, Held, Envelope
      <4>3. /\ new.seq = newest + 1 /\ new.record \in acked .. stored /\ new.at = 0
            /\ \A s \in Slots : ~(s < new.at)
        BY <2>1
      <4> HIDE DEF new
      <4> QED BY <1>1, <2>2, <3>1, <4>1, <4>2, <4>3
              DEF LockerInv, LockerTypeOK, CommitsOK, Held, Sealed, new
    <3>5. LoadOK'
      BY <3>1 DEF LoadOK
    <3> QED BY <3>2, <3>3, <3>4, <3>5 DEF LockerInv
  <2> QED BY <2>3, <2>4
<1> QED BY <1>3, <1>4

\* A commit task that ends without having written its last slot.
LEMMA CommitEnds ==
    ASSUME LockerInv, NEW c \in commits, commits' = commits \ {c},
           Return(c, FALSE), 
           UNCHANGED <<file, broken, life, reserved, committed, stored>>
    PROVE  LockerInv'
<1>1. acked' = acked /\ caller' \in {caller, Idle}
  BY DEF Return
<1>2. known' \in BOOLEAN
  BY Zenon DEF Return, LockerInv, LockerTypeOK
<1>3. LockerTypeOK' /\ LoadOK'
  BY <1>1, <1>2 DEF LockerInv, LockerTypeOK, LoadOK
<1>4. NothingOlderThanAcked' /\ SlotsOK' /\ CommitsOK'
  BY <1>1 DEF LockerInv, LockerTypeOK, NothingOlderThanAcked, SlotsOK, CommitsOK,
              Held, Sealed
<1> QED BY <1>1, <1>3, <1>4 DEF LockerInv

\* A write that fails keeps the invariant.
LEMMA WriteFailsInv == \A c \in commits : LockerInv /\ WriteFails(c) => LockerInv'
BY CommitEnds, Zenon DEF WriteFails

\* commit, once it has the mutex: an overtaken one ends here.
LEMMA BeginCommitInv == \A c \in commits : LockerInv /\ BeginCommit(c) => LockerInv'
<1> SUFFICES ASSUME NEW c \in commits, LockerInv, BeginCommit(c) PROVE LockerInv'
  OBVIOUS
<1> USE LockerAssumption
<1>1. CASE c.seq <= committed
  BY <1>1, CommitEnds, Zenon DEF BeginCommit
<1>2. CASE ~(c.seq <= committed)
  <2> DEFINE new == [c EXCEPT !.at = 1]
  <2>1. /\ commits' = (commits \ {c}) \cup {new}
        /\ UNCHANGED vars \/ UNCHANGED <<file, broken, life, reserved, committed, stored,
                                        caller, known, acked>>
        /\ \A d \in commits : d.at = 0
    BY <1>2 DEF BeginCommit, Writing, LockerInv, LockerTypeOK
  <2>2. /\ new \in [seq : Nat, record : Nat, at : 0 .. SlotCount]
        /\ new.seq = c.seq /\ new.record = c.record /\ new.at = 1
        /\ c.seq \in Nat /\ committed \in Nat
    BY DEF LockerInv, LockerTypeOK
  <2> HIDE DEF new
  <2>3. LockerTypeOK' /\ LoadOK'
    BY <2>1, <2>2 DEF LockerInv, LockerTypeOK, LoadOK, vars
  <2>4. NothingOlderThanAcked' /\ SlotsOK'
    BY <2>1 DEF LockerInv, NothingOlderThanAcked, SlotsOK, Held, vars
  <2>5. CommitsOK'
    BY <1>2, <2>1, <2>2 DEF LockerInv, CommitsOK, Held, Sealed, vars
  <2> QED BY <2>1, <2>3, <2>4, <2>5 DEF LockerInv, vars
<1> QED BY <1>1, <1>2

\* One slot is written.  Nothing else writes, so the slots before it are this
\* commit's own; the last one completes it, and overtakes all others.
LEMMA WriteSlotInv == \A c \in commits : LockerInv /\ WriteSlot(c) => LockerInv'
<1> SUFFICES ASSUME NEW c \in commits, LockerInv, WriteSlot(c) PROVE LockerInv'
  OBVIOUS
<1> USE LockerAssumption
<1> DEFINE new == Sealed(c)
<1>1. /\ c \in [seq : Nat, record : Nat, at : 0 .. SlotCount] /\ c.at \in Slots
      /\ c.seq > committed /\ c.seq <= reserved
      /\ c.record \in acked .. stored
      /\ UNCHANGED <<broken, life, reserved, stored>>
  BY DEF WriteSlot, LockerInv, LockerTypeOK, CommitsOK
<1>2. /\ new \in Envelope /\ new.nonce = life /\ new.seq = c.seq /\ new.record = c.record
  BY <1>1 DEF Sealed, Envelope, LockerInv, LockerTypeOK
<1>3. /\ file' = [file EXCEPT ![c.at] = new]
      /\ file' \in [Slots -> Envelope \cup {Missing, Bad}]
      /\ file'[c.at] = new /\ \A s \in Slots \ {c.at} : file'[s] = file[s]
  BY <1>1, <1>2 DEF WriteSlot, LockerInv, LockerTypeOK
<1>4. \A d \in commits : d.at > 0 => d = c
  BY <1>1 DEF LockerInv, CommitsOK, LockerTypeOK
<1> HIDE DEF new
<1>5. CASE c.at < SlotCount
  <2> DEFINE next == [c EXCEPT !.at = @ + 1]
  <2>1. /\ commits' = (commits \ {c}) \cup {next}
        /\ UNCHANGED <<committed, caller, known, acked>>
    BY <1>5 DEF WriteSlot
  <2>2. /\ next \in [seq : Nat, record : Nat, at : 0 .. SlotCount]
        /\ next.seq = c.seq /\ next.record = c.record /\ next.at = c.at + 1
        /\ Sealed(next)' = new
    BY <1>1, <1>5 DEF new, Sealed
  <2> HIDE DEF next
  <2>3. LockerTypeOK' /\ LoadOK' /\ acked' <= stored'
    BY <1>1, <1>3, <2>1, <2>2 DEF LockerInv, LockerTypeOK, LoadOK
  <2>4. NothingOlderThanAcked' /\ SlotsOK'
    BY <1>1, <1>2, <1>3, <2>1
    DEF LockerInv, LockerTypeOK, NothingOlderThanAcked, SlotsOK, CommitsOK, Held, Envelope
  <2>5. CommitsOK'
    <3>1. \A d \in commits \ {c} : d.at = 0 /\ d.seq # c.seq
      BY <1>4 DEF LockerInv, LockerTypeOK, CommitsOK
    <3>2. \A s \in Slots : s < next.at /\ Held(s)' => file'[s] = new
      BY <1>1, <1>3, <2>2 DEF LockerInv, CommitsOK, Held, new
    <3>3. \A s \in Slots : /\ Held(s)' /\ file'[s].nonce = life /\ file'[s].seq = next.seq
                           => file'[s].record = next.record
      BY <1>2, <1>3, <2>2 DEF LockerInv, CommitsOK, Held
    <3>4. \A d \in commits \ {c}, s \in Slots :
             /\ Held(s)' /\ file'[s].nonce = life /\ file'[s].seq = d.seq
             => file'[s].record = d.record
      BY <1>2, <1>3, <3>1 DEF LockerInv, CommitsOK, Held
    <3>5. \A s \in Slots, d \in commits \ {c} : ~(s < d.at)
      BY <3>1
    <3> QED BY <1>1, <2>1, <2>2, <3>1, <3>2, <3>3, <3>4, <3>5
            DEF LockerInv, LockerTypeOK, CommitsOK
  <2> QED BY <2>3, <2>4, <2>5 DEF LockerInv
<1>6. CASE c.at = SlotCount
  <2>1. commits' = commits \ {c} /\ committed' = c.seq /\ Return(c, TRUE)
    <3>1. ~(c.at < SlotCount)
      BY <1>6
    <3> QED BY <3>1, Zenon DEF WriteSlot
  <2>2. /\ caller' \in {caller, Idle} /\ acked' \in {acked, c.record}
        /\ acked' # acked => c.seq = reserved
    <3>1. caller.op \in {"store", "repair"} => caller.seq = reserved
      BY DEF LockerInv, LockerTypeOK
    <3> QED BY <2>1, <3>1 DEF Return
  <2>3. known' \in BOOLEAN
    BY <2>1, Zenon DEF Return, LockerInv, LockerTypeOK
  <2>4. LockerTypeOK' /\ acked' <= stored'
    BY <1>1, <1>3, <2>1, <2>2, <2>3 DEF LockerInv, LockerTypeOK
  <2>5. LoadOK'
    BY <1>1, <2>1, <2>2 DEF Return, LockerInv, LockerTypeOK, LoadOK
  <2>6. \A s \in Slots : Held(s)' => file'[s] = new
    BY <1>1, <1>3, <1>6 DEF LockerInv, CommitsOK, Held, new
  <2>7. NothingOlderThanAcked' /\ SlotsOK'
    <3>1. NothingOlderThanAcked'
      BY <1>1, <1>2, <2>1, <2>2, <2>6
      DEF LockerInv, LockerTypeOK, NothingOlderThanAcked, Held
    <3>2. SlotsOK'
      BY <1>1, <1>2, <2>1, <2>2, <2>6 DEF LockerInv, LockerTypeOK, SlotsOK, Held
    <3> QED BY <3>1, <3>2
  <2>8. CommitsOK'
    <3>1. \A d \in commits' : d.at = 0 /\ d.seq # c.seq
      BY <1>4, <2>1 DEF LockerInv, LockerTypeOK, CommitsOK
    <3>2. \A d \in commits' : d.seq > committed' => d.record >= acked'
      BY <1>1, <2>1, <2>2 DEF LockerInv, LockerTypeOK, CommitsOK
    <3> QED BY <1>1, <1>2, <2>1, <2>6, <3>1, <3>2 DEF LockerInv, LockerTypeOK, CommitsOK
  <2> QED BY <2>4, <2>5, <2>7, <2>8 DEF LockerInv
<1> QED BY <1>1, <1>5, <1>6

\* A slot that loses its file, or whose file turns bad, holds no envelope.
LEMMA SlotLost ==
    ASSUME LockerInv, NEW s \in Slots, NEW x \in {Missing, Bad},
           file' = [file EXCEPT ![s] = x],
           UNCHANGED <<broken, life, reserved, committed, caller, commits, known, stored,
                       acked>>
    PROVE  LockerInv'
<1>1. /\ file' \in [Slots -> Envelope \cup {Missing, Bad}]
      /\ \A t \in Slots : Held(t)' => Held(t) /\ file'[t] = file[t]
  BY DEF LockerInv, LockerTypeOK, Held
<1>2. LockerTypeOK' /\ LoadOK'
  BY <1>1 DEF LockerInv, LockerTypeOK, LoadOK
<1>3. NothingOlderThanAcked' /\ SlotsOK'
  BY <1>1 DEF LockerInv, NothingOlderThanAcked, SlotsOK
<1>4. CommitsOK'
  BY <1>1 DEF LockerInv, CommitsOK, Sealed
<1> QED BY <1>2, <1>3, <1>4 DEF LockerInv

\* The next process starts with nothing in memory and a nonce of its own.
LEMMA RestartInv == LockerInv /\ Restart => LockerInv'
<1> SUFFICES ASSUME LockerInv, Restart PROVE LockerInv'
  OBVIOUS
<1> USE LockerAssumption
<1>1. /\ life' = life + 1 /\ reserved' = 0 /\ committed' = 0 /\ caller' = Idle
      /\ commits' = {} /\ broken' \subseteq Slots /\ UNCHANGED <<file, stored, acked>>
  BY DEF Restart
<1>2. known' \in BOOLEAN
  BY Zenon DEF Restart
<1>3. LockerTypeOK' /\ LoadOK'
  BY <1>1, <1>2 DEF LockerInv, LockerTypeOK, LoadOK
<1>4. NothingOlderThanAcked' /\ SlotsOK' /\ CommitsOK'
  BY <1>1
  DEF LockerInv, LockerTypeOK, NothingOlderThanAcked, SlotsOK, CommitsOK, Held, Envelope
<1> QED BY <1>1, <1>3, <1>4 DEF LockerInv

\* Every step keeps the invariant.
LEMMA LockerStep == LockerInv /\ [Next]_vars => LockerInv'
<1> SUFFICES ASSUME LockerInv, [Next]_vars PROVE LockerInv'
  OBVIOUS
<1>1. CASE CallerStep
  BY <1>1, StoreInv, BeginLoadInv, ReadSlotInv, JudgeInv, CancelInv DEF CallerStep
<1>2. CASE BlockingStep
  BY <1>2, BeginCommitInv, WriteSlotInv, WriteFailsInv DEF BlockingStep
<1>3. CASE \E s \in Slots : Wipe(s) \/ Damage(s)
  BY <1>3, SlotLost DEF Wipe, Damage
<1>4. CASE Restart
  BY <1>4, RestartInv
<1>5. CASE UNCHANGED vars
  BY <1>5 DEF vars, LockerInv, LockerTypeOK, NothingOlderThanAcked, SlotsOK, CommitsOK,
              LoadOK, Held, Sealed
<1> QED BY <1>1, <1>2, <1>3, <1>4, <1>5 DEF Next

\* The inductive invariant: one commit at a time writes, an overtaken one never
\* does, and what a load found is current.
THEOREM LockerInvariant == Spec => []LockerInv
<1>1. Init => LockerInv
  BY LockerInit
<1>2. LockerInv /\ [Next]_vars => LockerInv'
  BY LockerStep
<1> QED BY <1>1, <1>2, PTL DEF Spec

\* However many slots there are, and whatever is lost, damaged, cancelled or cut
\* short, no slot holds a record older than one that Guard::store reported as
\* stored, in this process or an earlier one.
THEOREM NothingOlder == Spec => []NothingOlderThanAcked
<1>1. LockerInv => NothingOlderThanAcked
  BY DEF LockerInv
<1> QED BY <1>1, LockerInvariant, PTL

\* With one slot, or two as on a sled, the slots of a process that completed a
\* commit hold one record, or two of which one is newer: the pair rules of
\* Guard::load accept them.
LEMMA PairResolves ==
    ASSUME SlotCount <= 2, LockerInv
    PROVE  RecordSurvivesCrash
<1> SUFFICES ASSUME committed > 0, \A s \in Slots : file[s] # Bad,
                    NEW t \in Slots, file[t] # Missing
             PROVE  /\ Verdict(file) \in {"adopt", "restore", "torn"}
                    /\ Record(file) >= acked
  BY DEF RecordSurvivesCrash
<1> USE LockerAssumption
<1> DEFINE held == {s \in Slots : file[s] # Missing}
           found == {file[s] : s \in held}
<1>1. Found(file) = found
  BY DEF Found, LockerInv, LockerTypeOK
<1>2. \A s \in held : /\ file[s] \in Envelope /\ Held(s) /\ file[s].nonce = life
                      /\ file[s].record >= acked
  BY DEF LockerInv, LockerTypeOK, NothingOlderThanAcked, SlotsOK, Held
<1>3. Bad \notin found /\ found # {}
  OBVIOUS
<1>4. \A s \in Slots : s = t \/ \A u \in Slots : u \in {s, t}
  OBVIOUS
<1>5. PICK n \in held : \A s \in held : file[s].seq <= file[n].seq
  <2>1. CASE \A s \in held : file[s].seq <= file[t].seq
    BY <2>1
  <2>2. CASE ~ \A s \in held : file[s].seq <= file[t].seq
    <3>1. PICK n \in held : ~(file[n].seq <= file[t].seq)
      BY <2>2
    <3>2. \A s \in held : file[s].seq \in Nat
      BY <1>2 DEF Envelope
    <3>3. \A s \in held : s \in {n, t}
      BY <1>4, <3>1, <3>2
    <3> QED BY <3>1, <3>2, <3>3
  <2> QED BY <2>1, <2>2
<1>6. /\ Newest(found) \in found
      /\ \A s \in held : file[s].seq <= Newest(found).seq
  <2>1. file[n] \in found /\ \A d \in found : d.seq <= file[n].seq
    BY <1>5
  <2>2. Newest(found) \in found /\ \A d \in found : d.seq <= Newest(found).seq
    BY <2>1 DEF Newest
  <2> QED BY <2>2
<1>7. PICK m \in held : Newest(found) = file[m]
  BY <1>6
<1>8. Record(file) >= acked
  BY <1>1, <1>2, <1>7 DEF Record
<1>9. CASE Agree(found)
  BY <1>1, <1>3, <1>8, <1>9 DEF Verdict
<1>10. CASE ~Agree(found)
  <2>1. PICK r, s \in held : file[r].record # file[s].record
    BY <1>10 DEF Agree
  <2>2. r # s /\ file[r].seq # file[s].seq
    BY <1>2, <2>1 DEF LockerInv, SlotsOK
  <2>3. held = {r, s}
    BY <2>2
  <2>4. {i \in held : file[i].seq = file[m].seq} = {m}
    BY <2>2, <2>3
  <2>5. {i \in DOMAIN file : file[i] # Missing /\ file[i].seq = Newest(Found(file)).seq}
          = {i \in held : file[i].seq = file[m].seq}
    BY <1>1, <1>7, Zenon DEF LockerInv, LockerTypeOK
  <2>6. Cardinality({m}) = 1
    BY FS_Singleton, Zenon
  <2>7. Torn(file)
    BY <1>1, <1>2, <2>4, <2>5, <2>6, Zenon DEF Torn
  <2> QED BY <1>1, <1>3, <1>8, <1>10, <2>7 DEF Verdict
<1> QED BY <1>9, <1>10

\* "Slots torn by one process resolve to its newest write" (Guard::load): with at
\* most two slots, once the running process has completed a store, what a crash, a
\* failed write or a lost slot leaves, if no slot is damaged, is accepted by the
\* next load and is current.  Before its first completed store nothing is claimed.
THEOREM TornResolves ==
    ASSUME SlotCount <= 2
    PROVE  Spec => []RecordSurvivesCrash
<1>1. LockerInv => RecordSurvivesCrash
  BY PairResolves
<1> QED BY <1>1, LockerInvariant, PTL
===============================================================================
