---------------------------- MODULE GossipProofs ----------------------------
(***************************************************************************)
(* For every set of peers, every peer set they are given and any number of *)
(* disturbances: the managers' books agree with the drivers and joins that *)
(* run, no two managers owe each other a join, and no peer has spoken in a *)
(* universe that its bookmark record does not name.                        *)
(***************************************************************************)
EXTENDS Gossip, FiniteSetTheorems, NaturalsInduction, WellFoundedInduction, TLAPS

End == [at : Held, net : Networks \cup {0}]

-----------------------------------------------------------------------------
(* Links and their ends.                                                   *)

\* A link is a dialer, the lower-numbered peer that it dials, and a slot.
LEMMA LinkType ==
    ASSUME NEW l \in Links
    PROVE  /\ l = <<l[1], l[2], l[3]>> /\ l[1] \in Peers /\ l[2] \in Peers
           /\ l[1] \in Nat /\ l[2] \in Nat /\ l[2] < l[1] /\ l[2] \in Known[l[1]]
           /\ l[3] \in Slots[l[2]] /\ l[3] \in Nat /\ l[3] # 0
<1> DEFINE S == UNION Range(Slots)
<1>1. l \in Peers \X Peers \X S /\ l[2] < l[1] /\ l[2] \in Known[l[1]] /\ l[3] \in Slots[l[2]]
  BY DEF Links
<1> HIDE DEF S
<1>2. l = <<l[1], l[2], l[3]>> /\ l[1] \in Peers /\ l[2] \in Peers
  BY <1>1
<1>3. Peers \subseteq Nat /\ Slots[l[2]] \subseteq Nat \ {0}
  BY <1>2, GossipAssumption
<1> QED BY <1>1, <1>2, <1>3, Zenon

\* A link joins p to the peer at its far end.
LEMMA FarType ==
    ASSUME NEW l \in Links, NEW p \in EndsOf(l)
    PROVE  /\ p \in Peers /\ Far(l, p) \in Peers /\ Far(l, p) # p
           /\ EndsOf(l) = {p, Far(l, p)}
           /\ l[3] \in Slots[IF Far(l, p) < p THEN Far(l, p) ELSE p]
           /\ l = LinkTo(p, Far(l, p), l[3])
BY LinkType DEF EndsOf, Far, LinkTo

\* The link between two peers in one slot is one.
LEMMA SameLink ==
    ASSUME NEW l \in Links, NEW k \in Links, NEW p,
           p \in EndsOf(l), p \in EndsOf(k), Far(l, p) = Far(k, p), l[3] = k[3]
    PROVE  l = k
BY FarType

\* Replacing one end leaves every other.
LEMMA WithEndType ==
    ASSUME NEW es, WellFormed(es), NEW l \in Links, NEW p \in EndsOf(l), NEW e \in End
    PROVE  /\ WellFormed(WithEnd(es, l, p, e))
           /\ WithEnd(es, l, p, e)[l][p] = e
           /\ \A k \in Links : \A r \in EndsOf(k) :
                k # l \/ r # p => WithEnd(es, l, p, e)[k][r] = es[k][r]
<1> DEFINE new == WithEnd(es, l, p, e)
<1>1. es[l] \in [EndsOf(l) -> End]
  BY DEF WellFormed, End
<1>2. new = [es EXCEPT ![l] = [es[l] EXCEPT ![p] = e]]
  BY DEF WithEnd, WellFormed
<1>3. [es[l] EXCEPT ![p] = e] \in [EndsOf(l) -> End]
  BY <1>1
<1>4. DOMAIN new = Links /\ new[l] = [es[l] EXCEPT ![p] = e]
  BY <1>2 DEF WellFormed
<1>5. \A k \in Links : k # l => new[k] = es[k]
  BY <1>2 DEF WellFormed
<1>6. WellFormed(new)
  BY <1>3, <1>4, <1>5 DEF WellFormed, End
<1>7. new[l][p] = e /\ \A r \in EndsOf(l) : r # p => new[l][r] = es[l][r]
  BY <1>1, <1>4
<1> HIDE DEF new
<1> QED BY <1>5, <1>6, <1>7 DEF new

\* An end that is held, and one that is gone, are ends.
LEMMA HoldingType ==
    ASSUME NEW at \in Held
    PROVE  /\ Holding(at) \in End /\ Holding(at).at = at
           /\ Gone \in End /\ Gone.at = "gone"
BY DEF Holding, Gone, End, Held

-----------------------------------------------------------------------------
(* What a step of one manager has to show.                                 *)

Books1(es, p, m) ==
    /\ m \in Books /\ BooksOf(p, m)
    /\ DriversOnTheBooks(es, p, m) /\ JoinsOnTheBooks(es, p, m)

\* Only ends of p differ.
Only(es, new, p) ==
    /\ WellFormed(new)
    /\ \A k \in Links : \A r \in EndsOf(k) : r # p => new[k][r] = es[k][r]

\* The ends of p that differ neither drive, join nor report now, and did not
\* join before.
Quieter(es, new, p) ==
    \A k \in Links : p \in EndsOf(k) =>
      \/ new[k][p] = es[k][p]
      \/ new[k][p].at \notin {"driving", "joining", "dominated"} /\ es[k][p].at # "joining"

\* An end of p is dialing only over a link that has no other end, and an
\* acceptor's end does not appear.
Dials(es, new, p) ==
    \A k \in Links : p \in EndsOf(k) =>
      /\ new[k][p].at = "dialing" =>
            es[k][p].at = "dialing" \/ (p = k[1] /\ es[k][k[2]].at = "gone")
      /\ es[k][p].at = "gone" /\ p = k[2] => new[k][p].at = "gone"

\* Books that differ at most in what the ends do not depend on.
SameBooks(m, new) ==
    /\ new.net = m.net /\ new.live = m.live /\ new.joins = m.joins
    /\ new.joining = m.joining /\ new.via = m.via

\* What the wire and the record depend on.
SameVoice(m, new) ==
    new.net = m.net /\ new.handle = m.handle /\ new.spoke = m.spoke

\* A step that leaves a peer's ends alone keeps its books right.
LEMMA SameEndsKept ==
    ASSUME NEW es, NEW new, NEW r, NEW m,
           \A k \in Links : r \in EndsOf(k) => new[k][r] = es[k][r]
    PROVE  /\ Books1(es, r, m) => Books1(new, r, m)
           /\ Owes(new, r, m) = Owes(es, r, m)
BY DEF Books1, DriversOnTheBooks, JoinsOnTheBooks, Owes

\* A step that only ends drivers keeps the books right and makes no debt.
LEMMA QuieterKept ==
    ASSUME NEW es, NEW new, NEW p, NEW m, Quieter(es, new, p)
    PROVE  /\ Books1(es, p, m) => Books1(new, p, m)
           /\ Owes(new, p, m) \subseteq Owes(es, p, m)
<1>1. \A k \in Links : p \in EndsOf(k) /\ new[k][p].at \in {"driving", "joining", "dominated"}
                         => new[k][p] = es[k][p]
  BY DEF Quieter
<1>2. \A k \in Links : p \in EndsOf(k) /\ es[k][p].at = "joining" => new[k][p] = es[k][p]
  BY DEF Quieter
<1>3. Books1(es, p, m) => Books1(new, p, m)
  BY <1>1, <1>2 DEF Books1, DriversOnTheBooks, JoinsOnTheBooks
<1>4. Owes(new, p, m) \subseteq Owes(es, p, m)
  BY <1>1 DEF Owes
<1> QED BY <1>3, <1>4

\* The books stay right when the manager changes nothing that they are about.
LEMMA SameBooksKept ==
    ASSUME NEW es, NEW p, NEW m, NEW new, SameBooks(m, new),
           new \in Books, BooksOf(p, new)
    PROVE  /\ Books1(es, p, m) => Books1(es, p, new)
           /\ Owes(es, p, new) = Owes(es, p, m)
BY DEF SameBooks, Books1, DriversOnTheBooks, JoinsOnTheBooks, Owes

-----------------------------------------------------------------------------
(* The operators that one turn of the loop chains.                         *)

\* A non-empty set of numbers has a least one.
LEMMA LeastNat ==
    ASSUME NEW S, S \subseteq Nat, S # {}
    PROVE  Min(S) \in S
<1>1. PICK x \in S : \A y \in S : x <= y
  <2>1. PICK x \in S : \A y \in S : ~(<<y, x>> \in OpToRel(<, Nat))
    BY NatLessThanWellFounded, WFMin, Zenon
  <2>2. \A y \in S : ~(y < x)
    BY <2>1, Zenon DEF OpToRel
  <2> QED BY <2>2
<1> QED BY <1>1, Zenon DEF Min

\* Aborting an end's driver changes that end only, and never a join.
LEMMA AbortedType ==
    ASSUME NEW es, WellFormed(es), NEW l \in Links, NEW p \in EndsOf(l)
    PROVE  /\ WellFormed(Aborted(es, l, p))
           /\ Aborted(es, l, p)[l][p].at # "driving"
           /\ \/ Aborted(es, l, p)[l][p] = es[l][p]
              \/ Aborted(es, l, p)[l][p] = Gone /\ es[l][p].at # "joining"
           /\ \A k \in Links : \A r \in EndsOf(k) :
                k # l \/ r # p => Aborted(es, l, p)[k][r] = es[k][r]
<1>1. Gone \in End /\ Gone.at = "gone"
  BY HoldingType DEF Held
<1>2. CASE es[l][p].at \in {"dialing", "driving"}
  <2>1. Aborted(es, l, p) = WithEnd(es, l, p, Gone)
    BY <1>2 DEF Aborted
  <2> QED BY <1>1, <1>2, <2>1, WithEndType
<1>3. CASE es[l][p].at \notin {"dialing", "driving"}
  BY <1>3 DEF Aborted
<1> QED BY <1>2, <1>3

\* link_absent only adds dials.
LEMMA LinkAbsentType ==
    ASSUME NEW es, WellFormed(es), NEW p \in Peers, NEW m \in Books, BooksOf(p, m)
    PROVE  /\ Only(es, LinkAbsentE(es, p, m), p) /\ Quieter(es, LinkAbsentE(es, p, m), p)
           /\ LinkAbsentM(es, p, m) \in Books /\ BooksOf(p, LinkAbsentM(es, p, m))
           /\ SameBooks(m, LinkAbsentM(es, p, m)) /\ SameVoice(m, LinkAbsentM(es, p, m))
           /\ Dials(es, LinkAbsentE(es, p, m), p)
<1> DEFINE A == Absent(es, p, m)
           slot(q) == Min(FreeSlots(es, p, q))
           new == {<<p, q, slot(q)>> : q \in A}
           es2 == LinkAbsentE(es, p, m)
           dialing == [q \in Peers |-> IF q \in A THEN slot(q) ELSE m.dialing[q]]
           m2 == LinkAbsentM(es, p, m)
<1>1. ASSUME NEW q \in A
      PROVE  /\ q \in Peers /\ q < p /\ q \in Known[p]
             /\ slot(q) \in Slots[q] /\ slot(q) \in Nat
             /\ <<p, q, slot(q)>> \in Links
             /\ es[<<p, q, slot(q)>>] = NoEnds(<<p, q, slot(q)>>)
  <2>1. q \in m.peers /\ q < p /\ FreeSlots(es, p, q) # {}
    BY DEF Absent, Wanted
  <2>2. q \in Peers /\ q \in Known[p]
    BY <2>1 DEF BooksOf, Books
  <2>3. Slots[q] \subseteq Nat \ {0}
    BY <2>2, GossipAssumption
  <2>4. FreeSlots(es, p, q) \subseteq Slots[q]
    BY DEF FreeSlots
  <2>5. slot(q) \in FreeSlots(es, p, q)
    BY <2>1, <2>3, <2>4, LeastNat
  <2> HIDE DEF slot
  <2>6. slot(q) \in Slots[q] /\ es[<<p, q, slot(q)>>] = NoEnds(<<p, q, slot(q)>>)
    BY <2>5 DEF FreeSlots
  <2>7. slot(q) \in UNION Range(Slots)
    <3>1. q \in DOMAIN Slots
      BY <2>2, GossipAssumption
    <3> QED BY <2>6, <3>1 DEF Range
  <2>8. <<p, q, slot(q)>> \in Peers \X Peers \X UNION Range(Slots)
    BY <2>2, <2>7
  <2>9. <<p, q, slot(q)>> \in Links
    BY <2>1, <2>2, <2>6, <2>8 DEF Links
  <2> QED BY <2>1, <2>2, <2>3, <2>6, <2>9
<1> HIDE DEF A, slot
<1>2. es2 = [l \in Links |-> IF l \in new THEN [es[l] EXCEPT ![p] = Holding("dialing")]
                             ELSE es[l]]
  BY Zenon DEF LinkAbsentE, A, slot
<1>3. Holding("dialing") \in End /\ Holding("dialing").at = "dialing"
  BY HoldingType DEF Held
<1>4. ASSUME NEW l \in new
      PROVE  /\ l \in Links /\ p \in EndsOf(l) /\ es[l][p].at = "gone"
             /\ p = l[1] /\ p # l[2] /\ es[l][l[2]].at = "gone"
  <2>1. PICK q \in A : l = <<p, q, slot(q)>>
    OBVIOUS
  <2>2. l \in Links /\ es[l] = NoEnds(l) /\ p \in EndsOf(l)
    BY <1>1, <2>1 DEF EndsOf
  <2>3. l[1] = p /\ l[2] # p
    BY <2>1, <2>2, LinkType
  <2> QED BY <2>2, <2>3 DEF NoEnds, Gone, EndsOf
<1> HIDE DEF new, es2
<1>5. ASSUME NEW l \in Links
      PROVE  /\ es2[l] \in [EndsOf(l) -> End]
             /\ \A r \in EndsOf(l) : r # p => es2[l][r] = es[l][r]
             /\ p \in EndsOf(l) => \/ es2[l][p] = es[l][p]
                                   \/ /\ es2[l][p].at = "dialing"
                                      /\ es[l][p].at # "joining"
                                      /\ p = l[1] /\ p # l[2] /\ es[l][l[2]].at = "gone"
  <2>1. es[l] \in [EndsOf(l) -> End]
    BY DEF WellFormed, End
  <2>2. CASE l \in new
    <3>1. es2[l] = [es[l] EXCEPT ![p] = Holding("dialing")]
      BY <1>2, <2>2
    <3> QED BY <1>3, <1>4, <2>1, <2>2, <3>1
  <2>3. CASE l \notin new
    BY <1>2, <2>1, <2>3
  <2> QED BY <2>2, <2>3
<1>6. Only(es, es2, p)
  <2>1. DOMAIN es2 = Links
    BY <1>2
  <2> QED BY <1>5, <2>1 DEF Only, WellFormed, End
<1>7. Quieter(es, es2, p)
  BY <1>5 DEF Quieter
<1>8. dialing \in [Peers -> Nat]
  BY <1>1, Zenon DEF Books
<1>9. \A q \in Peers : dialing[q] \in Slots[IF q < p THEN q ELSE p] \cup {0}
  BY <1>1, Zenon DEF BooksOf
<1> HIDE DEF dialing
<1>10. m2 = [m EXCEPT !.dialing = dialing]
  BY Zenon DEF LinkAbsentM, dialing, A, slot
<1>11. m2 \in Books /\ SameBooks(m, m2) /\ SameVoice(m, m2) /\ m2.dialing = dialing
  BY <1>8, <1>10 DEF Books, SameBooks, SameVoice
<1>12. BooksOf(p, m2)
  <2>1. /\ m2.peers = m.peers /\ m2.joins = m.joins /\ m2.dialed = m.dialed
        /\ m2.accepted = m.accepted /\ m2.linked = m.linked /\ m2.live = m.live
    BY <1>10 DEF Books
  <2> HIDE DEF m2
  <2> QED BY <1>9, <1>11, <2>1 DEF BooksOf
<1>13. Dials(es, es2, p)
  BY <1>5 DEF Dials
<1> QED BY <1>6, <1>7, <1>11, <1>12, <1>13 DEF es2

\* What LinkedCurrent says of one manager.
LinkedOK(m) == m.joining = 0 /\ m.seen => m.linked = LinkedOf(m)

\* What a step of the manager of p leaves as it has to be.
Kept(es, new, p, m, m2) ==
    /\ Only(es, new, p) /\ Dials(es, new, p)
    /\ Books1(new, p, m2)
    /\ Owes(new, p, m2) \subseteq Owes(es, p, m)

\* Two parts of a handler that keep the books right keep them right together.
LEMMA KeptChain ==
    ASSUME NEW a, NEW b, NEW c, NEW p, NEW m, NEW m2, NEW m3,
           Kept(a, b, p, m, m2), Kept(b, c, p, m2, m3)
    PROVE  Kept(a, c, p, m, m3)
<1>1. Only(a, c, p)
  BY DEF Kept, Only
<1>2. Dials(a, c, p)
  <2>1. \A k \in Links : p = k[1] => k[2] # p /\ k[2] \in EndsOf(k)
    BY LinkType DEF EndsOf
  <2> QED BY <2>1 DEF Kept, Only, Dials
<1> QED BY <1>1, <1>2 DEF Kept

\* A part of a handler that leaves links and debts alone keeps the books right.
LEMMA KeptBooks ==
    ASSUME NEW es, WellFormed(es), NEW p, NEW m, NEW m2, Books1(es, p, m),
           SameBooks(m, m2), m2 \in Books, BooksOf(p, m2)
    PROVE  Kept(es, es, p, m, m2)
BY SameBooksKept DEF Kept, Only, Dials

\* A part of a handler that only ends drivers keeps the books right.
LEMMA KeptQuiet ==
    ASSUME NEW es, NEW new, NEW p, NEW m, Books1(es, p, m),
           Only(es, new, p), Quieter(es, new, p), Dials(es, new, p)
    PROVE  Kept(es, new, p, m, m)
BY QuieterKept, Zenon DEF Kept

\* Dialing the wanted peers that have no link keeps the books right.
LEMMA KeptLinkAbsent ==
    ASSUME NEW es, WellFormed(es), NEW p \in Peers, NEW m, Books1(es, p, m)
    PROVE  Kept(es, LinkAbsentE(es, p, m), p, m, LinkAbsentM(es, p, m))
<1> DEFINE e == LinkAbsentE(es, p, m)
           n == LinkAbsentM(es, p, m)
<1>1. m \in Books /\ BooksOf(p, m)
  BY DEF Books1
<1>2. /\ Only(es, e, p) /\ Quieter(es, e, p) /\ Dials(es, e, p)
      /\ n \in Books /\ BooksOf(p, n) /\ SameBooks(m, n)
  BY <1>1, LinkAbsentType
<1> HIDE DEF e, n
<1>3. Kept(es, e, p, m, m)
  BY <1>2, KeptQuiet
<1>4. Kept(e, e, p, m, n)
  BY <1>2, <1>3, KeptBooks DEF Kept, Only
<1> QED BY <1>3, <1>4, KeptChain DEF e, n

\* Another link between the two peers of l.
LEMMA LinkBeside ==
    ASSUME NEW l \in Links, NEW p \in EndsOf(l),
           NEW k \in Slots[IF Far(l, p) < p THEN Far(l, p) ELSE p]
    PROVE  LET s == LinkTo(p, Far(l, p), k)
           IN  s \in Links /\ p \in EndsOf(s) /\ Far(s, p) = Far(l, p) /\ s[3] = k
<1> DEFINE s == LinkTo(p, Far(l, p), k)
<1>1. /\ l[1] \in Peers /\ l[2] \in Peers /\ l[1] \in Nat /\ l[2] \in Nat
      /\ l[2] < l[1] /\ l[2] \in Known[l[1]]
  BY LinkType
<1>2. s = <<l[1], l[2], k>> /\ k \in Slots[l[2]]
  BY <1>1 DEF LinkTo, Far, EndsOf
<1>3. k \in UNION Range(Slots)
  <2>1. l[2] \in DOMAIN Slots
    BY <1>1, GossipAssumption
  <2> QED BY <1>2, <2>1 DEF Range
<1>4. s \in Peers \X Peers \X UNION Range(Slots)
  BY <1>1, <1>2, <1>3
<1>5. s \in Links
  BY <1>1, <1>2, <1>4 DEF Links
<1> QED BY <1>1, <1>2, <1>5 DEF Far, EndsOf

\* drive: the new driver is the one on the books, and replaces the stale one.
LEMMA KeptDrive ==
    ASSUME NEW es, WellFormed(es), NEW l \in Links, NEW p \in EndsOf(l), NEW m,
           Books1(es, p, m), m.joining = 0, Far(l, p) \notin m.joins, es[l][p].at # "gone"
    PROVE  Kept(es, DriveE(es, l, p, m), p, m, DriveM(l, p, m)) /\ SameVoice(m, DriveM(l, p, m))
<1> DEFINE q == Far(l, p)
           stale == LinkTo(p, q, m.live[q])
           clear == IF m.live[q] = 0 THEN es ELSE Aborted(es, stale, p)
           e == [at |-> "driving", net |-> m.net]
           new == DriveE(es, l, p, m)
           live == [m.live EXCEPT ![q] = l[3]]
           m2 == DriveM(l, p, m)
<1>1. /\ p \in Peers /\ q \in Peers /\ q # p /\ l[3] \in Nat /\ l[3] # 0
      /\ l[3] \in Slots[IF q < p THEN q ELSE p]
  BY LinkType, FarType
<1>2. m \in Books /\ BooksOf(p, m) /\ m.live \in [Peers -> Nat]
  BY DEF Books1, Books
<1>3. m.live[q] # 0 => /\ stale \in Links /\ p \in EndsOf(stale)
                       /\ Far(stale, p) = q /\ stale[3] = m.live[q]
  <2>1. m.live[q] # 0 => m.live[q] \in Slots[IF q < p THEN q ELSE p]
    BY <1>1, <1>2 DEF BooksOf
  <2> QED BY <2>1, LinkBeside
<1> HIDE DEF q, stale
<1>4. /\ WellFormed(clear)
      /\ m.live[q] # 0 => clear[stale][p].at # "driving"
      /\ \A k \in Links : p \in EndsOf(k) => clear[k][p] = es[k][p] \/ clear[k][p] = Gone
      /\ \A k \in Links : \A r \in EndsOf(k) : r # p => clear[k][r] = es[k][r]
  <2>1. CASE m.live[q] = 0
    BY <2>1
  <2>2. CASE m.live[q] # 0
    BY <1>3, <2>2, AbortedType
  <2> QED BY <2>1, <2>2
<1> HIDE DEF clear
<1>5. e \in End
  BY <1>2 DEF End, Held, Books
<1>6. new = WithEnd(clear, l, p, e)
  BY Zenon DEF DriveE, clear, stale, q
<1>7. /\ WellFormed(new) /\ new[l][p] = e
      /\ \A k \in Links : \A r \in EndsOf(k) : k # l \/ r # p => new[k][r] = clear[k][r]
  BY <1>4, <1>5, <1>6, WithEndType
<1> HIDE DEF new
<1>8. Only(es, new, p) /\ Dials(es, new, p)
  <2>1. Only(es, new, p)
    BY <1>4, <1>7 DEF Only
  <2> QED BY <1>4, <1>7, <2>1 DEF Dials, Gone
<1>9. m2 = [m EXCEPT !.live = live]
  BY <1>2 DEF DriveM, Books, q
<1>10. live \in [Peers -> Nat] /\ live[q] = l[3] /\ \A x \in Peers : x # q => live[x] = m.live[x]
  BY <1>1, <1>2
<1> HIDE DEF live
<1>11. /\ m2 \in Books /\ m2.live = live /\ m2.net = m.net /\ m2.joins = m.joins
       /\ m2.joining = 0 /\ m2.peers = m.peers /\ m2.dialed = m.dialed
       /\ m2.accepted = m.accepted /\ m2.linked = m.linked /\ m2.dialing = m.dialing
       /\ SameVoice(m, m2)
  BY <1>2, <1>9, <1>10 DEF Books, SameVoice
<1> HIDE DEF m2
<1>12. BooksOf(p, m2)
  BY <1>1, <1>2, <1>10, <1>11 DEF BooksOf
<1>13. ASSUME NEW k \in Links, p \in EndsOf(k), k # l, new[k][p].at # "gone"
       PROVE  new[k][p] = es[k][p] /\ Far(k, p) \in Peers /\ k[3] # 0
  BY <1>4, <1>7, <1>13, FarType, LinkType DEF Gone
<1>14. ASSUME NEW k \in Links, p \in EndsOf(k), k # l, Far(k, p) = q
       PROVE  k[3] # l[3]
  BY <1>14, SameLink DEF q
<1>15. DriversOnTheBooks(new, p, m2)
  <2> SUFFICES ASSUME NEW k \in Links, p \in EndsOf(k), new[k][p].at = "driving"
               PROVE  new[k][p].net = m2.net /\ m2.live[Far(k, p)] = k[3]
    BY DEF DriversOnTheBooks
  <2>1. CASE k = l
    BY <1>7, <1>10, <1>11, <2>1 DEF q
  <2>2. CASE k # l
    <3>1. new[k][p] = es[k][p] /\ Far(k, p) \in Peers /\ k[3] # 0
      BY <1>13, <2>2
    <3>2. es[k][p].net = m.net /\ m.live[Far(k, p)] = k[3]
      BY <3>1 DEF Books1, DriversOnTheBooks
    <3>3. Far(k, p) # q
      <4> SUFFICES ASSUME Far(k, p) = q PROVE FALSE
        OBVIOUS
      <4>1. m.live[q] = k[3] /\ m.live[q] # 0
        BY <3>1, <3>2
      <4>2. k = stale
        BY <1>3, <4>1, SameLink
      <4> QED BY <1>4, <1>7, <2>2, <4>1, <4>2
    <3> QED BY <1>10, <1>11, <3>1, <3>2, <3>3
  <2> QED BY <2>1, <2>2
<1>16. JoinsOnTheBooks(new, p, m2)
  <2>1. \A k \in Links : p \in EndsOf(k) => new[k][p].at # "joining"
    <3> SUFFICES ASSUME NEW k \in Links, p \in EndsOf(k), new[k][p].at = "joining"
                 PROVE  FALSE
      OBVIOUS
    <3>1. k # l
      BY <1>7
    <3>2. new[k][p] = es[k][p] /\ k[3] # 0
      BY <1>13, <3>1
    <3> QED BY <3>2 DEF Books1, JoinsOnTheBooks
  <2>2. \A x \in m.joins : x \in Peers /\ x # q /\ m.live[x] = 0
    BY <1>2 DEF Books1, JoinsOnTheBooks, Books, q
  <2> QED BY <1>10, <1>11, <2>1, <2>2 DEF JoinsOnTheBooks
<1>17. Owes(new, p, m2) \subseteq Owes(es, p, m)
  <2> SUFFICES ASSUME NEW k \in Links, p \in EndsOf(k), new[k][p].at = "dominated",
                      m2.live[Far(k, p)] = k[3]
               PROVE  es[k][p].at = "dominated" /\ m.live[Far(k, p)] = k[3]
    BY <1>11 DEF Owes
  <2>1. k # l
    BY <1>7
  <2>2. new[k][p] = es[k][p] /\ Far(k, p) \in Peers
    BY <1>13, <2>1
  <2>3. Far(k, p) # q
    BY <1>10, <1>11, <1>14, <2>1
  <2> QED BY <1>10, <1>11, <2>2, <2>3
<1> QED BY <1>8, <1>11, <1>12, <1>15, <1>16, <1>17 DEF Kept, Books1, new, m2

\* migrate: no driver is left, and the link is the one that is joining.
LEMMA KeptMigrate ==
    ASSUME NEW es, WellFormed(es), NEW l \in Links, NEW p \in EndsOf(l), NEW m,
           Books1(es, p, m), m.joining = 0, es[l][p].at # "gone"
    PROVE  /\ Kept(es, MigrateE(es, l, p), p, m, MigrateM(l, p, m))
           /\ SameVoice(m, MigrateM(l, p, m)) /\ LinkedOK(MigrateM(l, p, m))
<1> DEFINE stop == StopDrivers(es, p)
           e == Holding("joining")
           new == MigrateE(es, l, p)
           live == [q \in Peers |-> 0]
           via == Far(l, p)
           slot == l[3]
           m2 == MigrateM(l, p, m)
<1>1. /\ p \in Peers /\ via \in Peers /\ slot \in Nat /\ slot # 0
  BY LinkType, FarType
<1>2. m \in Books /\ BooksOf(p, m)
  BY DEF Books1
<1>3. Gone \in End /\ Gone.at = "gone" /\ e \in End /\ e.at = "joining"
  BY HoldingType DEF Held
<1>4. ASSUME NEW k \in Links
      PROVE  /\ stop[k] \in [EndsOf(k) -> End]
             /\ \A r \in EndsOf(k) : r # p => stop[k][r] = es[k][r]
             /\ p \in EndsOf(k) => \/ stop[k][p] = es[k][p] /\ es[k][p].at # "driving"
                                   \/ stop[k][p] = Gone
  <2>1. es[k] \in [EndsOf(k) -> End]
    BY DEF WellFormed, End
  <2>2. CASE p \in EndsOf(k) /\ es[k][p].at = "driving"
    <3>1. stop[k] = [es[k] EXCEPT ![p] = Gone]
      BY <2>2 DEF StopDrivers
    <3> QED BY <1>3, <2>1, <2>2, <3>1
  <2>3. CASE ~(p \in EndsOf(k) /\ es[k][p].at = "driving")
    <3>1. stop[k] = es[k]
      BY <2>3 DEF StopDrivers
    <3> QED BY <2>1, <2>3, <3>1
  <2> QED BY <2>2, <2>3
<1>5. WellFormed(stop)
  <2>1. DOMAIN stop = Links
    BY DEF StopDrivers
  <2> QED BY <1>4, <2>1 DEF WellFormed, End
<1> HIDE DEF stop, e
<1>6. new = WithEnd(stop, l, p, e)
  BY DEF MigrateE, stop, e
<1>7. /\ WellFormed(new) /\ new[l][p] = e
      /\ \A k \in Links : \A r \in EndsOf(k) : k # l \/ r # p => new[k][r] = stop[k][r]
  BY <1>3, <1>5, <1>6, WithEndType
<1> HIDE DEF new
<1>8. Only(es, new, p) /\ Dials(es, new, p)
  <2>1. Only(es, new, p)
    BY <1>4, <1>7 DEF Only
  <2> QED BY <1>3, <1>4, <1>7, <2>1 DEF Dials
<1>9. live \in [Peers -> Nat] /\ \A q \in Peers : live[q] = 0
  OBVIOUS
<1> HIDE DEF live, via, slot
<1>10. m2 = [m EXCEPT !.live = live, !.joining = slot, !.via = via]
  BY Zenon DEF MigrateM, live, via, slot
<1>11. /\ m2 \in Books /\ m2.live = live /\ m2.joins = m.joins
       /\ m2.joining = slot /\ m2.via = via /\ m2.peers = m.peers /\ m2.dialed = m.dialed
       /\ m2.accepted = m.accepted /\ m2.linked = m.linked /\ m2.dialing = m.dialing
       /\ SameVoice(m, m2)
  <2>1. /\ m2.live = live /\ m2.joins = m.joins
        /\ m2.joining = slot /\ m2.via = via /\ m2.peers = m.peers /\ m2.dialed = m.dialed
        /\ m2.accepted = m.accepted /\ m2.linked = m.linked /\ m2.dialing = m.dialing
    BY <1>2, <1>10 DEF Books
  <2>2. m2 \in Books
    BY <1>1, <1>2, <1>9, <1>10, Zenon DEF Books
  <2>3. SameVoice(m, m2)
    BY <1>2, <1>10 DEF Books, SameVoice
  <2> QED BY <2>1, <2>2, <2>3, Zenon
<1> HIDE DEF m2
<1>12. BooksOf(p, m2)
  BY <1>2, <1>9, <1>11 DEF BooksOf
<1>13. \A k \in Links : p \in EndsOf(k) /\ k # l => new[k][p].at \notin {"driving", "joining"}
  <2> SUFFICES ASSUME NEW k \in Links, p \in EndsOf(k), k # l
               PROVE  new[k][p].at \notin {"driving", "joining"}
    OBVIOUS
  <2>1. k[3] # 0
    BY LinkType
  <2>2. es[k][p].at # "joining"
    BY <2>1 DEF Books1, JoinsOnTheBooks
  <2> QED BY <1>3, <1>4, <1>7, <2>2
<1>14. DriversOnTheBooks(new, p, m2)
  BY <1>3, <1>7, <1>13 DEF DriversOnTheBooks
<1>15. JoinsOnTheBooks(new, p, m2)
  <2>1. m.joins \subseteq Peers
    BY <1>2 DEF Books
  <2> QED BY <1>3, <1>7, <1>9, <1>11, <1>13, <2>1 DEF JoinsOnTheBooks, via, slot
<1>16. Owes(new, p, m2) \subseteq Owes(es, p, m)
  <2>1. \A k \in Links : p \in EndsOf(k) => m2.live[Far(k, p)] # k[3]
    BY <1>9, <1>11, LinkType, FarType
  <2> QED BY <1>11, <2>1 DEF Owes
<1>17. LinkedOK(m2)
  BY <1>1, <1>11 DEF LinkedOK, slot
<1> QED BY <1>8, <1>11, <1>12, <1>14, <1>15, <1>16, <1>17 DEF Kept, Books1, new, m2

\* prune: no driver is left for a peer that is not in the set.
LEMMA KeptPruned ==
    ASSUME NEW es, WellFormed(es), NEW p \in Peers, NEW m, Books1(es, p, m), m.joining = 0
    PROVE  Kept(es, PrunedE(es, p, m), p, m, PrunedM(m)) /\ SameVoice(m, PrunedM(m))
<1> DEFINE out == {l \in Links : /\ p \in EndsOf(l) /\ Far(l, p) \notin m.peers
                                 /\ l[3] \in {m.live[Far(l, p)], m.dialing[Far(l, p)]}}
           new == PrunedE(es, p, m)
           live == [q \in Peers |-> IF q \in m.peers THEN m.live[q] ELSE 0]
           dialing == [q \in Peers |-> IF q \in m.peers THEN m.dialing[q] ELSE 0]
           joins == m.joins \cap m.peers
           dialed == m.dialed \cap m.peers
           accepted == {r \in m.accepted : \E q \in m.peers : Ip[q] = Ip[r]}
           m2 == PrunedM(m)
<1>1. m \in Books /\ BooksOf(p, m)
  BY DEF Books1
<1>2. new = [l \in Links |-> IF l \in out THEN Aborted(es, l, p)[l] ELSE es[l]]
  BY Zenon DEF PrunedE
<1>3. ASSUME NEW k \in Links
      PROVE  /\ new[k] \in [EndsOf(k) -> End]
             /\ \A r \in EndsOf(k) : r # p => new[k][r] = es[k][r]
             /\ p \in EndsOf(k) => \/ new[k][p] = es[k][p]
                                   \/ new[k][p] = Gone /\ es[k][p].at # "joining"
             /\ k \in out => new[k][p].at # "driving"
  <2>1. CASE k \in out
    <3>1. p \in EndsOf(k) /\ new[k] = Aborted(es, k, p)[k]
      BY <1>2, <2>1
    <3>2. WellFormed(Aborted(es, k, p))
      BY <3>1, AbortedType
    <3> QED BY <3>1, <3>2, AbortedType DEF WellFormed, End
  <2>2. CASE k \notin out
    BY <1>2, <2>2 DEF WellFormed, End
  <2> QED BY <2>1, <2>2
<1>4. DOMAIN new = Links
  BY <1>2
<1>5. ASSUME NEW k \in Links, p \in EndsOf(k), Far(k, p) \notin m.peers,
             k[3] = m.live[Far(k, p)]
      PROVE  k \in out
  BY <1>5
<1> HIDE DEF out, new
<1>6. Only(es, new, p) /\ Quieter(es, new, p) /\ Dials(es, new, p)
  <2>1. Only(es, new, p)
    BY <1>3, <1>4 DEF Only, WellFormed, End
  <2> QED BY <1>3, <2>1 DEF Quieter, Dials, Gone
<1>7. Kept(es, new, p, m, m)
  BY <1>6, KeptQuiet
<1>8. live \in [Peers -> Nat] /\ dialing \in [Peers -> Nat]
  BY <1>1 DEF Books
<1>9. /\ joins \subseteq m.joins /\ dialed \subseteq m.dialed /\ accepted \subseteq m.accepted
      /\ m.joins \subseteq Peers /\ m.dialed \subseteq Peers /\ m.accepted \subseteq Peers
  BY <1>1 DEF Books
<1>10. \A q \in Peers : /\ live[q] \in {m.live[q], 0} /\ (q \in m.peers => live[q] = m.live[q])
                        /\ dialing[q] \in {m.dialing[q], 0}
  OBVIOUS
<1> HIDE DEF live, dialing, joins, dialed, accepted
<1>11. m2 = [m EXCEPT !.live = live, !.dialing = dialing, !.joins = joins,
                      !.dialed = dialed, !.accepted = accepted]
  BY <1>1 DEF PrunedM, live, dialing, joins, dialed, accepted, Books
<1>12. /\ m2 \in Books /\ m2.live = live /\ m2.joins = joins /\ m2.net = m.net
       /\ m2.joining = m.joining /\ m2.via = m.via /\ m2.peers = m.peers
       /\ m2.dialed = dialed /\ m2.accepted = accepted /\ m2.linked = m.linked
       /\ m2.dialing = dialing /\ SameVoice(m, m2)
  <2>1. /\ m2.live = live /\ m2.joins = joins /\ m2.net = m.net
        /\ m2.joining = m.joining /\ m2.via = m.via /\ m2.peers = m.peers
        /\ m2.dialed = dialed /\ m2.accepted = accepted /\ m2.linked = m.linked
        /\ m2.dialing = dialing
    BY <1>1, <1>11 DEF Books
  <2>2. m2 \in Books
    <3>1. joins \in SUBSET Peers /\ dialed \in SUBSET Peers /\ accepted \in SUBSET Peers
      BY <1>9
    <3> QED BY <1>1, <1>8, <1>11, <3>1, Zenon DEF Books
  <2>3. SameVoice(m, m2)
    BY <1>1, <1>11 DEF Books, SameVoice
  <2> QED BY <2>1, <2>2, <2>3, Zenon
<1> HIDE DEF m2
<1>13. BooksOf(p, m2)
  BY <1>1, <1>9, <1>10, <1>12 DEF BooksOf
<1>14. DriversOnTheBooks(new, p, m2)
  <2> SUFFICES ASSUME NEW k \in Links, p \in EndsOf(k), new[k][p].at = "driving"
               PROVE  new[k][p].net = m2.net /\ m2.live[Far(k, p)] = k[3]
    BY DEF DriversOnTheBooks
  <2>1. new[k][p].net = m.net /\ m.live[Far(k, p)] = k[3]
    BY <1>7 DEF Kept, Books1, DriversOnTheBooks
  <2>2. Far(k, p) \in m.peers
    BY <1>3, <1>5, <2>1
  <2> QED BY <1>10, <1>12, <2>1, <2>2, FarType
<1>15. JoinsOnTheBooks(new, p, m2)
  <2>1. JoinsOnTheBooks(new, p, m)
    BY <1>7 DEF Kept, Books1
  <2>2. \A q \in joins : q \in Peers /\ m.live[q] = 0
    BY <1>9, <2>1 DEF JoinsOnTheBooks
  <2> QED BY <1>10, <1>12, <2>1, <2>2 DEF JoinsOnTheBooks
<1>16. Owes(new, p, m2) \subseteq Owes(new, p, m)
  <2>1. ASSUME NEW k \in Links, p \in EndsOf(k), m2.live[Far(k, p)] = k[3]
        PROVE  m.live[Far(k, p)] = k[3]
    BY <1>10, <1>12, <2>1, LinkType, FarType
  <2> QED BY <1>9, <1>12, <2>1 DEF Owes
<1> QED BY <1>7, <1>12, <1>13, <1>14, <1>15, <1>16 DEF Kept, Books1, new, m2

\* publish_linked at the end of the turn.
LEMMA PublishType ==
    ASSUME NEW p, NEW m \in Books, BooksOf(p, m)
    PROVE  LET n == PublishLinked(m)
           IN  /\ n \in Books /\ BooksOf(p, n) /\ SameBooks(m, n) /\ LinkedOK(n)
               /\ SameVoice(m, n)
<1> DEFINE linked == LinkedOf(m)
           n == PublishLinked(m)
<1>1. linked \subseteq m.dialed \cup m.accepted
  BY Zenon DEF LinkedOf, Resolve
<1>2. linked \subseteq Peers /\ p \notin linked
  BY <1>1 DEF Books, BooksOf
<1> HIDE DEF linked
<1>3. n = [m EXCEPT !.linked = linked]
  BY DEF PublishLinked, linked
<1>4. /\ n \in Books /\ SameBooks(m, n) /\ n.linked = linked
      /\ n.peers = m.peers /\ n.dialing = m.dialing /\ n.dialed = m.dialed
      /\ n.accepted = m.accepted /\ SameVoice(m, n)
  BY <1>2, <1>3 DEF Books, SameBooks, SameVoice
<1> HIDE DEF n
<1>5. BooksOf(p, n)
  BY <1>2, <1>4 DEF BooksOf, SameBooks
<1>6. LinkedOf(n) = LinkedOf(m)
  BY <1>4 DEF LinkedOf, Resolve, SameBooks
<1> QED BY <1>4, <1>5, <1>6 DEF LinkedOK, n, linked

-----------------------------------------------------------------------------
(* The turns of a manager.                                                 *)

\* The invariant but for the record and the stores: every manager's books,
\* and what they say of one another.
Core ==
    /\ mgr \in [Peers -> Books] /\ WellFormed(ends)
    /\ \A p \in Peers : Books1(ends, p, mgr[p]) /\ LinkedOK(mgr[p])
    /\ DialsAlone(ends) /\ DebtsOneWay

Turn(p) ==
    /\ mgr' = [mgr EXCEPT ![p] = mgr'[p]]
    /\ Kept(ends, ends', p, mgr[p], mgr'[p])
    /\ LinkedOK(mgr'[p])

\* A turn that dials as it may leaves every dialing end alone on its link.
LEMMA DialsKept ==
    ASSUME NEW es, NEW new, NEW p, DialsAlone(es), Only(es, new, p), Dials(es, new, p)
    PROVE  DialsAlone(new)
<1> SUFFICES ASSUME NEW l \in Links, new[l][l[1]].at = "dialing"
             PROVE  new[l][l[2]].at = "gone"
  BY DEF DialsAlone
<1>1. l[1] \in EndsOf(l) /\ l[2] \in EndsOf(l) /\ l[1] # l[2]
  BY LinkType DEF EndsOf
<1>2. CASE p = l[1]
  <2>1. es[l][l[2]].at = "gone"
    BY <1>1, <1>2 DEF Dials, DialsAlone
  <2> QED BY <1>1, <1>2, <2>1 DEF Only
<1>3. CASE p = l[2]
  <2>1. es[l][l[2]].at = "gone"
    BY <1>1, <1>3 DEF Only, DialsAlone
  <2> QED BY <1>1, <1>3, <2>1 DEF Dials
<1>4. CASE p \notin {l[1], l[2]}
  BY <1>1, <1>4 DEF Only, DialsAlone
<1> QED BY <1>2, <1>3, <1>4

\* A turn of a manager keeps the invariant of the books.
LEMMA TurnCore ==
    ASSUME Core, NEW p \in Peers, Turn(p)
    PROVE  Core'
<1>1. mgr'[p] \in Books /\ mgr' \in [Peers -> Books]
  BY DEF Turn, Kept, Books1, Core
<1>2. \A r \in Peers : r # p => mgr'[r] = mgr[r]
  BY DEF Turn, Core
<1>3. WellFormed(ends') /\ Only(ends, ends', p) /\ Dials(ends, ends', p)
  BY DEF Turn, Kept, Only
<1>4. ASSUME NEW r \in Peers
      PROVE  /\ Books1(ends', r, mgr'[r]) /\ LinkedOK(mgr'[r])
             /\ Owes(ends', r, mgr'[r]) \subseteq Owes(ends, r, mgr[r])
  <2>1. CASE r = p
    BY <2>1 DEF Turn, Kept
  <2>2. CASE r # p
    BY <1>2, <1>3, <2>2, SameEndsKept DEF Only, Core
  <2> QED BY <2>1, <2>2
<1>5. DialsAlone(ends')
  BY <1>3, DialsKept DEF Core
<1>6. DebtsOneWay'
  BY <1>4 DEF Core, DebtsOneWay
<1> QED BY <1>1, <1>3, <1>4, <1>5, <1>6 DEF Core

\* A turn ends with publish_linked.
LEMMA EndTurnKept ==
    ASSUME Core, NEW p \in Peers, NEW m, EndTurn(p, m), Kept(ends, ends', p, mgr[p], m)
    PROVE  Turn(p) /\ SameVoice(m, mgr'[p])
<1> DEFINE n == PublishLinked(m)
<1>1. m \in Books /\ BooksOf(p, m) /\ WellFormed(ends') /\ Books1(ends', p, m)
  BY DEF Kept, Books1, Only
<1>2. n \in Books /\ BooksOf(p, n) /\ SameBooks(m, n) /\ LinkedOK(n) /\ SameVoice(m, n)
  BY <1>1, PublishType
<1> HIDE DEF n
<1>3. mgr'[p] = n /\ mgr' = [mgr EXCEPT ![p] = n]
  BY DEF EndTurn, Core, n
<1>4. Kept(ends', ends', p, m, n)
  BY <1>1, <1>2, KeptBooks
<1>5. Kept(ends, ends', p, mgr[p], n)
  BY <1>4, KeptChain
<1> QED BY <1>2, <1>3, <1>5 DEF Turn

\* A tick is a turn of the manager that changes nothing on the wire.
LEMMA TickTurn ==
    ASSUME Core, NEW p \in Peers, Tick(p)
    PROVE  Turn(p) /\ SameVoice(mgr[p], mgr'[p])
<1> DEFINE n == LinkAbsentM(ends, p, mgr[p])
<1>1. Kept(ends, ends', p, mgr[p], n)
  BY KeptLinkAbsent DEF Tick, Core
<1>2. SameVoice(mgr[p], n)
  BY LinkAbsentType DEF Core, Books1
<1> HIDE DEF n
<1>3. EndTurn(p, n)
  BY DEF Tick, n
<1> QED BY <1>1, <1>2, <1>3, EndTurnKept DEF SameVoice

\* Hearing of attested peers is a turn that changes nothing on the wire.
LEMMA AttestedChangedTurn ==
    ASSUME Core, NEW p \in Peers, AttestedChanged(p)
    PROVE  Turn(p) /\ SameVoice(mgr[p], mgr'[p])
<1> DEFINE m == mgr[p]
           n == [m EXCEPT !.seen = TRUE]
<1>1. m \in Books /\ BooksOf(p, m) /\ Books1(ends, p, m)
  BY DEF Core, Books1
<1> HIDE DEF m
<1>2. n \in Books /\ SameBooks(m, n) /\ SameVoice(m, n) /\ BooksOf(p, n)
  BY <1>1, Zenon DEF Books, SameBooks, SameVoice, BooksOf
<1> HIDE DEF n
<1>3. Kept(ends, ends', p, m, n)
  BY <1>1, <1>2, KeptBooks DEF Core, AttestedChanged
<1>4. EndTurn(p, n)
  BY DEF AttestedChanged, n, m
<1> QED BY <1>2, <1>3, <1>4, EndTurnKept DEF SameVoice, m

\* Hearing of peers that came or went is a turn that changes nothing on the wire.
LEMMA PeersChangedTurn ==
    ASSUME Core, NEW p \in Peers, PeersChanged(p)
    PROVE  Turn(p) /\ SameVoice(mgr[p], mgr'[p])
<1> DEFINE a == mgr[p]
           b == [a EXCEPT !.news = FALSE]
           m == PrunedM(b)
           e == PrunedE(ends, p, a)
           c == LinkAbsentM(e, p, m)
           same == m.dialed = a.dialed /\ m.accepted = a.accepted
           n == [c EXCEPT !.seen = @ /\ same]
<1>1. a \in Books /\ BooksOf(p, a) /\ Books1(ends, p, a) /\ a.joining = 0 /\ WellFormed(ends)
  BY DEF Core, Books1, PeersChanged, Looping
<1>2. EndTurn(p, n) /\ ends' = LinkAbsentE(e, p, m)
  BY Zenon DEF PeersChanged
<1> HIDE DEF a
<1>3. /\ b \in Books /\ SameBooks(a, b) /\ SameVoice(a, b) /\ BooksOf(p, b)
      /\ b.peers = a.peers /\ b.live = a.live /\ b.dialing = a.dialing /\ b.joining = 0
  BY <1>1, Zenon DEF Books, SameBooks, SameVoice, BooksOf
<1> HIDE DEF b
<1>4. Kept(ends, ends, p, a, b)
  BY <1>1, <1>3, KeptBooks
<1>5. Kept(ends, e, p, b, m) /\ SameVoice(b, m)
  <2>1. PrunedE(ends, p, b) = e
    BY <1>3 DEF PrunedE
  <2> HIDE DEF e
  <2> QED BY <1>1, <1>3, <1>4, <2>1, KeptPruned DEF Kept
<1> HIDE DEF e, m
<1>6. WellFormed(e) /\ m \in Books /\ BooksOf(p, m) /\ Books1(e, p, m)
  BY <1>5 DEF Kept, Only, Books1
<1>7. Kept(e, ends', p, m, c) /\ SameVoice(m, c) /\ c \in Books /\ BooksOf(p, c)
  BY <1>2, <1>6, KeptLinkAbsent, LinkAbsentType
<1> HIDE DEF c
<1>8. same \in BOOLEAN
  OBVIOUS
<1> HIDE DEF same
<1>9. n \in Books /\ SameBooks(c, n) /\ SameVoice(c, n) /\ BooksOf(p, n)
  <2> DEFINE seen == c.seen /\ same
  <2>1. seen \in BOOLEAN
    BY <1>7, <1>8 DEF Books
  <2> HIDE DEF seen
  <2>2. n = [c EXCEPT !.seen = seen]
    BY <1>7 DEF Books, seen
  <2>3. /\ n \in Books /\ SameBooks(c, n) /\ SameVoice(c, n)
        /\ n.peers = c.peers /\ n.dialing = c.dialing /\ n.dialed = c.dialed
        /\ n.accepted = c.accepted /\ n.linked = c.linked
    BY <1>7, <2>1, <2>2 DEF Books, SameBooks, SameVoice
  <2> HIDE DEF n
  <2> QED BY <1>7, <2>3 DEF BooksOf, SameBooks
<1> HIDE DEF n
<1>10. Kept(ends', ends', p, c, n)
  BY <1>7, <1>9, KeptBooks DEF Kept, Only
<1>11. Kept(ends, ends', p, a, n)
  <2>1. Kept(ends, e, p, a, m)
    BY <1>4, <1>5, KeptChain
  <2>2. Kept(ends, ends', p, a, c)
    BY <1>7, <2>1, KeptChain
  <2> QED BY <1>10, <2>2, KeptChain
<1>12. Turn(p) /\ SameVoice(n, mgr'[p])
  BY <1>2, <1>11, EndTurnKept DEF a
<1> QED BY <1>3, <1>5, <1>7, <1>9, <1>12 DEF SameVoice, a

\* A fresh link, whether it is driven or joined over.
LEMMA OnLinkTurn ==
    ASSUME Core, NEW l \in Links, NEW p \in EndsOf(l), NEW m,
           Kept(ends, ends, p, mgr[p], m), SameVoice(mgr[p], m), m.joining = 0,
           ends[l][p].at # "gone", OnLink(ends, l, p, m)
    PROVE  Turn(p) /\ SameVoice(mgr[p], mgr'[p])
<1>1. p \in Peers
  BY FarType
<1>2. Books1(ends, p, m) /\ WellFormed(ends)
  BY DEF Kept, Core
<1>3. CASE Far(l, p) \in m.joins
  <2> DEFINE n == MigrateM(l, p, m)
  <2>1. ends' = MigrateE(ends, l, p) /\ mgr' = [mgr EXCEPT ![p] = n]
    BY <1>3 DEF OnLink
  <2>2. Kept(ends, ends', p, m, n) /\ SameVoice(m, n) /\ LinkedOK(n)
    BY <1>2, <2>1, KeptMigrate
  <2> HIDE DEF n
  <2>3. mgr'[p] = n
    BY <1>1, <2>1 DEF Core
  <2>4. Kept(ends, ends', p, mgr[p], n)
    BY <2>2, KeptChain
  <2> QED BY <2>1, <2>2, <2>3, <2>4, Zenon DEF Turn, SameVoice
<1>4. CASE Far(l, p) \notin m.joins
  <2> DEFINE n == DriveM(l, p, m)
  <2>1. ends' = DriveE(ends, l, p, m) /\ EndTurn(p, n)
    BY <1>4 DEF OnLink
  <2>2. Kept(ends, ends', p, m, n) /\ SameVoice(m, n)
    BY <1>2, <1>4, <2>1, KeptDrive
  <2> HIDE DEF n
  <2>3. Kept(ends, ends', p, mgr[p], n)
    BY <2>2, KeptChain
  <2>4. Turn(p) /\ SameVoice(n, mgr'[p])
    BY <1>1, <2>1, <2>3, EndTurnKept
  <2> QED BY <2>2, <2>4 DEF SameVoice
<1> QED BY <1>3, <1>4

\* An end that is put aside.
LEMMA KeptAside ==
    ASSUME NEW es, WellFormed(es), NEW l \in Links, NEW p \in EndsOf(l), NEW m,
           Books1(es, p, m), NEW e \in End, e.at \in {"gone", "failed", "refused"},
           es[l][p].at \notin {"gone", "joining"}
    PROVE  Kept(es, WithEnd(es, l, p, e), p, m, m)
<1> DEFINE new == WithEnd(es, l, p, e)
<1>1. /\ WellFormed(new) /\ new[l][p] = e
      /\ \A k \in Links : \A r \in EndsOf(k) : k # l \/ r # p => new[k][r] = es[k][r]
  BY WithEndType
<1> HIDE DEF new
<1>2. Only(es, new, p)
  BY <1>1 DEF Only
<1>3. Quieter(es, new, p) /\ Dials(es, new, p)
  BY <1>1 DEF Quieter, Dials
<1> QED BY <1>2, <1>3, KeptQuiet DEF new

\* Accepting a link is a turn that changes nothing on the wire.
LEMMA AcceptTurn ==
    ASSUME Core, NEW l \in Links, Accept(l)
    PROVE  Turn(l[2]) /\ SameVoice(mgr[l[2]], mgr'[l[2]])
<1> DEFINE p == l[2]
<1>1. p \in Peers /\ p \in EndsOf(l)
  BY LinkType DEF EndsOf
<1>2. /\ mgr[p].joining = 0 /\ ends[l][p].at = "queued" /\ OnLink(ends, l, p, mgr[p])
  BY DEF Accept, Looping, At
<1> HIDE DEF p
<1>3. Kept(ends, ends, p, mgr[p], mgr[p]) /\ SameVoice(mgr[p], mgr[p])
  BY <1>1 DEF Kept, Core, Only, Dials, SameVoice
<1> QED BY <1>1, <1>2, <1>3, OnLinkTurn DEF p

\* The end of a dial is a turn that changes nothing on the wire.
LEMMA DialDoneTurn ==
    ASSUME Core, NEW l \in Links, DialDone(l)
    PROVE  Turn(l[1]) /\ SameVoice(mgr[l[1]], mgr'[l[1]])
<1> DEFINE p == l[1]
           q == l[2]
           a == mgr[p]
           dialing == [a.dialing EXCEPT ![q] = 0]
           m == [a EXCEPT !.dialing = dialing]
<1>1. p \in Peers /\ q \in Peers /\ p \in EndsOf(l)
  BY LinkType DEF EndsOf
<1>2. a \in Books /\ BooksOf(p, a) /\ Books1(ends, p, a) /\ WellFormed(ends)
  BY <1>1 DEF Core, Books1
<1>3. [mgr[p] EXCEPT !.dialing[q] = 0] = m
  BY <1>2 DEF Books
<1>4. /\ a.joining = 0 /\ ends[l][p].at \in {"dialed", "refused"}
      /\ IF a.dialing[q] = l[3] /\ ends[l][p].at = "dialed"
         THEN OnLink(ends, l, p, m)
         ELSE /\ ends' = WithEnd(ends, l, p, Gone)
              /\ EndTurn(p, IF a.dialing[q] = l[3] THEN m ELSE a)
  BY <1>3 DEF DialDone, Looping, At
<1>5. dialing \in [Peers -> Nat] /\ \A x \in Peers : dialing[x] \in {a.dialing[x], 0}
  BY <1>1, <1>2 DEF Books
<1> HIDE DEF p, q, a, dialing
<1>6. /\ m \in Books /\ SameBooks(a, m) /\ SameVoice(a, m) /\ BooksOf(p, m) /\ m.joining = 0
  <2>1. /\ m \in Books /\ SameBooks(a, m) /\ SameVoice(a, m)
        /\ m.peers = a.peers /\ m.dialing = dialing /\ m.dialed = a.dialed
        /\ m.accepted = a.accepted /\ m.linked = a.linked /\ m.joining = 0
    BY <1>2, <1>4, <1>5 DEF Books, SameBooks, SameVoice
  <2> HIDE DEF m
  <2> QED BY <1>2, <1>5, <2>1 DEF BooksOf, SameBooks
<1> HIDE DEF m
<1>7. Kept(ends, ends, p, a, m)
  BY <1>2, <1>6, KeptBooks
<1>8. CASE a.dialing[q] = l[3] /\ ends[l][p].at = "dialed"
  BY <1>1, <1>4, <1>6, <1>7, <1>8, OnLinkTurn DEF a, p
<1>9. CASE ~(a.dialing[q] = l[3] /\ ends[l][p].at = "dialed")
  <2> DEFINE n == IF a.dialing[q] = l[3] THEN m ELSE a
  <2>1. ends' = WithEnd(ends, l, p, Gone) /\ EndTurn(p, n)
    BY <1>4, <1>9
  <2>2. Gone \in End /\ Gone.at = "gone"
    BY HoldingType DEF Held
  <2>3. Books1(ends, p, n) /\ SameVoice(a, n) /\ Kept(ends, ends, p, a, n)
    BY <1>2, <1>6, <1>7 DEF Kept, SameVoice, Only, Dials
  <2> HIDE DEF n
  <2>4. Kept(ends, ends', p, n, n)
    BY <1>1, <1>2, <1>4, <2>1, <2>2, <2>3, KeptAside
  <2>5. Kept(ends, ends', p, a, n)
    BY <2>3, <2>4, KeptChain
  <2>6. Turn(p) /\ SameVoice(n, mgr'[p])
    BY <1>1, <2>1, <2>5, EndTurnKept DEF a
  <2> QED BY <2>3, <2>6 DEF SameVoice, a, p
<1> QED BY <1>8, <1>9

\* The living driver's report turns a debt to come into a debt.
LEMMA KeptReported ==
    ASSUME Core, NEW l \in Links, NEW p \in EndsOf(l), mgr[p].joining = 0,
           ends[l][p].at \in {"dominated", "failed"}, mgr[p].live[Far(l, p)] = l[3]
    PROVE  /\ Kept(ends, WithEnd(ends, l, p, Gone), p, mgr[p], Reported(l, p))
           /\ SameVoice(mgr[p], Reported(l, p))
<1> DEFINE a == mgr[p]
           q == Far(l, p)
           live == [a.live EXCEPT ![q] = 0]
           joins == IF ends[l][p].at = "dominated" THEN a.joins \cup {q} ELSE a.joins
           n == Reported(l, p)
           new == WithEnd(ends, l, p, Gone)
<1>1. p \in Peers /\ q \in Peers /\ q # p /\ l[3] # 0
  BY FarType, LinkType
<1>2. a \in Books /\ BooksOf(p, a) /\ Books1(ends, p, a) /\ WellFormed(ends)
  BY <1>1 DEF Core, Books1
<1>3. n = [a EXCEPT !.live = live, !.joins = joins]
  BY <1>2 DEF Reported, Books, At
<1>4. Gone \in End /\ Gone.at = "gone"
  BY HoldingType DEF Held
<1>5. Kept(ends, new, p, a, a)
  BY <1>2, <1>4, KeptAside
<1>6. new[l][p] = Gone
  BY <1>2, <1>4, WithEndType
<1>7. live \in [Peers -> Nat] /\ live[q] = 0 /\ \A x \in Peers : x # q => live[x] = a.live[x]
  BY <1>1, <1>2 DEF Books
<1>8. joins \subseteq Peers /\ p \notin joins /\ joins \subseteq a.joins \cup {q}
  BY <1>1, <1>2 DEF Books, BooksOf
<1>9. joins \subseteq Owes(ends, p, a)
  BY DEF Owes
<1>10. a.live[q] = l[3]
  OBVIOUS
<1> HIDE DEF a, live, joins, new
<1>11. /\ n \in Books /\ SameVoice(a, n) /\ n.live = live /\ n.joins = joins
       /\ n.joining = a.joining /\ n.peers = a.peers /\ n.dialing = a.dialing
       /\ n.dialed = a.dialed /\ n.accepted = a.accepted /\ n.linked = a.linked
  BY <1>2, <1>3, <1>7, <1>8, Zenon DEF Books, SameVoice
<1> HIDE DEF n
<1>12. BooksOf(p, n)
  BY <1>2, <1>7, <1>8, <1>11 DEF BooksOf
<1>13. ASSUME NEW k \in Links, p \in EndsOf(k), new[k][p].at # "gone", a.live[Far(k, p)] = k[3]
       PROVE  Far(k, p) \in Peers /\ Far(k, p) # q
  <2>1. k # l
    BY <1>4, <1>6, <1>13
  <2> QED BY <1>10, <1>13, <2>1, SameLink, FarType
<1>14. DriversOnTheBooks(new, p, n)
  <2> SUFFICES ASSUME NEW k \in Links, p \in EndsOf(k), new[k][p].at = "driving"
               PROVE  new[k][p].net = n.net /\ n.live[Far(k, p)] = k[3]
    BY DEF DriversOnTheBooks
  <2>1. new[k][p].net = a.net /\ a.live[Far(k, p)] = k[3]
    BY <1>5 DEF Kept, Books1, DriversOnTheBooks
  <2> QED BY <1>7, <1>11, <1>13, <2>1 DEF SameVoice
<1>15. JoinsOnTheBooks(new, p, n)
  <2>1. JoinsOnTheBooks(new, p, a) /\ a.joining = 0
    BY <1>5 DEF Kept, Books1, a
  <2>2. \A k \in Links : p \in EndsOf(k) => new[k][p].at # "joining"
    BY <2>1, LinkType DEF JoinsOnTheBooks
  <2>3. \A x \in joins : live[x] = 0
    BY <1>7, <1>8, <2>1 DEF JoinsOnTheBooks
  <2> QED BY <1>11, <2>1, <2>2, <2>3 DEF JoinsOnTheBooks
<1>16. Owes(new, p, n) \subseteq Owes(ends, p, a)
  <2>1. ASSUME NEW k \in Links, p \in EndsOf(k), n.live[Far(k, p)] = k[3]
        PROVE  a.live[Far(k, p)] = k[3]
    BY <1>7, <1>11, <2>1, LinkType, FarType
  <2>2. Owes(new, p, n) \subseteq joins \cup Owes(new, p, a)
    BY <1>11, <2>1 DEF Owes
  <2> QED BY <1>5, <1>9, <2>2 DEF Kept
<1> QED BY <1>5, <1>11, <1>12, <1>14, <1>15, <1>16 DEF Kept, Books1, a, n, new

\* A driver's report is a turn that changes nothing on the wire.
LEMMA DriverDoneTurn ==
    ASSUME Core, NEW l \in Links, NEW p \in EndsOf(l), DriverDone(l, p)
    PROVE  Turn(p) /\ SameVoice(mgr[p], mgr'[p])
<1>1. p \in Peers
  BY FarType
<1>2. /\ mgr[p].joining = 0 /\ ends[l][p].at \in {"dominated", "failed"}
      /\ ends' = WithEnd(ends, l, p, Gone)
  BY DEF DriverDone, Looping, At
<1>3. CASE mgr[p].live[Far(l, p)] = l[3]
  <2> DEFINE n == Reported(l, p)
  <2>1. EndTurn(p, n)
    BY <1>3 DEF DriverDone
  <2>2. Kept(ends, ends', p, mgr[p], n) /\ SameVoice(mgr[p], n)
    BY <1>2, <1>3, KeptReported
  <2> HIDE DEF n
  <2> QED BY <1>1, <2>1, <2>2, EndTurnKept DEF SameVoice
<1>4. CASE mgr[p].live[Far(l, p)] # l[3]
  <2>1. EndTurn(p, mgr[p])
    BY <1>4 DEF DriverDone
  <2>2. Gone \in End /\ Gone.at = "gone"
    BY HoldingType DEF Held
  <2>3. Kept(ends, ends', p, mgr[p], mgr[p])
    BY <1>1, <1>2, <2>2, KeptAside DEF Core
  <2> QED BY <1>1, <2>1, <2>3, EndTurnKept
<1> QED BY <1>3, <1>4

-----------------------------------------------------------------------------
(* The end of a join.                                                      *)

\* Books with which a join ends: whatever universe they are in, no driver is
\* there to disagree with them.
JoinedAs(a, m) ==
    /\ m \in Books /\ m.joins \subseteq a.joins
    /\ m.live = a.live /\ m.dialing = a.dialing /\ m.joining = a.joining
    /\ m.peers = a.peers /\ m.dialed = a.dialed /\ m.accepted = a.accepted
    /\ m.linked = a.linked

\* The end of a join is a turn, whichever universe the manager is in after it.
LEMMA JoinEndsTurn ==
    ASSUME Core, NEW l \in Links, NEW p \in EndsOf(l), Joining(l, p), NEW m,
           JoinedAs(mgr[p], m), JoinEnds(l, p, m)
    PROVE  Turn(p) /\ SameVoice(m, mgr'[p])
<1> DEFINE a == mgr[p]
           e == WithEnd(ends, l, p, Gone)
           n == [m EXCEPT !.joining = 0, !.via = 0]
           c == LinkAbsentM(e, p, n)
<1>1. p \in Peers /\ l[3] # 0
  BY FarType, LinkType
<1>2. a \in Books /\ BooksOf(p, a) /\ Books1(ends, p, a) /\ WellFormed(ends)
  BY <1>1 DEF Core, Books1
<1>3. ends[l][p].at = "joining" /\ a.joining = l[3] /\ a.via = Far(l, p) /\ JoinedAs(a, m)
  BY DEF Joining, At
<1>4. ends' = LinkAbsentE(e, p, n) /\ EndTurn(p, c)
  BY Zenon DEF JoinEnds
<1>5. Gone \in End /\ Gone.at = "gone"
  BY HoldingType DEF Held
<1>6. /\ WellFormed(e) /\ e[l][p] = Gone
      /\ \A k \in Links : \A r \in EndsOf(k) : k # l \/ r # p => e[k][r] = ends[k][r]
  BY <1>2, <1>5, WithEndType
<1> HIDE DEF a, e
<1>7. Only(ends, e, p) /\ Dials(ends, e, p)
  <2>1. Only(ends, e, p)
    BY <1>6 DEF Only
  <2> QED BY <1>5, <1>6, <2>1 DEF Dials
<1>8. /\ n \in Books /\ SameVoice(m, n) /\ n.joining = 0 /\ n.live = a.live
      /\ n.joins \subseteq a.joins /\ n.dialing = a.dialing /\ n.peers = a.peers
      /\ n.dialed = a.dialed /\ n.accepted = a.accepted /\ n.linked = a.linked
  BY <1>2, <1>3, Zenon DEF Books, JoinedAs, SameVoice
<1> HIDE DEF n
<1>9. BooksOf(p, n)
  BY <1>2, <1>8 DEF BooksOf
<1>10. \A q \in Peers : a.live[q] = 0
  BY <1>1, <1>2, <1>3 DEF Books1, JoinsOnTheBooks
<1>11. ASSUME NEW k \in Links, p \in EndsOf(k)
       PROVE  /\ e[k][p].at # "driving" /\ e[k][p].at # "joining"
              /\ n.live[Far(k, p)] # k[3]
  <2>1. a.live[Far(k, p)] # k[3]
    BY <1>10, <1>11, FarType, LinkType
  <2>2. CASE k = l
    BY <1>5, <1>6, <1>8, <2>1, <2>2
  <2>3. CASE k # l
    <3>1. e[k][p] = ends[k][p]
      BY <1>6, <1>11, <2>3
    <3>2. ends[k][p].at # "driving"
      BY <1>2, <1>11, <2>1 DEF Books1, DriversOnTheBooks
    <3>3. ends[k][p].at # "joining"
      BY <1>2, <1>3, <1>11, <2>3, SameLink DEF Books1, JoinsOnTheBooks
    <3> QED BY <1>8, <2>1, <3>1, <3>2, <3>3
  <2> QED BY <2>2, <2>3
<1>12. Books1(e, p, n)
  <2>1. DriversOnTheBooks(e, p, n)
    BY <1>11 DEF DriversOnTheBooks
  <2>2. a.joins \subseteq Peers
    BY <1>2 DEF Books
  <2>3. JoinsOnTheBooks(e, p, n)
    BY <1>8, <1>10, <1>11, <2>2 DEF JoinsOnTheBooks
  <2> QED BY <1>8, <1>9, <2>1, <2>3 DEF Books1
<1>13. Owes(e, p, n) \subseteq Owes(ends, p, a)
  BY <1>8, <1>11 DEF Owes
<1>14. Kept(ends, e, p, a, n)
  BY <1>7, <1>12, <1>13 DEF Kept
<1>15. Kept(e, ends', p, n, c) /\ SameVoice(n, c)
  BY <1>1, <1>4, <1>6, <1>8, <1>9, <1>12, KeptLinkAbsent, LinkAbsentType, Zenon
<1> HIDE DEF c
<1>16. Kept(ends, ends', p, a, c)
  BY <1>14, <1>15, KeptChain
<1>17. Turn(p) /\ SameVoice(c, mgr'[p])
  BY <1>1, <1>4, <1>16, EndTurnKept DEF a
<1> QED BY <1>8, <1>15, <1>17 DEF SameVoice

\* A join that fails is a turn that changes nothing on the wire.
LEMMA JoinFailsTurn ==
    ASSUME Core, NEW l \in Links, NEW p \in EndsOf(l), JoinFails(l, p)
    PROVE  Turn(p) /\ SameVoice(mgr[p], mgr'[p])
<1>1. mgr[p] \in Books
  BY FarType DEF Core
<1>2. JoinedAs(mgr[p], mgr[p])
  BY <1>1 DEF JoinedAs
<1>3. Joining(l, p) /\ JoinEnds(l, p, mgr[p])
  BY DEF JoinFails
<1> QED BY <1>2, <1>3, JoinEndsTurn

\* A join that succeeds takes the universe of the driver at the other end,
\* which is its manager's, and a real handle only where the record took it.
LEMMA JoinedTurn ==
    ASSUME Core, NEW l \in Links, NEW p \in EndsOf(l), Joined(l, p)
    PROVE  LET n == ends[l][Far(l, p)].net
           IN  /\ Turn(p) /\ n = mgr[Far(l, p)].net /\ n \in Networks
               /\ mgr'[p].net = n /\ mgr'[p].spoke
               /\ mgr'[p].handle = (IF mgr[p].disk THEN "real" ELSE "shed")
<1> DEFINE a == mgr[p]
           q == Far(l, p)
           n == ends[l][q].net
           events == mgr[q].events
           handle == IF a.disk THEN "real" ELSE "shed"
           m == Adopt(a, n, events, handle)
<1>1. p \in Peers /\ q \in Peers /\ q \in EndsOf(l) /\ Far(l, q) = p
  BY FarType, LinkType DEF EndsOf, Far
<1>2. a \in Books /\ mgr[q] \in Books /\ Books1(ends, q, mgr[q])
  BY <1>1 DEF Core
<1>3. Joining(l, p) /\ ends[l][q].at = "driving" /\ JoinEnds(l, p, m)
  BY DEF Joined, At
<1>4. n = mgr[q].net /\ n \in Networks
  BY <1>1, <1>2, <1>3 DEF Books1, DriversOnTheBooks, Books
<1>5. events \in 0..MaxEvents /\ handle \in {"real", "shed"}
  BY <1>2 DEF Books
<1> HIDE DEF n, events, handle
<1>6. m = [a EXCEPT !.net = n, !.events = events, !.handle = handle, !.spoke = TRUE,
                    !.joins = {}]
  BY DEF Adopt
<1> HIDE DEF a
<1>7. /\ JoinedAs(a, m) /\ m.net = n /\ m.spoke /\ m.handle = handle
  <2>1. m \in Books /\ m.net = n /\ m.spoke = TRUE /\ m.handle = handle
    BY <1>2, <1>4, <1>5, <1>6, Zenon DEF Books
  <2>2. /\ m.joins = {} /\ m.live = a.live /\ m.dialing = a.dialing /\ m.joining = a.joining
        /\ m.peers = a.peers /\ m.dialed = a.dialed /\ m.accepted = a.accepted
        /\ m.linked = a.linked
    BY <1>2, <1>6 DEF Books
  <2> QED BY <2>1, <2>2 DEF JoinedAs
<1> HIDE DEF m
<1>8. Turn(p) /\ SameVoice(m, mgr'[p])
  BY <1>3, <1>7, JoinEndsTurn DEF a
<1> QED BY <1>4, <1>7, <1>8 DEF SameVoice, n, handle, a

-----------------------------------------------------------------------------
(* The other steps of one peer.                                            *)

\* Books that say the same of links and of what is attested.
SameLinks(m, n) ==
    /\ SameBooks(m, n) /\ n.seen = m.seen /\ n.linked = m.linked
    /\ n.dialed = m.dialed /\ n.accepted = m.accepted

\* A step of the manager alone that keeps its links is a turn.
LEMMA BooksTurn ==
    ASSUME Core, NEW p \in Peers, NEW n \in Books, BooksOf(p, n), SameLinks(mgr[p], n),
           mgr' = [mgr EXCEPT ![p] = n], ends' = ends
    PROVE  Turn(p) /\ mgr'[p] = n
<1>1. mgr'[p] = n
  BY DEF Core
<1>2. Kept(ends, ends', p, mgr[p], n)
  BY KeptBooks DEF Core, SameLinks
<1>3. LinkedOK(n)
  <2>1. LinkedOf(n) = LinkedOf(mgr[p])
    BY DEF SameLinks, SameBooks, LinkedOf, Resolve
  <2>2. LinkedOK(mgr[p])
    BY DEF Core
  <2> QED BY <2>1, <2>2 DEF LinkedOK, SameLinks, SameBooks
<1> QED BY <1>1, <1>2, <1>3, Zenon DEF Turn

\* Announcing is a turn that changes nothing on the wire.
LEMMA AnnounceTurn ==
    ASSUME Core, NEW p \in Peers, Announce(p)
    PROVE  Turn(p) /\ SameVoice(mgr[p], mgr'[p])
<1> DEFINE a == mgr[p]
           events == a.events + 1
           n == [a EXCEPT !.events = events]
<1>1. a \in Books /\ BooksOf(p, a) /\ a.events < MaxEvents /\ ends' = ends
  BY DEF Core, Books1, Announce
<1>2. events \in 0..MaxEvents
  BY <1>1, GossipAssumption DEF Books
<1>3. mgr' = [mgr EXCEPT ![p] = n]
  BY <1>1 DEF Announce, Core, Books
<1> HIDE DEF a, events
<1>4. n \in Books /\ SameLinks(a, n) /\ SameVoice(a, n) /\ BooksOf(p, n)
  BY <1>1, <1>2 DEF Books, SameLinks, SameBooks, SameVoice, BooksOf
<1> HIDE DEF n
<1> QED BY <1>1, <1>3, <1>4, BooksTurn, Zenon DEF a

\* A disk that breaks is a turn that changes nothing on the wire.
LEMMA BreakTurn ==
    ASSUME Core, NEW p \in Peers, Break(p)
    PROVE  Turn(p) /\ SameVoice(mgr[p], mgr'[p])
<1> DEFINE a == mgr[p]
           n == [a EXCEPT !.disk = FALSE]
<1>1. a \in Books /\ BooksOf(p, a) /\ ends' = ends
  BY DEF Core, Books1, Break
<1>2. mgr' = [mgr EXCEPT ![p] = n]
  BY <1>1 DEF Break, Core, Books
<1> HIDE DEF a
<1>3. n \in Books /\ SameLinks(a, n) /\ SameVoice(a, n) /\ BooksOf(p, n)
  BY <1>1, Zenon DEF Books, SameLinks, SameBooks, SameVoice, BooksOf
<1> HIDE DEF n
<1> QED BY <1>1, <1>2, <1>3, BooksTurn, Zenon DEF a

\* The peer set changes.
LEMMA PeerSetTurn ==
    ASSUME Core, NEW p \in Peers, NEW q \in Peers, Forget(p, q) \/ Recall(p, q)
    PROVE  Turn(p) /\ SameVoice(mgr[p], mgr'[p])
<1> DEFINE a == mgr[p]
<1>1. a \in Books /\ BooksOf(p, a) /\ ends' = ends
  BY DEF Core, Books1, Forget, Recall
<1>2. Known[p] \subseteq Peers
  BY GossipAssumption
<1>3. PICK peers \in SUBSET Known[p] :
        mgr' = [mgr EXCEPT ![p] = [a EXCEPT !.peers = peers, !.news = TRUE]]
  <2>1. CASE Forget(p, q)
    <3>1. a.peers \ {q} \in SUBSET Known[p]
      BY <1>1 DEF BooksOf
    <3>2. mgr' = [mgr EXCEPT ![p] = [a EXCEPT !.peers = a.peers \ {q}, !.news = TRUE]]
      BY <1>1, <2>1, Zenon DEF Forget, Core, Books
    <3> QED BY <3>1, <3>2, Zenon
  <2>2. CASE Recall(p, q)
    <3>1. a.peers \cup {q} \in SUBSET Known[p]
      BY <1>1, <2>2 DEF Recall, BooksOf
    <3>2. mgr' = [mgr EXCEPT ![p] = [a EXCEPT !.peers = a.peers \cup {q}, !.news = TRUE]]
      BY <1>1, <2>2, Zenon DEF Recall, Core, Books
    <3> QED BY <3>1, <3>2, Zenon
  <2> QED BY <2>1, <2>2, Zenon
<1> DEFINE n == [a EXCEPT !.peers = peers, !.news = TRUE]
<1> HIDE DEF a
<1>4. n \in Books /\ SameLinks(a, n) /\ SameVoice(a, n) /\ BooksOf(p, n)
  <2>1. /\ n \in Books /\ SameLinks(a, n) /\ SameVoice(a, n) /\ n.peers = peers
        /\ n.dialing = a.dialing
    BY <1>1, <1>2, Zenon DEF Books, SameLinks, SameBooks, SameVoice
  <2> HIDE DEF n
  <2> QED BY <1>1, <2>1 DEF BooksOf, SameLinks, SameBooks
<1> HIDE DEF n
<1> QED BY <1>1, <1>3, <1>4, BooksTurn, Zenon DEF a, n

\* Only p's end of a link changes, and is put aside.
LEMMA AsideTurn ==
    ASSUME Core, NEW l \in Links, NEW p \in EndsOf(l), NEW at \in {"failed", "refused"},
           ends[l][p].at \in {"dialing", "driving"},
           ends' = WithEnd(ends, l, p, Holding(at)), mgr' = mgr
    PROVE  Turn(p)
<1>1. p \in Peers
  BY FarType
<1>2. Holding(at) \in End /\ Holding(at).at = at
  BY HoldingType DEF Held
<1>3. Kept(ends, ends', p, mgr[p], mgr[p])
  BY <1>1, <1>2, KeptAside DEF Core
<1>4. LinkedOK(mgr[p]) /\ mgr' = [mgr EXCEPT ![p] = mgr[p]]
  BY <1>1 DEF Core
<1> QED BY <1>3, <1>4, Zenon DEF Turn

\* A new process has no tasks and no books.
LEMMA FreshType ==
    ASSUME NEW p \in Peers, NEW net \in Networks, NEW peers \in SUBSET Known[p],
           NEW disk \in BOOLEAN
    PROVE  LET n == Fresh(p, net, peers, disk)
           IN  /\ n \in Books /\ BooksOf(p, n) /\ LinkedOK(n)
               /\ n.joins = {} /\ n.joining = 0 /\ ~n.spoke
               /\ \A q \in Peers : n.live[q] = 0
<1> DEFINE n == Fresh(p, net, peers, disk)
           none == [q \in Peers |-> 0]
           handle == IF disk THEN "real" ELSE "shed"
<1>1. none \in [Peers -> Nat] /\ handle \in {"real", "shed"} /\ 0 \in 0..MaxEvents
  BY GossipAssumption
<1>2. peers \in SUBSET Peers
  BY GossipAssumption
<1>3. \A q \in Peers : none[q] = 0
  OBVIOUS
<1> HIDE DEF none, handle
<1>4. n = [net |-> net, events |-> 0, spoke |-> FALSE, handle |-> handle, disk |-> disk,
           peers |-> peers, news |-> FALSE, live |-> none, dialing |-> none,
           joins |-> {}, joining |-> 0, via |-> 0,
           dialed |-> {}, accepted |-> {}, seen |-> TRUE, linked |-> {}]
  BY Zenon DEF Fresh, none, handle
<1> HIDE DEF n
<1>5. n \in Books
  BY <1>1, <1>2, <1>4 DEF Books
<1>6. /\ n.peers = peers /\ n.joins = {} /\ n.dialed = {} /\ n.accepted = {} /\ n.linked = {}
      /\ n.joining = 0 /\ n.spoke = FALSE /\ n.live = none /\ n.dialing = none
  BY <1>4
<1>7. BooksOf(p, n)
  BY <1>3, <1>6 DEF BooksOf
<1>8. LinkedOK(n)
  <2>1. {r \in Peers : n.live[r] # 0} = {}
    BY <1>3, <1>6
  <2> QED BY <1>6, <2>1 DEF LinkedOK, LinkedOf
<1> QED BY <1>3, <1>5, <1>6, <1>7, <1>8 DEF n

\* A restart is a turn after which the peer has not spoken.
LEMMA RestartTurn ==
    ASSUME Core, NEW p \in Peers, Restart(p)
    PROVE  Turn(p) /\ ~mgr'[p].spoke
<1>1. mgr[p].peers \in SUBSET Known[p] /\ mgr[p].disk \in BOOLEAN /\ WellFormed(ends)
  BY DEF Core, Books1, Books, BooksOf
<1>2. PICK net \in Networks :
        mgr' = [mgr EXCEPT ![p] = Fresh(p, net, mgr[p].peers, mgr[p].disk)]
  BY Zenon DEF Restart
<1> DEFINE n == Fresh(p, net, mgr[p].peers, mgr[p].disk)
<1>3. mgr'[p] = n
  BY <1>2 DEF Core
<1>4. /\ n \in Books /\ BooksOf(p, n) /\ LinkedOK(n)
      /\ n.joins = {} /\ n.joining = 0 /\ ~n.spoke
  BY <1>1, FreshType, Zenon
<1> HIDE DEF n
<1>5. ASSUME NEW k \in Links
      PROVE  /\ ends'[k] \in [EndsOf(k) -> End]
             /\ \A r \in EndsOf(k) : r # p => ends'[k][r] = ends[k][r]
             /\ p \in EndsOf(k) => ends'[k][p].at = "gone"
  <2>1. ends[k] \in [EndsOf(k) -> End]
    BY <1>1 DEF WellFormed, End
  <2>2. Gone \in End /\ Gone.at = "gone"
    BY HoldingType DEF Held
  <2>3. ends'[k] = IF p \in EndsOf(k) THEN [ends[k] EXCEPT ![p] = Gone] ELSE ends[k]
    BY DEF Restart
  <2> QED BY <2>1, <2>2, <2>3
<1>6. Only(ends, ends', p) /\ Dials(ends, ends', p)
  <2>1. DOMAIN ends' = Links
    BY DEF Restart
  <2>2. Only(ends, ends', p)
    BY <1>5, <2>1 DEF Only, WellFormed, End
  <2> QED BY <1>5, <2>2 DEF Dials
<1>7. DriversOnTheBooks(ends', p, n) /\ JoinsOnTheBooks(ends', p, n)
  BY <1>4, <1>5 DEF DriversOnTheBooks, JoinsOnTheBooks
<1>8. Owes(ends', p, n) = {}
  BY <1>4, <1>5 DEF Owes
<1> QED BY <1>2, <1>3, <1>4, <1>6, <1>7, <1>8, Zenon DEF Turn, Kept, Books1, n

-----------------------------------------------------------------------------
(* The steps of both ends of a link.                                       *)

\* Both peers' books change in nothing the ends depend on, and their ends
\* neither start nor stop anything.
LEMMA BothCore ==
    ASSUME Core, mgr' \in [Peers -> Books], WellFormed(ends'), DialsAlone(ends'),
           \A r \in Peers : /\ Quieter(ends, ends', r) /\ BooksOf(r, mgr'[r])
                            /\ SameBooks(mgr[r], mgr'[r]) /\ LinkedOK(mgr'[r])
    PROVE  Core'
<1>1. ASSUME NEW r \in Peers
      PROVE  /\ Books1(ends', r, mgr'[r])
             /\ Owes(ends', r, mgr'[r]) \subseteq Owes(ends, r, mgr[r])
  <2>1. Books1(ends', r, mgr[r]) /\ Owes(ends', r, mgr[r]) \subseteq Owes(ends, r, mgr[r])
    BY QuieterKept, Zenon DEF Core
  <2> QED BY <2>1, SameBooksKept
<1>2. DebtsOneWay'
  BY <1>1 DEF Core, DebtsOneWay
<1> QED BY <1>1, <1>2 DEF Core

\* What an attestation leaves alone.
LEMMA AttestKept ==
    ASSUME NEW p \in Peers, NEW q \in Peers, q # p, NEW m \in Books, BooksOf(p, m), LinkedOK(m),
           NEW n, n = AttestDialed(m, q) \/ n = AttestAccepted(m, q)
    PROVE  n \in Books /\ BooksOf(p, n) /\ LinkedOK(n) /\ SameBooks(m, n) /\ SameVoice(m, n)
<1>1. CASE n = m
  BY <1>1 DEF SameBooks, SameVoice
<1>2. CASE n # m
  <2> DEFINE d == IF n = AttestDialed(m, q) THEN m.dialed \cup {q} ELSE m.dialed
             a == IF n = AttestDialed(m, q) THEN m.accepted ELSE m.accepted \cup {q}
  <2>1. n = [m EXCEPT !.dialed = d, !.accepted = a, !.seen = FALSE]
    BY <1>2, Zenon DEF AttestDialed, AttestAccepted, Books
  <2>2. d \in SUBSET Peers /\ a \in SUBSET Peers /\ p \notin d /\ p \notin a
    BY DEF Books, BooksOf
  <2> HIDE DEF d, a
  <2>3. /\ n \in Books /\ SameBooks(m, n) /\ SameVoice(m, n) /\ n.seen = FALSE
        /\ n.dialed = d /\ n.accepted = a /\ n.linked = m.linked /\ n.peers = m.peers
        /\ n.dialing = m.dialing
    BY <2>1, <2>2, Zenon DEF Books, SameBooks, SameVoice
  <2>4. BooksOf(p, n)
    BY <2>2, <2>3 DEF BooksOf, SameBooks
  <2> QED BY <2>3, <2>4 DEF LinkedOK
<1> QED BY <1>1, <1>2

\* An attestation changes only what the managers know of their peers.
LEMMA AttestedType ==
    ASSUME Core, NEW l \in Links
    PROVE  /\ Attested(l) \in [Peers -> Books]
           /\ \A r \in Peers : /\ BooksOf(r, Attested(l)[r]) /\ LinkedOK(Attested(l)[r])
                               /\ SameBooks(mgr[r], Attested(l)[r])
                               /\ SameVoice(mgr[r], Attested(l)[r])
<1> DEFINE n(r) == Attested(l)[r]
<1>1. ASSUME NEW r \in Peers
      PROVE  n(r) \in Books /\ BooksOf(r, n(r)) /\ LinkedOK(n(r)) /\ SameBooks(mgr[r], n(r))
             /\ SameVoice(mgr[r], n(r))
  <2>1. /\ l[1] \in Peers /\ l[2] \in Peers /\ l[1] # l[2]
        /\ mgr[r] \in Books /\ BooksOf(r, mgr[r]) /\ LinkedOK(mgr[r])
    BY LinkType DEF Core, Books1
  <2>2. CASE r = l[1]
    <3>1. r # l[2]
      BY <2>1, <2>2
    <3>2. n(r) = AttestDialed(mgr[r], l[2])
      BY <2>2, <3>1 DEF Attested
    <3> HIDE DEF n
    <3> QED BY <2>1, <2>2, <3>2, AttestKept
  <2>3. CASE r = l[2]
    <3>1. r # l[1]
      BY <2>1, <2>3
    <3>2. n(r) = AttestAccepted(mgr[r], l[1])
      BY <2>3, <3>1, Zenon DEF Attested
    <3> HIDE DEF n
    <3> QED BY <2>1, <2>3, <3>2, AttestKept
  <2>4. CASE r # l[1] /\ r # l[2]
    <3>1. n(r) = mgr[r]
      BY <2>4 DEF Attested
    <3> HIDE DEF n
    <3> QED BY <2>1, <3>1 DEF SameBooks, SameVoice
  <2> QED BY <2>2, <2>3, <2>4
<1>2. Attested(l) = [r \in Peers |-> n(r)]
  BY DEF Attested
<1> QED BY <1>1, <1>2

\* A dial that connects keeps the invariant of the books.
LEMMA StreamDialCore ==
    ASSUME Core, NEW l \in Links, StreamDial(l)
    PROVE  Core' /\ \A r \in Peers : SameVoice(mgr[r], mgr'[r])
<1>1. mgr' = Attested(l) /\ ends' = ends
  BY DEF StreamDial
<1>2. \A r \in Peers : Quieter(ends, ends', r)
  BY <1>1 DEF Quieter
<1> QED BY <1>1, <1>2, AttestedType, BothCore DEF Core

\* The acceptor's end appears, over a link that was being dialed.
LEMMA QueuedEnds ==
    ASSUME Core, NEW l \in Links, ends[l][l[1]].at = "dialing", NEW at \in {"dialed", "refused"},
           ends' = [ends EXCEPT ![l] = [r \in EndsOf(l) |->
                                          Holding(IF r = l[1] THEN at ELSE "queued")]]
    PROVE  /\ WellFormed(ends') /\ DialsAlone(ends')
           /\ \A r \in Peers : Quieter(ends, ends', r)
<1> DEFINE f == [r \in EndsOf(l) |-> Holding(IF r = l[1] THEN at ELSE "queued")]
<1>1. /\ Holding(at) \in End /\ Holding(at).at = at
      /\ Holding("queued") \in End /\ Holding("queued").at = "queued"
  BY HoldingType DEF Held
<1>2. f \in [EndsOf(l) -> End] /\ \A r \in EndsOf(l) : f[r].at \in {at, "queued"}
  BY <1>1
<1>3. EndsOf(l) = {l[1], l[2]} /\ f[l[1]].at = at
  BY <1>1 DEF EndsOf
<1>4. WellFormed(ends') /\ ends'[l] = f /\ \A k \in Links : k # l => ends'[k] = ends[k]
  <2>1. ends' = [ends EXCEPT ![l] = f] /\ WellFormed(ends)
    BY DEF Core
  <2> HIDE DEF f
  <2> QED BY <1>2, <2>1 DEF WellFormed, End
<1> HIDE DEF f
<1>5. ends[l][l[2]].at = "gone"
  BY DEF Core, DialsAlone
<1>6. DialsAlone(ends')
  BY <1>3, <1>4 DEF Core, DialsAlone
<1>7. \A r \in Peers : Quieter(ends, ends', r)
  BY <1>2, <1>3, <1>4, <1>5 DEF Quieter
<1> QED BY <1>4, <1>6, <1>7

\* A handshake keeps the invariant of the books.
LEMMA HandshakeCore ==
    ASSUME Core, NEW l \in Links, Handshake(l)
    PROVE  Core' /\ \A r \in Peers : SameVoice(mgr[r], mgr'[r])
<1>1. /\ mgr' = Attested(l) /\ ends[l][l[1]].at = "dialing"
      /\ ends' = [ends EXCEPT ![l] = [r \in EndsOf(l) |->
                                        Holding(IF r = l[1] THEN "dialed" ELSE "queued")]]
  BY DEF Handshake, At
<1>2. /\ WellFormed(ends') /\ DialsAlone(ends')
      /\ \A r \in Peers : Quieter(ends, ends', r)
  BY <1>1, QueuedEnds, Zenon
<1> QED BY <1>1, <1>2, AttestedType, BothCore

\* A handshake that fails keeps the invariant of the books.
LEMMA HandshakeFailsCore ==
    ASSUME Core, NEW l \in Links, HandshakeFails(l)
    PROVE  Core' /\ \A r \in Peers : SameVoice(mgr[r], mgr'[r])
<1>1. ends[l][l[1]].at = "dialing" /\ l[1] \in EndsOf(l) /\ l[1] \in Peers /\ l[2] \in Peers
      /\ l[1] # l[2]
  BY LinkType DEF HandshakeFails, At, EndsOf
<1>2. CASE ends' = WithEnd(ends, l, l[1], Holding("refused")) /\ mgr' = mgr
  BY <1>1, <1>2, AsideTurn, TurnCore DEF SameVoice
<1>3. CASE /\ ends' = [ends EXCEPT ![l] = [r \in EndsOf(l) |->
                                            Holding(IF r = l[1] THEN "refused" ELSE "queued")]]
           /\ mgr' = [mgr EXCEPT ![l[2]] = AttestAccepted(@, l[1])]
  <2> DEFINE n == AttestAccepted(mgr[l[2]], l[1])
  <2>1. /\ WellFormed(ends') /\ DialsAlone(ends')
        /\ \A r \in Peers : Quieter(ends, ends', r)
    BY <1>1, <1>3, QueuedEnds, Zenon
  <2>2. /\ n \in Books /\ BooksOf(l[2], n) /\ LinkedOK(n) /\ SameBooks(mgr[l[2]], n)
        /\ SameVoice(mgr[l[2]], n)
    BY <1>1, AttestKept DEF Core, Books1
  <2>3. mgr' = [mgr EXCEPT ![l[2]] = n]
    BY <1>3
  <2> HIDE DEF n
  <2>4. mgr' \in [Peers -> Books]
    BY <2>2, <2>3, Zenon DEF Core
  <2>5. ASSUME NEW r \in Peers
        PROVE  /\ BooksOf(r, mgr'[r]) /\ LinkedOK(mgr'[r])
               /\ SameBooks(mgr[r], mgr'[r]) /\ SameVoice(mgr[r], mgr'[r])
    <3>1. CASE r = l[2]
      BY <2>2, <2>3, <3>1 DEF Core
    <3>2. CASE r # l[2]
      <4>1. mgr'[r] = mgr[r]
        BY <2>3, <3>2 DEF Core
      <4> QED BY <4>1 DEF Core, Books1, SameBooks, SameVoice
    <3> QED BY <3>1, <3>2
  <2> QED BY <2>1, <2>4, <2>5, BothCore
<1> QED BY <1>2, <1>3 DEF HandshakeFails

-----------------------------------------------------------------------------
(* Sessions.                                                               *)

\* Two drivers of one link owe each other nothing.
LEMMA DriversEven ==
    ASSUME Core, NEW l \in Links, NEW p \in EndsOf(l), ends[l][p].at = "driving"
    PROVE  Far(l, p) \notin Owes(ends, p, mgr[p])
<1>1. p \in Peers /\ Far(l, p) \in Peers /\ l[3] # 0
  BY FarType, LinkType
<1>2. Books1(ends, p, mgr[p])
  BY <1>1 DEF Core
<1>3. mgr[p].live[Far(l, p)] = l[3]
  BY <1>2 DEF Books1, DriversOnTheBooks
<1>4. Far(l, p) \notin mgr[p].joins
  BY <1>1, <1>2, <1>3 DEF Books1, JoinsOnTheBooks
<1>5. ASSUME NEW k \in Links, p \in EndsOf(k), ends[k][p].at = "dominated",
             mgr[p].live[Far(k, p)] = k[3], Far(k, p) = Far(l, p)
      PROVE  FALSE
  BY <1>3, <1>5, SameLink
<1> QED BY <1>4, <1>5 DEF Owes

\* The rule of the collision has at most one loser.
LEMMA OneLoser ==
    ASSUME NEW a \in Nat, NEW b \in Nat, NEW x \in Networks, NEW y \in Networks,
           RemoteDominates(a, b, x, y)
    PROVE  ~RemoteDominates(b, a, y, x)
<1>1. x \in Nat /\ y \in Nat
  BY GossipAssumption
<1> QED BY <1>1 DEF RemoteDominates

\* A session may end an end that was driving, and only the loser's in debt.
LEMMA SessionEnds ==
    ASSUME Core, NEW l \in Links, \A r \in EndsOf(l) : ends[l][r].at = "driving",
           NEW at \in [EndsOf(l) -> {"dominated", "failed"}],
           \E r \in EndsOf(l) : at[r] = "failed",
           ends' = [ends EXCEPT ![l] = [r \in EndsOf(l) |-> Holding(at[r])]],
           mgr' \in [Peers -> Books],
           \A r \in Peers : /\ BooksOf(r, mgr'[r]) /\ SameBooks(mgr[r], mgr'[r])
                            /\ LinkedOK(mgr'[r])
    PROVE  Core'
<1> DEFINE f == [r \in EndsOf(l) |-> Holding(at[r])]
<1>1. f \in [EndsOf(l) -> End] /\ \A r \in EndsOf(l) : f[r].at = at[r]
  BY HoldingType DEF Held
<1>2. WellFormed(ends') /\ ends'[l] = f /\ \A k \in Links : k # l => ends'[k] = ends[k]
  <2>1. ends' = [ends EXCEPT ![l] = f] /\ WellFormed(ends)
    BY DEF Core
  <2> HIDE DEF f
  <2> QED BY <1>1, <2>1 DEF WellFormed, End
<1> HIDE DEF f
<1>3. DialsAlone(ends')
  <2>1. l[1] \in EndsOf(l)
    BY DEF EndsOf
  <2> QED BY <1>1, <1>2, <2>1 DEF Core, DialsAlone
<1>4. ASSUME NEW r \in Peers
      PROVE  /\ Books1(ends', r, mgr'[r])
             /\ Owes(ends', r, mgr'[r]) = Owes(ends', r, mgr[r])
  <2>1. \A k \in Links : r \in EndsOf(k) /\ ends'[k][r].at \in {"driving", "joining"}
                           => ends'[k][r] = ends[k][r]
    BY <1>1, <1>2
  <2>2. \A k \in Links : r \in EndsOf(k) /\ ends[k][r].at = "joining"
                           => ends'[k][r] = ends[k][r]
    BY <1>1, <1>2
  <2>3. Books1(ends', r, mgr[r])
    BY <2>1, <2>2 DEF Core, Books1, DriversOnTheBooks, JoinsOnTheBooks
  <2> QED BY <2>3, SameBooksKept
<1>5. ASSUME NEW r \in Peers, r \in EndsOf(l) => at[r] = "failed"
      PROVE  Owes(ends', r, mgr[r]) \subseteq Owes(ends, r, mgr[r])
  <2>1. \A k \in Links : r \in EndsOf(k) /\ ends'[k][r].at = "dominated"
                           => ends'[k][r] = ends[k][r]
    BY <1>1, <1>2, <1>5
  <2> QED BY <2>1, Zenon DEF Owes
<1>6. ASSUME NEW r \in EndsOf(l)
      PROVE  Owes(ends', r, mgr[r]) \subseteq Owes(ends, r, mgr[r]) \cup {Far(l, r)}
  BY <1>1, <1>2 DEF Owes
<1>7. DebtsOneWay'
  <2> SUFFICES ASSUME NEW p \in Peers, NEW q \in Peers,
                      q \in Owes(ends', p, mgr'[p]), p \in Owes(ends', q, mgr'[q])
               PROVE  FALSE
    BY Zenon DEF DebtsOneWay
  <2>1. q \in Owes(ends', p, mgr[p]) /\ p \in Owes(ends', q, mgr[q])
    BY <1>4, Zenon
  <2>2. ~(q \in Owes(ends, p, mgr[p]) /\ p \in Owes(ends, q, mgr[q]))
    BY DEF Core, DebtsOneWay
  <2>3. ASSUME NEW a \in Peers, NEW b \in Peers, b \in Owes(ends', a, mgr[a]),
               b \notin Owes(ends, a, mgr[a]), a \in Owes(ends', b, mgr[b])
        PROVE  FALSE
    <3>1. a \in EndsOf(l) /\ at[a] # "failed" /\ b = Far(l, a)
      BY <1>5, <1>6, <2>3, Zenon
    <3>2. b \in EndsOf(l) /\ Far(l, b) = a /\ EndsOf(l) = {a, b}
      BY <3>1, LinkType DEF EndsOf, Far
    <3>3. at[b] = "failed"
      BY <3>1, <3>2
    <3>4. a \in Owes(ends, b, mgr[b])
      BY <1>5, <2>3, <3>3, Zenon
    <3> QED BY <3>2, <3>4, DriversEven
  <2> QED BY <2>1, <2>2, <2>3, Zenon
<1> QED BY <1>2, <1>3, <1>4, <1>7 DEF Core

\* A session keeps the invariant of the books, and only its ends speak in it,
\* through the gate.
LEMMA SessionCore ==
    ASSUME Core, NEW l \in Links, Session(l)
    PROVE  /\ Core'
           /\ \A r \in Peers : /\ mgr'[r].net = mgr[r].net /\ mgr'[r].handle = mgr[r].handle
                               /\ mgr'[r].spoke # mgr[r].spoke => r \in EndsOf(l) /\ Gate(r)
<1> DEFINE p == l[1]
           q == l[2]
           top == Max({mgr[p].events, mgr[q].events})
           same == ends[l][p].net = ends[l][q].net
           open == Gate(p) /\ Gate(q)
           as(r) == IF same THEN top ELSE mgr[r].events
           n(r) == [mgr[r] EXCEPT !.events = as(r), !.spoke = TRUE]
<1>1. /\ p \in Peers /\ q \in Peers /\ p # q /\ p \in EndsOf(l) /\ q \in EndsOf(l)
      /\ EndsOf(l) = {p, q} /\ Far(l, p) = q /\ Far(l, q) = p
  BY LinkType DEF EndsOf, Far
<1>2. /\ mgr \in [Peers -> Books] /\ WellFormed(ends)
      /\ \A r \in Peers : BooksOf(r, mgr[r]) /\ LinkedOK(mgr[r])
  BY DEF Core, Books1
<1>3. ends[l][p].at = "driving" /\ ends[l][q].at = "driving"
  BY Zenon DEF Session, At
<1>4. IF open THEN mgr' = [r \in Peers |-> IF r \in EndsOf(l) THEN n(r) ELSE mgr[r]]
              ELSE mgr' = mgr
  BY Zenon DEF Session
<1>5. \/ open /\ same /\ ends' = ends
      \/ open /\ ~same /\ ends' = [ends EXCEPT ![l] = [r \in EndsOf(l) |-> Holding(Verdict(l, r))]]
      \/ ends' = [ends EXCEPT ![l] = [r \in EndsOf(l) |-> Holding("failed")]]
  BY Zenon DEF Session
<1>6. top \in 0..MaxEvents
  <2>1. mgr[p].events \in 0..MaxEvents /\ mgr[q].events \in 0..MaxEvents
    BY <1>1, <1>2 DEF Books
  <2>2. \A a, b \in Nat : Max({a, b}) \in {a, b}
    <3> SUFFICES ASSUME NEW a \in Nat, NEW b \in Nat PROVE Max({a, b}) \in {a, b}
      OBVIOUS
    <3>1. PICK x \in {a, b} : \A y \in {a, b} : x >= y
      BY a >= b \/ b >= a
    <3> QED BY <3>1 DEF Max
  <2>3. top \in {mgr[p].events, mgr[q].events}
    BY <2>1, <2>2, GossipAssumption
  <2> QED BY <2>1, <2>3
<1>7. /\ ends[l][p].net = mgr[p].net /\ ends[l][q].net = mgr[q].net
      /\ mgr[p].net \in Networks /\ mgr[q].net \in Networks
      /\ mgr[p].events \in Nat /\ mgr[q].events \in Nat
  <2>1. DriversOnTheBooks(ends, p, mgr[p]) /\ DriversOnTheBooks(ends, q, mgr[q])
    BY <1>1 DEF Core, Books1
  <2>2. mgr[p].events \in 0..MaxEvents /\ mgr[q].events \in 0..MaxEvents
    BY <1>1, <1>2 DEF Books
  <2> QED BY <1>1, <1>2, <1>3, <2>1, <2>2 DEF DriversOnTheBooks, Books
<1> HIDE DEF p, q, top, same, open
<1>8. ASSUME NEW r \in Peers
      PROVE  /\ n(r) \in Books /\ SameLinks(mgr[r], n(r)) /\ BooksOf(r, n(r))
             /\ LinkedOK(n(r)) /\ n(r).handle = mgr[r].handle
  <2> DEFINE a == mgr[r]
             e == as(r)
  <2>1. a \in Books /\ BooksOf(r, a) /\ LinkedOK(a) /\ e \in 0..MaxEvents
    BY <1>2, <1>6 DEF Books
  <2> HIDE DEF a, as, e
  <2>2. n(r) = [a EXCEPT !.events = e, !.spoke = TRUE]
    BY DEF a, e
  <2>3. /\ n(r) \in Books /\ SameLinks(a, n(r)) /\ n(r).handle = a.handle
        /\ n(r).peers = a.peers /\ n(r).dialing = a.dialing
    BY <2>1, <2>2, Zenon DEF Books, SameLinks, SameBooks
  <2> HIDE DEF n
  <2>4. BooksOf(r, n(r))
    BY <2>1, <2>3 DEF BooksOf, SameLinks, SameBooks
  <2>5. LinkedOf(n(r)) = LinkedOf(a)
    BY <2>3 DEF SameLinks, SameBooks, LinkedOf, Resolve
  <2>6. LinkedOK(n(r))
    BY <2>1, <2>3, <2>5 DEF LinkedOK, SameLinks, SameBooks
  <2> QED BY <2>3, <2>4, <2>6 DEF a
<1> HIDE DEF n
<1>9. ASSUME NEW r \in Peers
      PROVE  /\ mgr'[r] \in Books /\ SameBooks(mgr[r], mgr'[r]) /\ BooksOf(r, mgr'[r])
             /\ LinkedOK(mgr'[r]) /\ mgr'[r].handle = mgr[r].handle
             /\ mgr'[r].spoke # mgr[r].spoke => r \in EndsOf(l) /\ open
  <2>1. CASE open /\ r \in EndsOf(l)
    BY <1>4, <1>8, <2>1 DEF SameLinks
  <2>2. CASE ~(open /\ r \in EndsOf(l))
    <3>1. mgr'[r] = mgr[r]
      BY <1>4, <2>2
    <3> QED BY <1>2, <3>1 DEF SameBooks
  <2> QED BY <2>1, <2>2
<1>10. mgr' \in [Peers -> Books]
  <2>1. mgr' = [r \in Peers |-> mgr'[r]]
    BY <1>2, <1>4
  <2> QED BY <1>9, <2>1
<1>11. \A r \in EndsOf(l) : ends[l][r].at = "driving"
  BY <1>1, <1>3
<1>12. Core'
  <2>1. CASE ends' = ends
    <3>1. \A r \in Peers : Quieter(ends, ends', r)
      BY <2>1 DEF Quieter
    <3>2. WellFormed(ends') /\ DialsAlone(ends')
      BY <2>1 DEF Core
    <3> QED BY <1>9, <1>10, <3>1, <3>2, BothCore
  <2>2. CASE ~same /\ ends' = [ends EXCEPT ![l] = [r \in EndsOf(l) |-> Holding(Verdict(l, r))]]
    <3> DEFINE at == [r \in EndsOf(l) |-> Verdict(l, r)]
    <3>1. at \in [EndsOf(l) -> {"dominated", "failed"}]
      BY DEF Verdict
    <3>2. \E r \in EndsOf(l) : at[r] = "failed"
      <4>1. Verdict(l, p) = "dominated" =>
              RemoteDominates(mgr[p].events, mgr[q].events, mgr[p].net, mgr[q].net)
        BY <1>1, <1>7 DEF Verdict
      <4>2. Verdict(l, q) = "dominated" =>
              RemoteDominates(mgr[q].events, mgr[p].events, mgr[q].net, mgr[p].net)
        BY <1>1, <1>7 DEF Verdict
      <4>3. Verdict(l, p) = "failed" \/ Verdict(l, q) = "failed"
        BY <1>7, <4>1, <4>2, OneLoser DEF Verdict
      <4> QED BY <1>1, <4>3
    <3>3. ends' = [ends EXCEPT ![l] = [r \in EndsOf(l) |-> Holding(at[r])]]
      BY <2>2, Zenon
    <3> HIDE DEF at
    <3> QED BY <1>9, <1>10, <1>11, <3>1, <3>2, <3>3, SessionEnds, Zenon
  <2>3. CASE ends' = [ends EXCEPT ![l] = [r \in EndsOf(l) |-> Holding("failed")]]
    <3> DEFINE at == [r \in EndsOf(l) |-> "failed"]
    <3>1. at \in [EndsOf(l) -> {"dominated", "failed"}] /\ \E r \in EndsOf(l) : at[r] = "failed"
      BY <1>1
    <3>2. ends' = [ends EXCEPT ![l] = [r \in EndsOf(l) |-> Holding(at[r])]]
      BY <2>3, Zenon
    <3> HIDE DEF at
    <3> QED BY <1>9, <1>10, <1>11, <3>1, <3>2, SessionEnds, Zenon
  <2> QED BY <1>5, <2>1, <2>2, <2>3
<1> QED BY <1>1, <1>9, <1>12 DEF SameBooks, open

-----------------------------------------------------------------------------
(* The record and the wire.                                                *)

Wire ==
    /\ record \in [Peers -> Networks \cup {0}] /\ late \in [Peers -> Networks \cup {0}]
    /\ upsets \in 0..MaxUpsets
    /\ LateIsCurrent /\ RecordCoversWire

\* Upsets are counted within their bound.
LEMMA UpsetType ==
    ASSUME upsets \in 0..MaxUpsets, Upset \/ upsets' = upsets
    PROVE  upsets' \in 0..MaxUpsets
BY GossipAssumption DEF Upset

\* A turn of one manager changes nothing that the others have said.
LEMMA TurnVoice ==
    ASSUME Core, NEW p \in Peers, Turn(p), SameVoice(mgr[p], mgr'[p])
    PROVE  \A r \in Peers : SameVoice(mgr[r], mgr'[r])
<1>1. \A r \in Peers : r # p => mgr'[r] = mgr[r]
  BY DEF Turn, Core
<1> QED BY <1>1 DEF SameVoice

\* Nothing is said, stored or adopted.
LEMMA WireKept ==
    ASSUME Core, Wire, \A r \in Peers : SameVoice(mgr[r], mgr'[r]), record' = record,
           late' = late \/ \E p \in Peers : late' = [late EXCEPT ![p] = mgr[p].net],
           Upset \/ upsets' = upsets
    PROVE  Wire'
<1>1. upsets' \in 0..MaxUpsets
  BY UpsetType DEF Wire
<1>2. \A r \in Peers : mgr[r].net \in Networks
  BY DEF Core, Books
<1>3. /\ late' \in [Peers -> Networks \cup {0}]
      /\ \A r \in Peers : late'[r] = late[r] \/ late'[r] = mgr[r].net
  BY <1>2 DEF Wire
<1>4. LateIsCurrent'
  BY <1>3 DEF Wire, LateIsCurrent, SameVoice
<1>5. RecordCoversWire'
  BY DEF Wire, RecordCoversWire, SameVoice
<1> QED BY <1>1, <1>3, <1>4, <1>5 DEF Wire

\* A join keeps the record on disk ahead of the wire.
LEMMA JoinedWire ==
    ASSUME Core, Wire, NEW l \in Links, NEW p \in EndsOf(l), Joined(l, p)
    PROVE  Wire'
<1> DEFINE q == Far(l, p)
           n == ends[l][q].net
           stored == {r \in Peers : (r = p /\ mgr[p].disk) \/ (r = q /\ Stores(q))}
<1>1. p \in Peers /\ q \in Peers /\ q # p
  BY FarType
<1>2. /\ Turn(p) /\ n = mgr[q].net /\ n \in Networks /\ mgr'[p].net = n
      /\ mgr'[p].handle = (IF mgr[p].disk THEN "real" ELSE "shed")
  BY JoinedTurn
<1>3. \A r \in Peers : r # p => mgr'[r] = mgr[r]
  BY <1>2 DEF Turn, Core
<1>4. record' = [r \in Peers |-> IF r \in stored THEN n ELSE record[r]]
  BY DEF Joined
<1>5. /\ late' = [late EXCEPT ![p] = IF mgr[p].disk THEN 0 ELSE @] /\ upsets' = upsets
  BY DEF Joined, Outdated
<1>6. /\ record' \in [Peers -> Networks \cup {0}] /\ late' \in [Peers -> Networks \cup {0}]
      /\ upsets' \in 0..MaxUpsets
  BY <1>2, <1>4, <1>5, Zenon DEF Wire
<1>7. p \in stored <=> mgr[p].disk
  BY <1>1
<1> HIDE DEF q, n
<1>8. \A r \in stored : r # p => r = q
  OBVIOUS
<1> HIDE DEF stored
<1>9. LateIsCurrent'
  <2> SUFFICES ASSUME NEW r \in Peers, late'[r] # 0
               PROVE  late'[r] = mgr'[r].net \/ mgr'[r].handle = "shed"
    BY DEF LateIsCurrent
  <2>1. CASE r = p
    BY <1>2, <1>5, <2>1 DEF Wire
  <2>2. CASE r # p
    BY <1>3, <1>5, <2>2 DEF Wire, LateIsCurrent
  <2> QED BY <2>1, <2>2
<1>10. RecordCoversWire'
  <2> SUFFICES ASSUME NEW r \in Peers, mgr'[r].spoke, mgr'[r].handle = "real"
               PROVE  record'[r] = mgr'[r].net
    BY DEF RecordCoversWire
  <2>1. CASE r = p
    BY <1>2, <1>4, <1>7, <2>1
  <2>2. CASE r # p
    BY <1>2, <1>3, <1>4, <1>8, <2>2 DEF Wire, RecordCoversWire
  <2> QED BY <2>1, <2>2
<1> QED BY <1>6, <1>9, <1>10 DEF Wire

\* A session keeps the record on disk ahead of the wire.
LEMMA SessionWire ==
    ASSUME Core, Wire, NEW l \in Links, Session(l)
    PROVE  Wire'
<1> DEFINE stored == {r \in Peers : r \in EndsOf(l) /\ Stores(r)}
<1>1. ASSUME NEW r \in Peers
      PROVE  /\ mgr'[r].net = mgr[r].net /\ mgr'[r].handle = mgr[r].handle
             /\ mgr'[r].spoke # mgr[r].spoke => r \in EndsOf(l) /\ Gate(r)
             /\ mgr[r].net \in Networks
  BY SessionCore DEF Core, Books
<1>2. /\ record' = [r \in Peers |-> IF r \in stored THEN ends[l][r].net ELSE record[r]]
      /\ late' = [r \in Peers |-> IF r \in stored THEN 0 ELSE late[r]]
      /\ Upset \/ upsets' = upsets
  BY Zenon DEF Session, Outdated
<1>3. \A r \in EndsOf(l) : r \in Peers /\ ends[l][r].net = mgr[r].net
  <2>1. l[1] \in Peers /\ l[2] \in Peers
    BY LinkType
  <2>2. \A r \in EndsOf(l) : ends[l][r].at = "driving"
    BY Zenon DEF Session, At, EndsOf
  <2> QED BY <2>1, <2>2 DEF EndsOf, Core, Books1, DriversOnTheBooks
<1>4. \A r \in stored : r \in EndsOf(l)
  OBVIOUS
<1>5. \A r \in Peers : r \in EndsOf(l) /\ Gate(r) /\ mgr[r].handle = "real" => r \in stored
  BY DEF Gate, Storing, Stores
<1> HIDE DEF stored
<1>6. /\ record' \in [Peers -> Networks \cup {0}] /\ late' \in [Peers -> Networks \cup {0}]
  BY <1>1, <1>2, <1>3, <1>4 DEF Wire
<1>7. upsets' \in 0..MaxUpsets
  BY <1>2, UpsetType DEF Wire
<1>8. LateIsCurrent'
  BY <1>1, <1>2 DEF Wire, LateIsCurrent
<1>9. RecordCoversWire'
  <2> SUFFICES ASSUME NEW r \in Peers, mgr'[r].spoke, mgr'[r].handle = "real"
               PROVE  record'[r] = mgr'[r].net
    BY DEF RecordCoversWire
  <2>1. CASE r \in stored
    BY <1>1, <1>2, <1>3, <1>4, <2>1
  <2>2. CASE r \notin stored
    <3>1. mgr[r].spoke
      BY <1>1, <1>5, <2>2
    <3> QED BY <1>1, <1>2, <2>2, <3>1 DEF Wire, RecordCoversWire
  <2> QED BY <2>1, <2>2
<1> QED BY <1>6, <1>7, <1>8, <1>9 DEF Wire

\* The late store lands in the universe it was begun in.
LEMMA LateStoreWire ==
    ASSUME Core, Wire, NEW p \in Peers, LateStore(p)
    PROVE  Wire'
<1>1. /\ late[p] # 0 /\ record' = [record EXCEPT ![p] = late[p]]
      /\ late' = [late EXCEPT ![p] = 0] /\ mgr' = mgr /\ upsets' = upsets
  BY DEF LateStore
<1>2. /\ record' \in [Peers -> Networks \cup {0}] /\ late' \in [Peers -> Networks \cup {0}]
  BY <1>1 DEF Wire
<1>3. LateIsCurrent'
  BY <1>1 DEF Wire, LateIsCurrent
<1>4. RecordCoversWire'
  BY <1>1 DEF Wire, RecordCoversWire, LateIsCurrent
<1> QED BY <1>1, <1>2, <1>3, <1>4 DEF Wire

\* A restart keeps the record on disk ahead of the wire.
LEMMA RestartWire ==
    ASSUME Core, Wire, NEW p \in Peers, Restart(p)
    PROVE  Wire'
<1>1. /\ late' = [late EXCEPT ![p] = 0] /\ record' = record /\ Upset
  BY DEF Restart
<1>2. ~mgr'[p].spoke /\ \A r \in Peers : r # p => mgr'[r] = mgr[r]
  BY RestartTurn DEF Turn, Core
<1>3. upsets' \in 0..MaxUpsets
  BY <1>1, UpsetType DEF Wire
<1>4. late' \in [Peers -> Networks \cup {0}]
  BY <1>1 DEF Wire
<1>5. LateIsCurrent'
  BY <1>1, <1>2 DEF Wire, LateIsCurrent
<1>6. RecordCoversWire'
  BY <1>1, <1>2 DEF Wire, RecordCoversWire
<1> QED BY <1>1, <1>3, <1>4, <1>5, <1>6 DEF Wire

-----------------------------------------------------------------------------
(* The invariant.                                                          *)

\* Every turn that adopts nothing.
LEMMA PlainTurn ==
    ASSUME Core, Wire, NEW p \in Peers, Turn(p), SameVoice(mgr[p], mgr'[p]), record' = record,
           late' = late \/ \E r \in Peers : late' = [late EXCEPT ![r] = mgr[r].net],
           Upset \/ upsets' = upsets
    PROVE  Core' /\ Wire'
BY TurnCore, TurnVoice, WireKept

\* A link at most makes one store of the current universe late.
LEMMA OnLinkLate ==
    ASSUME NEW es, NEW l, NEW p \in Peers, NEW m, m.net = mgr[p].net, OnLink(es, l, p, m)
    PROVE  /\ late' = late \/ \E r \in Peers : late' = [late EXCEPT ![r] = mgr[r].net]
           /\ Upset \/ upsets' = upsets
<1>1. CASE Far(l, p) \in m.joins
  BY <1>1 DEF OnLink
<1>2. CASE Far(l, p) \notin m.joins
  BY <1>2 DEF OnLink
<1> QED BY <1>1, <1>2

\* Every step of a manager keeps the invariant.
LEMMA ManagerInv ==
    ASSUME Core, Wire, NEW p \in Peers, Manager(p)
    PROVE  Core' /\ Wire'
<1>1. CASE Tick(p)
  BY <1>1, TickTurn, PlainTurn, Zenon DEF Tick
<1>2. CASE PeersChanged(p)
  BY <1>2, PeersChangedTurn, PlainTurn DEF PeersChanged
<1>3. CASE AttestedChanged(p)
  BY <1>3, AttestedChangedTurn, PlainTurn DEF AttestedChanged
<1>4. ASSUME NEW l \in Links, l[2] = p, Accept(l) PROVE Core' /\ Wire'
  <2>1. OnLink(ends, l, p, mgr[p]) /\ record' = record
    BY <1>4 DEF Accept
  <2>2. /\ late' = late \/ \E r \in Peers : late' = [late EXCEPT ![r] = mgr[r].net]
        /\ Upset \/ upsets' = upsets
    BY <2>1, OnLinkLate
  <2> QED BY <1>4, <2>1, <2>2, AcceptTurn, PlainTurn, Zenon
<1>5. ASSUME NEW l \in Links, l[1] = p, DialDone(l) PROVE Core' /\ Wire'
  <2> DEFINE m == [mgr[p] EXCEPT !.dialing[l[2]] = 0]
  <2>1. m.net = mgr[p].net /\ record' = record
    BY <1>5 DEF DialDone, Core, Books
  <2>2. OnLink(ends, l, p, m) \/ (late' = late /\ upsets' = upsets)
    BY <1>5 DEF DialDone
  <2> HIDE DEF m
  <2>3. /\ late' = late \/ \E r \in Peers : late' = [late EXCEPT ![r] = mgr[r].net]
        /\ Upset \/ upsets' = upsets
    BY <2>1, <2>2, OnLinkLate
  <2> QED BY <1>5, <2>1, <2>3, DialDoneTurn, PlainTurn
<1>6. ASSUME NEW l \in Links, p \in EndsOf(l), DriverDone(l, p) PROVE Core' /\ Wire'
  BY <1>6, DriverDoneTurn, PlainTurn, Zenon DEF DriverDone
<1>7. ASSUME NEW l \in Links, p \in EndsOf(l), Joined(l, p) PROVE Core' /\ Wire'
  BY <1>7, JoinedTurn, TurnCore, JoinedWire
<1>8. ASSUME NEW l \in Links, p \in EndsOf(l), JoinFails(l, p) PROVE Core' /\ Wire'
  BY <1>8, JoinFailsTurn, PlainTurn, Zenon DEF JoinFails
<1> QED BY <1>1, <1>2, <1>3, <1>4, <1>5, <1>6, <1>7, <1>8 DEF Manager

\* Every step of the transport keeps the invariant.
LEMMA TransportInv ==
    ASSUME Core, Wire, NEW l \in Links, Transport(l)
    PROVE  Core' /\ Wire'
<1>1. CASE Handshake(l)
  BY <1>1, HandshakeCore, WireKept DEF Handshake
<1>2. CASE HandshakeFails(l)
  BY <1>2, HandshakeFailsCore, WireKept DEF HandshakeFails
<1>3. CASE StreamDial(l)
  BY <1>3, StreamDialCore, WireKept DEF StreamDial
<1>4. CASE Session(l)
  BY <1>4, SessionCore, SessionWire
<1>5. ASSUME NEW p \in EndsOf(l), Notice(l, p) \/ LinkBreaks(l, p) PROVE Core' /\ Wire'
  <2>1. /\ ends[l][p].at = "driving" /\ ends' = WithEnd(ends, l, p, Holding("failed"))
        /\ mgr' = mgr /\ record' = record /\ late' = late /\ (Upset \/ upsets' = upsets)
    BY <1>5 DEF Notice, LinkBreaks, At
  <2>2. Turn(p) /\ p \in Peers /\ SameVoice(mgr[p], mgr'[p])
    BY <2>1, AsideTurn, FarType DEF SameVoice
  <2> QED BY <2>1, <2>2, PlainTurn
<1> QED BY <1>1, <1>2, <1>3, <1>4, <1>5 DEF Transport

\* Every step of a sled around its manager keeps the invariant.
LEMMA SledInv ==
    ASSUME Core, Wire, NEW p \in Peers, Sled(p)
    PROVE  Core' /\ Wire'
<1>1. CASE LateStore(p)
  <2>1. mgr' = mgr /\ ends' = ends
    BY <1>1 DEF LateStore
  <2> QED BY <1>1, <2>1, LateStoreWire DEF Core, DebtsOneWay
<1>2. CASE Announce(p)
  BY <1>2, AnnounceTurn, PlainTurn, Zenon DEF Announce
<1>3. CASE Restart(p)
  BY <1>3, RestartTurn, TurnCore, RestartWire
<1>4. CASE Break(p)
  BY <1>4, BreakTurn, PlainTurn, Zenon DEF Break
<1>5. ASSUME NEW q \in Peers, Forget(p, q) \/ Recall(p, q) PROVE Core' /\ Wire'
  BY <1>5, PeerSetTurn, PlainTurn DEF Forget, Recall
<1> QED BY <1>1, <1>2, <1>3, <1>4, <1>5 DEF Sled

\* The invariant holds at first.
LEMMA InitInv ==
    ASSUME Init
    PROVE  Core /\ Wire
<1>1. PICK net \in Seeds, disk \in [Peers -> BOOLEAN] :
        /\ mgr = [p \in Peers |-> Fresh(p, net[p], Known[p], disk[p])]
        /\ upsets = Cardinality({p \in Peers : ~disk[p]})
  BY Zenon DEF Init
<1>2. /\ ends = [l \in Links |-> NoEnds(l)] /\ upsets <= MaxUpsets
      /\ record = [p \in Peers |-> 0] /\ late = [p \in Peers |-> 0]
  BY DEF Init
<1>3. upsets \in 0..MaxUpsets
  <2>1. upsets \in Nat
    BY <1>1, FS_Subset, FS_CardinalityType, GossipAssumption
  <2> QED BY <1>2, <2>1, GossipAssumption
<1>4. ASSUME NEW p \in Peers
      PROVE  /\ mgr[p] \in Books /\ BooksOf(p, mgr[p]) /\ LinkedOK(mgr[p])
             /\ mgr[p].joins = {} /\ mgr[p].joining = 0 /\ ~mgr[p].spoke
  <2> DEFINE known == Known[p]
             uni == net[p]
             works == disk[p]
             n == Fresh(p, uni, known, works)
  <2>1. uni \in Networks /\ known \in SUBSET Known[p] /\ works \in BOOLEAN
    BY <1>1, GossipAssumption
  <2>2. mgr[p] = n
    BY <1>1
  <2> HIDE DEF known, uni, works
  <2>3. /\ n \in Books /\ BooksOf(p, n) /\ LinkedOK(n)
        /\ n.joins = {} /\ n.joining = 0 /\ ~n.spoke
    BY <2>1, FreshType, Zenon
  <2> QED BY <2>2, <2>3
<1>5. mgr \in [Peers -> Books]
  <2>1. mgr = [p \in Peers |-> mgr[p]]
    BY <1>1
  <2> QED BY <1>4, <2>1
<1>6. ASSUME NEW l \in Links
      PROVE  ends[l] \in [EndsOf(l) -> End] /\ \A r \in EndsOf(l) : ends[l][r].at = "gone"
  BY <1>2, HoldingType DEF NoEnds, Held
<1>7. WellFormed(ends)
  BY <1>2, <1>6 DEF WellFormed, End
<1>8. ASSUME NEW p \in Peers
      PROVE  Books1(ends, p, mgr[p]) /\ Owes(ends, p, mgr[p]) = {}
  BY <1>4, <1>6 DEF Books1, DriversOnTheBooks, JoinsOnTheBooks, Owes
<1>9. DialsAlone(ends)
  BY <1>6, Zenon DEF DialsAlone, EndsOf
<1>10. DebtsOneWay
  BY <1>8 DEF DebtsOneWay
<1>11. Core
  BY <1>4, <1>5, <1>7, <1>8, <1>9, <1>10 DEF Core
<1>12. Wire
  BY <1>2, <1>3, <1>4 DEF Wire, LateIsCurrent, RecordCoversWire
<1> QED BY <1>11, <1>12

\* The invariant always holds.
LEMMA CoreWire == Spec => [](Core /\ Wire)
<1>1. Init => Core /\ Wire
  BY InitInv
<1>2. Core /\ Wire /\ [Next]_vars => (Core /\ Wire)'
  <2> SUFFICES ASSUME Core, Wire, [Next]_vars PROVE (Core /\ Wire)'
    OBVIOUS
  <2>1. CASE UNCHANGED vars
    BY <2>1 DEF vars, Core, Wire, DebtsOneWay, LateIsCurrent, RecordCoversWire
  <2>2. ASSUME NEW p \in Peers, Manager(p) \/ Sled(p) PROVE (Core /\ Wire)'
    BY <2>2, ManagerInv, SledInv
  <2>3. ASSUME NEW l \in Links, Transport(l) PROVE (Core /\ Wire)'
    BY <2>3, TransportInv
  <2> QED BY <2>1, <2>2, <2>3 DEF Next
<1> QED BY <1>1, <1>2, PTL DEF Spec

\* The books of every manager agree with its drivers, its join and what it
\* publishes (gossip.rs: migrate, drive, prune, publish_linked), whatever the
\* peers, their universes and the order of links, reports and restarts.
THEOREM GossipInvariant == Spec => []GossipInv
<1>1. Core /\ Wire => GossipInv
  <2> SUFFICES ASSUME Core, Wire PROVE GossipInv
    OBVIOUS
  <2>1. GossipTypeOK
    BY DEF Core, Wire, Books1, GossipTypeOK
  <2>2. LinkedCurrent
    BY DEF Core, LinkedOK, LinkedCurrent, Looping
  <2> QED BY <2>1, <2>2 DEF Core, Wire, Books1, GossipInv
<1> QED BY <1>1, CoreWire, PTL

\* Two managers never owe each other a join: a report makes a debt only if
\* its driver is the living one (gossip.rs: the id check on a finished
\* driver), and a session has one loser (remote_dominates).
THEOREM NoMutualDebts == Spec => []NoMutualDebt
<1>1. Core => NoMutualDebt
  BY DEF Core, DebtsOneWay, NoMutualDebt, Owes
<1> QED BY <1>1, CoreWire, PTL

\* A peer with a real handle has spoken only in the universe its bookmark
\* record names, though the stores of an abandoned universe may land late
\* (gossip.rs: the argument above migrate; bookmark.rs: handle).
THEOREM RecordCovers == Spec => []RecordCoversWire
<1>1. Wire => RecordCoversWire
  BY DEF Wire
<1> QED BY <1>1, CoreWire, PTL
==============================================================================
