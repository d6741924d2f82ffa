-------------------------- MODULE SeqWindowProofs --------------------------
(***************************************************************************)
(* What the window of a login guarantees, for every size of the window and *)
(* every sequence of numbers offered to it, in any order and any number of *)
(* times: a number is accepted at most once, and only a number that was    *)
(* accepted before or is older than the window is refused.  The argument   *)
(* is one invariant that says which number each bit of the window is for.  *)
(***************************************************************************)
EXTENDS SeqWindow, TLAPS

VARIABLES
    window,       \* the SeqWindow of a login
    accepted      \* history: the numbers it has accepted

windowVars == <<window, accepted>>

WindowInit == window = NewWindow /\ accepted = {}

\* A request with number seq is verified (verify_request).
Offer(seq) ==
    /\ window' = Spend(window, seq)
    /\ accepted' = IF Unspent(window, seq) THEN accepted \cup {seq} ELSE accepted

WindowSpec == WindowInit /\ [][\E seq \in Nat : Offer(seq)]_windowVars

-----------------------------------------------------------------------------

Ages == 0..(SeqWindowSize - 1)

\* The bit for an age is set if and only if the number of that age was
\* accepted, and nothing above the highest number was.
WindowInv ==
    /\ window \in Windows
    /\ accepted \subseteq Nat
    /\ \A seq \in accepted : seq <= window.highest
    /\ \A a \in Ages : a \in window.seen <=> window.highest - a \in accepted

\* A number that was accepted is refused from then on.
SpentOnce == \A seq \in accepted : ~Unspent(window, seq)

\* A number that was never accepted is refused only when it is older than the
\* whole window: requests that overtake each other by less all get through.
RefusedForCause ==
    \A seq \in Nat : ~Unspent(window, seq) =>
        seq \in accepted \/ Age(window, seq) >= SeqWindowSize

-----------------------------------------------------------------------------

\* A fresh window satisfies the invariant (SeqWindow::default).
LEMMA WindowInvInit == WindowInit => WindowInv
BY SeqWindowSizeAssumption DEF WindowInit, WindowInv, NewWindow, Windows, Ages

\* `spend` of a number above the highest shifts every bit to the age its
\* number has then (SeqWindow::spend, the first branch).
LEMMA NewHighest ==
    ASSUME WindowInv, NEW seq \in Nat, seq > window.highest, Offer(seq)
    PROVE  WindowInv'
<1> DEFINE shift == seq - window.highest
           shifted == {a \in Ages : a - shift \in window.seen}
<1>1. window.highest \in Nat /\ window.seen \subseteq Ages
  BY DEF WindowInv, Windows, Ages
<1>2. Unspent(window, seq)
  BY DEF Unspent
<1>3. /\ window' = [highest |-> seq, seen |-> {0} \cup shifted]
      /\ accepted' = accepted \cup {seq}
  BY <1>2 DEF Offer, Spend, Ages
<1>4. window'.highest = seq /\ window'.seen = {0} \cup shifted
  BY <1>3
<1>5. {0} \cup shifted \subseteq Ages
  BY SeqWindowSizeAssumption DEF Ages
<1>6. window' \in Windows
  BY <1>3, <1>5 DEF Windows, Ages
<1>7. accepted' \subseteq Nat /\ \A x \in accepted' : x <= window'.highest
  BY <1>1, <1>3, <1>4 DEF WindowInv
<1>8. ASSUME NEW a \in Ages
      PROVE  a \in window'.seen <=> window'.highest - a \in accepted'
  <2>1. a \in Nat /\ shift \in Nat /\ shift > 0
    BY <1>1, SeqWindowSizeAssumption DEF Ages
  <2>2. CASE a = 0
    <3>1. window'.highest - a = seq
      BY <1>4, <2>2
    <3> QED BY <3>1, <2>2, <1>3, <1>4
  <2>3. CASE a # 0 /\ a < shift
    <3>1. a - shift \notin window.seen
      BY <1>1, <2>1, <2>3, SeqWindowSizeAssumption DEF Ages
    <3>2. seq - a > window.highest /\ seq - a # seq
      BY <1>1, <2>1, <2>3
    <3>3. seq - a \notin accepted
      BY <1>1, <2>1, <3>2 DEF WindowInv
    <3> QED BY <2>3, <3>1, <3>2, <3>3, <1>3, <1>4
  <2>4. CASE a >= shift
    <3>1. a - shift \in Ages
      BY <2>1, <2>4, <1>1, SeqWindowSizeAssumption DEF Ages
    <3>2. a # 0 /\ seq - a # seq /\ seq - a = window.highest - (a - shift)
      BY <1>1, <2>1, <2>4
    <3>3. a - shift \in window.seen <=> window.highest - (a - shift) \in accepted
      BY <3>1 DEF WindowInv
    <3> QED BY <3>2, <3>3, <1>3, <1>4
  <2> QED BY <2>1, <2>2, <2>3, <2>4
<1> QED BY <1>6, <1>7, <1>8 DEF WindowInv

\* `spend` of a number within the window sets its bit, and of any other
\* changes nothing (SeqWindow::spend, the second branch).
LEMMA OldNumber ==
    ASSUME WindowInv, NEW seq \in Nat, ~(seq > window.highest), Offer(seq)
    PROVE  WindowInv'
<1>1. window.highest \in Nat /\ window.seen \subseteq Ages
  BY DEF WindowInv, Windows, Ages
<1>2. CASE ~Unspent(window, seq)
  <2>1. window' = window /\ accepted' = accepted
    BY <1>2 DEF Offer, Spend
  <2> QED BY <2>1 DEF WindowInv
<1>3. CASE Unspent(window, seq)
  <2> DEFINE age == window.highest - seq
  <2>1. age \in Ages
    BY <1>1, <1>3, SeqWindowSizeAssumption DEF Unspent, Age, Ages
  <2>2. /\ window' = [window EXCEPT !.seen = @ \cup {age}]
        /\ accepted' = accepted \cup {seq}
    BY <1>3 DEF Offer, Spend, Age
  <2>3. window'.highest = window.highest /\ window'.seen = window.seen \cup {age}
    BY <2>2 DEF WindowInv, Windows
  <2>4. window' \in Windows
    BY <2>1, <2>2 DEF WindowInv, Windows, Ages
  <2>5. accepted' \subseteq Nat /\ \A x \in accepted' : x <= window'.highest
    BY <1>1, <2>2, <2>3 DEF WindowInv
  <2>6. ASSUME NEW a \in Ages
        PROVE  a \in window'.seen <=> window'.highest - a \in accepted'
    <3>1. a = age <=> window.highest - a = seq
      BY <1>1 DEF Ages
    <3>2. a \in window.seen <=> window.highest - a \in accepted
      BY DEF WindowInv
    <3> QED BY <3>1, <3>2, <2>2, <2>3
  <2> QED BY <2>4, <2>5, <2>6 DEF WindowInv
<1> QED BY <1>2, <1>3

\* Every step keeps the invariant.
LEMMA WindowInvStep ==
    WindowInv /\ [\E seq \in Nat : Offer(seq)]_windowVars => WindowInv'
<1> SUFFICES ASSUME WindowInv, [\E seq \in Nat : Offer(seq)]_windowVars
             PROVE  WindowInv'
  OBVIOUS
<1>1. CASE UNCHANGED windowVars
  BY <1>1 DEF WindowInv, windowVars
<1>2. ASSUME NEW seq \in Nat, Offer(seq)
      PROVE  WindowInv'
  BY <1>2, NewHighest, OldNumber
<1> QED BY <1>1, <1>2

\* The invariant tells what the window will accept.
LEMMA WindowInvImplies == WindowInv => SpentOnce /\ RefusedForCause
<1> SUFFICES ASSUME WindowInv
             PROVE  SpentOnce /\ RefusedForCause
  OBVIOUS
<1>1. window.highest \in Nat
  BY DEF WindowInv, Windows
<1>2. ASSUME NEW seq \in accepted
      PROVE  ~Unspent(window, seq)
  <2>1. seq \in Nat /\ seq <= window.highest
    BY Zenon DEF WindowInv
  <2>2. window.highest - seq \in Nat /\ window.highest - (window.highest - seq) = seq
    BY <1>1, <2>1
  <2>3. window.highest - seq < SeqWindowSize => window.highest - seq \in window.seen
    BY <2>1, <2>2, <1>1, SeqWindowSizeAssumption DEF WindowInv, Ages
  <2> QED BY <1>1, <2>1, <2>3 DEF Unspent, Age
<1>3. ASSUME NEW seq \in Nat, ~Unspent(window, seq), ~(Age(window, seq) >= SeqWindowSize)
      PROVE  seq \in accepted
  <2>1. seq <= window.highest /\ window.highest - seq \in Ages
    BY <1>1, <1>3, SeqWindowSizeAssumption DEF Unspent, Age, Ages
  <2>2. window.highest - seq \in window.seen
    BY <1>1, <1>3, <2>1, SeqWindowSizeAssumption DEF Unspent, Age, Ages
  <2>3. window.highest - (window.highest - seq) = seq
    BY <1>1
  <2> QED BY <2>1, <2>2, <2>3 DEF WindowInv
<1> QED BY <1>2, <1>3 DEF SpentOnce, RefusedForCause

\* A login's window accepts each number at most once, whatever the numbers
\* and however they are ordered and repeated, and refuses a number it has not
\* accepted only if it is older than the window (SeqWindow::spend).
THEOREM WindowCorrect == WindowSpec => [](SpentOnce /\ RefusedForCause)
<1>1. WindowSpec => []WindowInv
  BY WindowInvInit, WindowInvStep, PTL DEF WindowSpec
<1> QED BY <1>1, WindowInvImplies, PTL

=============================================================================
