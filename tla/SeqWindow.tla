----------------------------- MODULE SeqWindow -----------------------------
(***************************************************************************)
(* The sliding window of spent sequence numbers that a proxy keeps for     *)
(* each login (common/src/authn.rs).  Every bound request carries a        *)
(* sequence number; a number is good once, in any order of arrival, and    *)
(* only while it is within the window below the highest number seen.  The  *)
(* code keeps a bitmap shifted so that bit 0 is the highest number: here   *)
(* the bitmap is the set of the ages whose bit is set.                     *)
(***************************************************************************)
EXTENDS Integers

CONSTANT SeqWindowSize          \* SEQ_WINDOW, the bits of the bitmap

ASSUME SeqWindowSizeAssumption == SeqWindowSize \in Nat \ {0}

NewWindow == [highest |-> 0, seen |-> {}]

Windows == [highest : Nat, seen : SUBSET (0..(SeqWindowSize - 1))]

Age(w, seq) == w.highest - seq

\* What `spend` answers: the number was not spent, and is not too old to say.
Unspent(w, seq) ==
    \/ seq > w.highest
    \/ Age(w, seq) < SeqWindowSize /\ Age(w, seq) \notin w.seen

\* Mutant of Spend: a new highest number is not marked as seen.
SpendUnmarked(w, seq) ==
    IF seq > w.highest
    THEN [highest |-> seq, seen |-> {a \in 0..(SeqWindowSize - 1) :
                                       a - (seq - w.highest) \in w.seen}]
    ELSE [w EXCEPT !.seen = @ \cup {Age(w, seq)}]

\* The window after `spend`: a new highest number shifts the bitmap, and what
\* is shifted past its end is forgotten; a refused number changes nothing.
Spend(w, seq) ==
    IF ~Unspent(w, seq) THEN w
    ELSE IF seq > w.highest
         THEN [highest |-> seq,
               seen |-> {0} \cup {a \in 0..(SeqWindowSize - 1) :
                                    a - (seq - w.highest) \in w.seen}]
         ELSE [w EXCEPT !.seen = @ \cup {Age(w, seq)}]

=============================================================================
