------------------------------- MODULE MCSled -------------------------------
(* Instances of Sled for model checking. *)
EXTENDS Sled

\* Session 1 has the chain J1, J2; session 2, with a higher sequence number,
\* has K1; session 3 is one that life 1 of this sled accepted, and the command
\* of its second job is bad.
J1 == FirstJob(1)
J2 == AfterJob(J1)
K1 == FirstJob(2)
L1 == FirstJob(3)
L2 == AfterJob(L1)

One == {J1}
Chain == {J1, J2}
Three == {J1, J2, K1}
All == {J1, J2, K1, L1, L2}
OneCubby == [j \in One |-> "cubby"]
ChainPlain == [j \in Chain |-> "plain"]
ThreePlain == [j \in Three |-> "plain"]
AllKinds == [j \in All |-> IF j = L2 THEN "dash" ELSE "plain"]

OneSeq == [s \in {1} |-> 1]
TwoSeq == [s \in {1, 2} |-> s]
AllSeq == [s \in 1 .. 3 |-> s]
OneTheirs == [s \in {1} |-> 0]
TwoTheirs == [s \in {1, 2} |-> 0]
AllOrigins == [s \in 1 .. 3 |-> IF s = 3 THEN 1 ELSE 0]

StartOne == {SessionStart(1, "a"), JobStart(J1, TRUE, "a")}
StartChain == StartOne \cup {JobStart(J2, TRUE, "a")}
StartTwo == {SessionStart(2, "b"), JobStart(K1, TRUE, "b")}
Controls == {SkipJob(J2, "a"), JobStop(J1, "a"), SessionStop(1, "a")}

\* What clients ask of this sled.
AskThree == {SessionStart(3, "a"), JobStart(L1, TRUE, "a"), SkipJob(L2, "a"),
             JobStop(L1, "a"), SessionStop(3, "a")}

FromPeers(lives, peers) ==
    [local |-> {}, peers |-> peers, events |-> {}, repeat |-> FALSE, moves |-> FALSE,
     lives |-> lives]

\* Both sessions, and a stop of the higher one.
StopHigher == {FromPeers(1, <<StartOne \cup StartTwo \cup {SessionStop(2, "b")}>>)}

\* A chain around a crash; two sessions and a stop of the higher one; a session
\* in each of two universes, in either order of rank; a job that is stopped while
\* the universe changes; a job whose request comes twice, also with a stop of its
\* session in between; and a session asked of this sled, of whose jobs peers
\* report.
Returns ==
    {[FromPeers(2, <<StartChain>>) EXCEPT !.moves = TRUE],
     FromPeers(1, <<StartOne \cup StartTwo \cup {SessionStop(2, "b")}>>),
     [FromPeers(1, <<StartOne, StartTwo>>) EXCEPT !.moves = TRUE],
     [FromPeers(1, <<StartTwo, StartOne>>) EXCEPT !.moves = TRUE],
     FromPeers(1, <<StartOne \cup {JobStop(J1, "a")}, {}>>),
     [FromPeers(1, <<StartOne>>) EXCEPT !.repeat = TRUE, !.moves = TRUE],
     [FromPeers(1, <<StartOne \cup {JobStart(J1, TRUE, "b"), SessionStop(1, "a")}>>)
        EXCEPT !.repeat = TRUE],
     [FromPeers(1, <<{}>>) EXCEPT !.local = AskThree, !.events = {L1, L2}]}

OneFromPeers == {FromPeers(3, <<StartOne>>)}
ChainAndControls == {FromPeers(1, <<StartChain \cup Controls>>)}
==============================================================================
