------------------------------ MODULE MCGossip ------------------------------
EXTENDS Gossip

\* One IP per listen address, as on the bootstrap network.
MCIp == [p \in Peers |-> p]

\* The middle peer dials the first and is dialed by the last, so it can owe
\* one of them a join while it gossips with the other.
MCKnown == <<{2}, {1, 3}, {2}>>

MCSlots == <<{1, 2}, {1}, {}>>

\* The first peer holds the universe that wins a tie; a restarted peer's
\* new universe ranks next.
MCSeeds == {<<1, 3, 4>>}

=============================================================================
