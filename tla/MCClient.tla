------------------------------ MODULE MCClient ------------------------------
(* Small instances of module Client for TLC. *)
EXTENDS Client

CONSTANTS s1, s2

MCChunks == <<"chunk1", "chunk2", "chunk3">>

MCFutures == {"main", "start", "poll", "stop"} \cup ToSet(MCChunks)

Scenario(commands, sleds, up, ints) ==
    [commands |-> commands, sleds |-> sleds, upsets |-> up, interrupts |-> ints]

\* Commands that use what an earlier one left.
FollowUps == {"attach", "session_start", "session_stop", "skip", "plain", "status",
              "download", "job_stop"}

Begins == {"plain", "interactive", "stream", "session_start"}

MCScenarios ==
    {Scenario(<<Begins \cup {"watch"}, FollowUps>>, {s1, s2}, 0, 0),
     Scenario(<<Begins, FollowUps>>, {s1}, 1, 0),
     Scenario(<<Begins, FollowUps>>, {s1}, 0, 1),
     Scenario(<<{"plain"}, {"plain", "skip", "attach"}>>, {s1}, 1, 1),
     Scenario(<<{"skip"}, {"interactive"}>>, {s1}, 0, 1),
     Scenario(<<{"watch"}>>, {s1}, 1, 0),
     Scenario(<<{"watch"}>>, {s1}, 0, 2)}

=============================================================================
