---------------------------- MODULE MCDispatch ----------------------------
EXTENDS Dispatch, TLC

CONSTANTS s1, s2, s3, proxy

MCSleds == {s1, s2, s3}

\* Two sleds have the same serial number.
MCSerial == s1 :> "x" @@ s2 :> "y" @@ s3 :> "y"

File(top, profiles) == [valid |-> TRUE, top |-> top, profiles |-> profiles]

\* A file whose profiles disagree with its top level, one that selects a
\* profile itself, and one that is refused.
MCFiles ==
    LET profiles == "a" :> ("nexus" :> "n1" @@ "rack" :> "r1") @@
                    "b" :> ("url" :> "u2" @@ "key" :> "k2")
    IN  {File("url" :> "u1", profiles), File("profile" :> "a", profiles),
         File("key" :> "k1", Unset), [valid |-> FALSE, top |-> Unset, profiles |-> Unset]}

MCSettings ==
    {"url" :> "u5", "nexus" :> "n5", "offline" :> "yes", "key" :> "k5", "rack" :> "r5",
     "profile" :> "b", "url" :> "u5" @@ "offline" :> "yes"}

\* The options change while the rack stays as it is.
Configuring ==
    [files |-> MCFiles,
     environments |-> {Unset, "url" :> "u3", "nexus" :> "n3", "profile" :> "a"},
     commandLines |-> {Unset, "offline" :> "yes", "nexus" :> "n4" @@ "rack" :> "r4"},
     places |-> {s1 :> 1 @@ s2 :> 2 @@ s3 :> 0},
     typed |-> {[arg |-> <<Cubby(1)>>, mode |-> "batch"]},
     changes |-> 3, moves |-> 0, edits |-> 1]

\* The rack changes while the options stay as they are.
Moving ==
    [files |-> {File("key" :> "k1", Unset)},
     environments |-> {"url" :> "u3"}, commandLines |-> {"key" :> "k4"},
     places |-> {s1 :> 1 @@ s2 :> 2 @@ s3 :> 0, s1 :> 1 @@ s2 :> 2 @@ s3 :> 3},
     typed |-> [arg : {All, <<Cubby(1)>>, <<Cubby(3)>>, <<Bare("x")>>, <<Bare("y")>>,
                       <<Cubby(2), Bare("x")>>, <<Cubby(1), Cubby(2)>>},
                mode : {"batch", "interactive"}],
     changes |-> 0, moves |-> 3, edits |-> 0]

\* A sled is replaced by another while an interactive job for its cubby is under
\* way.
Replacing ==
    [Moving EXCEPT !.places = {s1 :> 1 @@ s2 :> 0 @@ s3 :> 2},
                   !.typed = {[arg |-> <<Cubby(1)>>, mode |-> "interactive"]},
                   !.moves = 4]

MCScenarios == {Configuring, Moving, Replacing}

=============================================================================
