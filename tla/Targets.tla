------------------------------ MODULE Targets ------------------------------
(***************************************************************************)
(* Where a job runs (common/src/targets.rs): how a target is made from     *)
(* what the user typed and the rack's inventory, resolved to sleds by the  *)
(* proxy (proxy/src/lib.rs) and by the sled that accepts the job           *)
(* (server/src/manager.rs), and checked by every sled against its own      *)
(* cubby (server/src/rack.rs).                                             *)
(*                                                                         *)
(* Sleds are moved between cubbies; a sled that moves restarts.  Everyone  *)
(* has the cubby map last published to them, which may name fewer sleds    *)
(* than there are and may be old.                                          *)
(***************************************************************************)
EXTENDS Naturals, FiniteSets, Sequences, SequencesExt

CONSTANTS
    Sleds, Home, Proxy,      \* the sleds; the proxy, and the sled that hosts it
    Cubbies,                 \* cubby numbers, from 1
    Serial                   \* the serial number of each sled's baseboard

ASSUME TargetsAssumption ==
    /\ Home \in Sleds /\ Proxy \notin Sleds
    /\ Cubbies \subseteq Nat \ {0}
    /\ DOMAIN Serial = Sleds

VARIABLES
    place,       \* the cubby each sled is in; 0 when it is out of the rack
    map,         \* the cubby map published to each sled and to the proxy
    own,         \* Rack::own_cubby of each sled that is up; 0 is unknown
    job,         \* the job: its target, how far it has come, and the list of
                 \* sleds that each sled which accepted it resolved it to
    aware,       \* the sleds in whose history the job is
    fate,        \* what became of it on each sled
    moves        \* moves and publications to come

targetVars == <<place, map, own, job, aware, fate, moves>>

\* A target is a list of sled IDs; the empty list is `*`.
All == <<>>

Baseboard(s) == <<"baseboard", s>>

Cubby(c) == <<"cubby", c>>

Bare(serial) == <<"serial", serial>>

NoMap == [c \in {} |-> Home]

\* The cubbies as they are, as far as `known`.
MapOf(known) ==
    [c \in {x \in Cubbies : \E s \in known : place[s] = x} |->
        CHOOSE s \in known : place[s] = c]

IsSingle(target) == DOMAIN target = {1}

\* Target::resolve: the sleds a target names, by the map of the one who asks.
IsResolvable(target, cubbies) ==
    \A id \in ToSet(target) : id[1] = "cubby" => id[2] \in DOMAIN cubbies

Named(id, cubbies) == IF id[1] = "cubby" THEN cubbies[id[2]] ELSE id[2]

Resolve(target, reachable, cubbies) ==
    IF target = All THEN reachable
    ELSE {Named(id, cubbies) : id \in ToSet(target)} \cap reachable

\* Target::matches; an unknown cubby is in no target.
Matches(target, s, cubby) ==
    \/ target = All
    \/ Baseboard(s) \in ToSet(target)
    \/ cubby # 0 /\ Cubby(cubby) \in ToSet(target)

TargetsInit(places) ==
    /\ place \in places
    /\ map = [x \in Sleds \cup {Proxy} |-> MapOf(Sleds)]
    /\ own = place
    /\ job = [pc |-> "none", target |-> All, mode |-> "batch", lists |-> {}, at |-> Home]
    /\ aware = {}
    /\ fate = [s \in Sleds |-> "none"]

-----------------------------------------------------------------------------
(* The rack changes.                                                       *)

Move == moves > 0 /\ moves' = moves - 1

\* A sled is pulled out, or put into an empty cubby, and starts anew, which is
\* how State::new makes it: with no jobs, no map, and not knowing where it is.
Reseat(s, c) ==
    /\ Move
    /\ c # place[s] /\ \A t \in Sleds : place[t] # c \/ c = 0
    /\ place' = [place EXCEPT ![s] = c]
    /\ map' = [map EXCEPT ![s] = NoMap]
    /\ own' = [own EXCEPT ![s] = 0]
    /\ aware' = aware \ {s}
    /\ UNCHANGED <<job, fate>>

\* Rack::set_cubbies: a map that omits this sled does not make it forget where
\* it is.
Publish(x, known) ==
    /\ Move
    /\ x \in Sleds => place[x] # 0
    /\ map' = [map EXCEPT ![x] = MapOf(known)]
    /\ own' = IF x \in known THEN [own EXCEPT ![x] = place[x]] ELSE own
    /\ UNCHANGED <<place, job, aware, fate>>

-----------------------------------------------------------------------------
(* From what the user typed to a signed target.                            *)

\* JobManager::versions of the proxy's own sled: itself, the sleds whose build
\* it has heard of, and those in its map.
Inventory(heard) == heard \cup {Home} \cup Range(map[Home])

\* resolve_target_arg: a bare serial must be that of one sled.
IsUnambiguous(arg, inventory) ==
    \A id \in ToSet(arg) : id[1] = "serial" =>
        Cardinality({s \in inventory : Serial[s] = id[2]}) = 1

ResolveTargetArg(arg, inventory) ==
    [i \in DOMAIN arg |-> IF arg[i][1] # "serial" THEN arg[i]
                          ELSE Baseboard(CHOOSE s \in inventory : Serial[s] = arg[i][2])]

\* Targets::resolve of the proxy: the first of the named sleds that it can
\* reach, or its own.
Route(target, reachable) ==
    LET known == SelectSeq(target, LAMBDA id :
                     /\ id[1] = "cubby" => id[2] \in DOMAIN map[Proxy]
                     /\ Named(id, map[Proxy]) \in reachable)
    IN  IF target = All THEN {Home} \cap reachable
        ELSE IF known = <<>> THEN {} ELSE {Named(Head(known), map[Proxy])}

\* The sleds that a request for a target may come to: the proxy's list of the
\* reachable ones may be old, and a sled that is gone does not answer.
Routes(target) ==
    {s \in Sleds : place[s] # 0 /\ \E reachable \in SUBSET Sleds : s \in Route(target, reachable)}

\* preflight_target.
IsKnown(id, inventory) ==
    IF id[1] = "cubby" THEN id[2] \in DOMAIN map[Home] ELSE id[2] \in inventory

\* job_start_request: an interactive or a streaming job needs one baseboard,
\* which the sled that the target leads to gives.  For the others the user
\* confirms each sled that is not in the inventory, if there is one to be had.
Prepare(arg, mode) ==
    /\ job.pc = "none"
    /\ \E heard \in SUBSET Sleds, answers \in BOOLEAN :
         LET inventory == Inventory(heard)
             target == ResolveTargetArg(arg, inventory)
         IN  /\ answers => place[Home] # 0
             /\ answers \/ \A id \in ToSet(arg) : id[1] # "serial"
             /\ IsUnambiguous(arg, inventory)
             /\ IF mode # "batch" /\ (~IsSingle(target) \/ target[1][1] = "cubby")
                THEN \E s \in Routes(target) :
                       job' = [job EXCEPT !.pc = "signed", !.mode = mode,
                                          !.target = <<Baseboard(s)>>]
                ELSE job' = [job EXCEPT
                       !.pc = IF answers /\ \E id \in ToSet(target) : ~IsKnown(id, inventory)
                              THEN "unconfirmed" ELSE "signed",
                       !.mode = mode, !.target = target]
    /\ UNCHANGED <<place, map, own, aware, fate, moves>>

Confirm ==
    /\ job.pc = "unconfirmed"
    /\ job' = [job EXCEPT !.pc = "signed"]
    /\ UNCHANGED <<place, map, own, aware, fate, moves>>

\* Support signs whatever target it is given.
SignedBySupport(target, mode) ==
    /\ job.pc = "none"
    /\ job' = [job EXCEPT !.pc = "signed", !.target = target, !.mode = mode]
    /\ UNCHANGED <<place, map, own, aware, fate, moves>>

-----------------------------------------------------------------------------
(* From a signed target to the sleds the job runs on.                      *)

\* The proxy forwards the start to a sled; a start that was refused, or whose
\* answer was lost, may be sent again.
Forward ==
    /\ job.pc \in {"signed", "sent", "accepted"}
    /\ \E s \in Routes(job.target) : job' = [job EXCEPT !.pc = "sent", !.at = s]
    /\ UNCHANGED <<place, map, own, aware, fate, moves>>

\* target_matches_mode.
TargetMatchesMode == IsSingle(job.target) \/ job.mode # "interactive"

\* The sled refuses a job that is in its own history.  It resolves the target to
\* the sleds it links to, which may be gone for a while before their links are,
\* and gossips the job and the list.  The job is in its history when it hears
\* that itself, and until then it would accept the job again.
Accept ==
    /\ job.pc = "sent" /\ place[job.at] # 0
    /\ job.at \notin aware
    /\ TargetMatchesMode
    /\ IsResolvable(job.target, map[job.at])
    /\ \E linked \in SUBSET Sleds :
         LET sleds == Resolve(job.target, linked \cup {job.at}, map[job.at])
         IN  /\ sleds # {}
             /\ job' = [job EXCEPT !.pc = "accepted", !.lists = @ \cup {sleds}]
    /\ UNCHANGED <<place, map, own, aware, fate, moves>>

\* Mutant of CheckTarget: the accepting sled's resolution is taken as it is.
CheckTargetTrusting(s) == "ran"

\* Rack::check_target: the list is not signed, so each sled checks the target.
CheckTarget(s) ==
    IF TargetMatchesMode /\ Matches(job.target, s, own[s]) THEN "ran"
    ELSE IF own[s] = 0 THEN "cubby unknown" ELSE "not targeted"

\* Mutant of Listed: the list is not looked at.
ListedByTarget(s, list) == TRUE

Listed(s, list) == s \in list

\* A sled hears of the job with one of its lists, and rules on it if it is there.
\* What a sled does about a job that it has ruled on before is Sled's.
Hear(s) ==
    /\ place[s] # 0 /\ fate[s] = "none"
    /\ \E list \in job.lists : Listed(s, list)
    /\ fate' = [fate EXCEPT ![s] = CheckTarget(s)]
    /\ aware' = aware \cup {s}
    /\ UNCHANGED <<place, map, own, job, moves>>

-----------------------------------------------------------------------------
(* Properties.                                                             *)

\* A sled knows its cubby or none, and maps name cubbies there are.
TargetsTypeOK ==
    /\ place \in [Sleds -> Cubbies \cup {0}]
    /\ \A s \in Sleds : own[s] \in {0, place[s]}
    /\ \A x \in Sleds \cup {Proxy} : DOMAIN map[x] \subseteq Cubbies
    /\ job.lists \subseteq SUBSET Sleds /\ job.at \in Sleds /\ aware \subseteq Sleds
    /\ fate \in [Sleds -> {"none", "ran", "cubby unknown", "not targeted"}]
    /\ moves \in Nat

\* A job runs on a sled only if its signed target names the sled, or the cubby
\* the sled is in at that moment: however old the maps by which the client,
\* the proxy and the accepting sled resolved it (Rack::check_target).
RunsWhereTargeted ==
    [][\A s \in Sleds : fate'[s] = "ran" /\ fate[s] # "ran" =>
         Matches(job.target, s, place[s])]_targetVars

\* Each time an interactive job is accepted it gets to one sled, although its
\* target may name a cubby that one sled leaves and another is put into: two sleds
\* run it only if it was accepted twice, by a sled that had not heard of it, and
\* resolved to one and to the other.  Not even so if its target is a baseboard, as
\* job_start_request makes it.
OneSledPerAcceptance ==
    job.mode = "interactive" =>
        \A s, t \in Sleds : fate[s] = "ran" /\ fate[t] = "ran" /\ s # t =>
            /\ {s} \in job.lists /\ {t} \in job.lists
            /\ \A id \in ToSet(job.target) : id[1] = "cubby"

=============================================================================
