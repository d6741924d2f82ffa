----------------------------- MODULE Dispatch -----------------------------
(***************************************************************************)
(* From the shell to the sleds: the user sets options, goes online with    *)
(* them and starts a job for a target, while the rack is rearranged and    *)
(* the configuration file is edited.                                       *)
(***************************************************************************)
EXTENDS Options, Targets

CONSTANTS
    Files, Settings,     \* configuration files; what can be set
    Scenarios            \* what a behaviour starts with, and what may happen in it

ASSUME ScenariosAssumption ==
    /\ \A sc \in Scenarios :
         /\ sc.places \subseteq [Sleds -> Cubbies \cup {0}]
         /\ sc.files \subseteq Files
         /\ \A e \in sc.environments : DOMAIN e \subseteq Configurable
         /\ \A cli \in sc.commandLines : DOMAIN cli \subseteq Names
         /\ {sc.changes, sc.moves, sc.edits} \subseteq Nat
    /\ \A other \in Settings : DOMAIN other \subseteq Names
    /\ \A f \in Files : f.valid =>
         /\ DOMAIN f.top \subseteq Configurable
         /\ \A p \in DOMAIN f.profiles : DOMAIN f.profiles[p] \subseteq Configurable

VARIABLES
    changes,     \* changes of options to come
    typed        \* the target and the mode of the job that is started

vars == <<optionVars, targetVars, changes, typed>>

Init ==
    \E sc \in Scenarios :
        /\ OptionsInit(sc.files, sc.environments, sc.commandLines)
        /\ TargetsInit(sc.places)
        /\ typed \in sc.typed
        /\ changes = sc.changes /\ moves = sc.moves /\ edits = sc.edits

\* The shell reads a command that changes its options, which it does between
\* others.
Change ==
    /\ changes > 0 /\ changes' = changes - 1
    /\ job.pc \in {"none", "accepted"}
    /\ \/ \E other \in Settings : SetOptions(other)
       \/ \E o \in Names : UnsetOptions({o})
    /\ UNCHANGED <<targetVars, typed>>

Edit == EditFile(Files) /\ UNCHANGED <<targetVars, changes, typed>>

\* job start: the command goes online, is refused and logs in, and prepares
\* the request with what the rack says.
Start ==
    /\ GoOnline /\ LogIn
    /\ handle' # Nowhere
    /\ Prepare(typed.arg, typed.mode)
    /\ UNCHANGED <<changes, typed>>

\* Support signs a job, which the user then starts.
StartSigned ==
    /\ GoOnline /\ LogIn
    /\ handle' # Nowhere
    /\ \A id \in ToSet(typed.arg) : id[1] # "serial"
    /\ SignedBySupport(typed.arg, typed.mode)
    /\ UNCHANGED <<changes, typed>>

\* The command goes on.
Dispatched ==
    /\ Confirm \/ Forward \/ Accept \/ \E s \in Sleds : Hear(s)
    /\ UNCHANGED <<optionVars, changes, typed>>

Rearranged ==
    /\ \/ \E s \in Sleds, c \in Cubbies \cup {0} : Reseat(s, c)
       \/ \E x \in Sleds \cup {Proxy}, known \in SUBSET Sleds : Publish(x, known)
    /\ UNCHANGED <<optionVars, changes, typed>>

Next == Change \/ Edit \/ Start \/ StartSigned \/ Dispatched \/ Rearranged

Spec == Init /\ [][Next]_vars

-----------------------------------------------------------------------------

\* The options, the rack and the job have their types.
DispatchTypeOK == OptionsTypeOK /\ TargetsTypeOK /\ changes \in Nat

\* Every state of the shell is one that the cascade allows, and none in which
\* an option can no longer be set.
DispatchInv == DispatchTypeOK /\ StrongestWins /\ AnyOptionCanBeSet

=============================================================================
