------------------------------ MODULE Options ------------------------------
(***************************************************************************)
(* The options of the client: the cascade of the command line, the         *)
(* environment and the configuration file (client/src/config.rs), and the  *)
(* shell that keeps what was supplied and applies changes to it            *)
(* (client/src/repl.rs).                                                   *)
(*                                                                         *)
(* A set of option values is a function from the long names that have one. *)
(***************************************************************************)
EXTENDS Naturals, FiniteSets

VARIABLES
    env,         \* the options the environment sets
    file,        \* the configuration file
    supplied,    \* SuppliedOptions: the command line's, and `set`
    config,      \* ConfigOptions: of the selected profile, as last loaded
    globals,     \* GlobalArgs: the merged options
    handle,      \* the client handle the commands share, by where it leads
    creds,       \* what the shared credentials were obtained for
    edits        \* edits of the file to come

optionVars == <<env, file, supplied, config, globals, handle, creds, edits>>

Names == {"profile", "url", "nexus", "offline", "rack", "key"}

\* An option without an environment variable cannot be configured.
Configurable == Names \ {"offline"}

Conflicts == {{"url", "nexus"}, {"url", "offline"}, {"nexus", "offline"}}

Unset == [o \in {} |-> "none"]

Value(options, o) == IF o \in DOMAIN options THEN options[o] ELSE "none"

\* One set of option values over another.
Over(strong, weak) ==
    [o \in DOMAIN strong \cup DOMAIN weak |-> IF o \in DOMAIN strong THEN strong[o] ELSE weak[o]]

Nowhere == <<>>

-----------------------------------------------------------------------------
(* The cascade.                                                            *)

CommandLine == 3

Environment == 2

ConfigFile == 1

\* Where the value of an option comes from, before conflicts; 0 is nowhere.
Source(o, cli, conf) ==
    IF o \in DOMAIN cli THEN CommandLine
    ELSE IF o \in DOMAIN env THEN Environment
    ELSE IF o \in DOMAIN conf THEN ConfigFile ELSE 0

\* compute_merge_losers: of two conflicting options the one from the weaker
\* source loses.
MergeLosers(cli, conf) ==
    {o \in Names : \E p \in Names :
        /\ {o, p} \in Conflicts
        /\ 0 < Source(o, cli, conf) /\ Source(o, cli, conf) < Source(p, cli, conf)}

\* parse_with_config: the losers' environment variables and defaults are
\* ignored, and conflicts are refused that are left between options set
\* explicitly.
Parse(cli, conf) ==
    LET losers == MergeLosers(cli, conf)
        explicit == DOMAIN cli \cup (DOMAIN env \ losers)
        given == explicit \cup (DOMAIN conf \ losers)
    IN  [ok |-> \A pair \in Conflicts : ~(pair \subseteq explicit),
         values |-> [o \in given |->
            IF o \in DOMAIN cli THEN cli[o]
            ELSE IF o \in DOMAIN env THEN env[o] ELSE conf[o]]]

\* from_toml: the file is refused whole if any of its keys is not an option,
\* and the selected profile, which the file may choose, overrides the keys at
\* its top level.
Load(profile) ==
    LET selected == IF profile # "none" THEN profile ELSE Value(file.top, "profile")
    IN  IF ~file.valid THEN [ok |-> FALSE, values |-> Unset]
        ELSE IF selected = "none" THEN [ok |-> TRUE, values |-> file.top]
        ELSE IF selected \notin DOMAIN file.profiles THEN [ok |-> FALSE, values |-> Unset]
        ELSE [ok |-> TRUE, values |-> Over(file.profiles[selected], file.top)]

\* from_supplied: what is supplied and the environment select the profile.
FromSupplied(cli) ==
    LET parsed == Parse(cli, Unset)
    IN  IF parsed.ok THEN Load(Value(parsed.values, "profile")) ELSE parsed

-----------------------------------------------------------------------------
(* The shell.                                                              *)

\* The options that decide who the client is and who it talks to.
Identity(options) ==
    <<Value(options, "key"), Value(options, "url"), Value(options, "nexus")>>

\* ClientHandle::from_args: where the options lead, by a tunnel or directly.
FromArgs(options) ==
    IF "nexus" \in DOMAIN options THEN <<"nexus", options["nexus"], Value(options, "rack")>>
    ELSE IF "url" \in DOMAIN options THEN <<"url", options["url"]>>
    ELSE Nowhere

IsMissingRack(options) == "nexus" \in DOMAIN options /\ "rack" \notin DOMAIN options

\* The shell starts with what its command line supplied.
OptionsInit(files, environments, commandLines) ==
    /\ env \in environments /\ file \in files /\ supplied \in commandLines
    /\ LET loaded == FromSupplied(supplied)
           parsed == Parse(supplied, loaded.values)
       IN  /\ loaded.ok /\ parsed.ok
           /\ config = loaded.values /\ globals = parsed.values
    /\ handle = Nowhere
    /\ creds = <<>>

\* Mutant of ApplyOptions: only another key needs another login.
ApplyOptionsSameLogin(new) ==
    LET loaded == FromSupplied(new)
        parsed == Parse(new, loaded.values)
    IN  /\ IF loaded.ok /\ parsed.ok
           THEN /\ supplied' = new /\ config' = loaded.values /\ globals' = parsed.values
                /\ handle' = Nowhere
                /\ creds' = IF Value(parsed.values, "key") = Value(globals, "key")
                            THEN creds ELSE <<>>
           ELSE UNCHANGED <<supplied, config, globals, creds, handle>>
        /\ UNCHANGED <<env, file, edits>>

\* apply_options reads the file again.  An error leaves everything as it was;
\* otherwise the next command makes a new handle, and logs in again if the
\* client became someone else or talks to someone else.
ApplyOptions(new) ==
    LET loaded == FromSupplied(new)
        parsed == Parse(new, loaded.values)
    IN  /\ IF loaded.ok /\ parsed.ok
           THEN /\ supplied' = new /\ config' = loaded.values /\ globals' = parsed.values
                /\ handle' = Nowhere
                /\ creds' = IF Identity(parsed.values) = Identity(globals) THEN creds ELSE <<>>
           ELSE UNCHANGED <<supplied, config, globals, creds, handle>>
        /\ UNCHANGED <<env, file, edits>>

\* Mutant of Update: a conflicting option stays.
UpdateKeeping(other) == Over(other, supplied)

\* SuppliedOptions::update: what is supplied replaces what it conflicts with.
Update(other) ==
    LET replaced == {o \in DOMAIN supplied : \E p \in DOMAIN other : {o, p} \in Conflicts}
    IN  Over(other, [o \in DOMAIN supplied \ replaced |-> supplied[o]])

\* set, unless it names options that conflict, which does not parse.
SetOptions(other) ==
    /\ Parse(other, config).ok
    /\ ApplyOptions(Update(other))

\* unset, of options that were supplied.
UnsetOptions(names) ==
    /\ names \subseteq DOMAIN supplied
    /\ ApplyOptions([o \in DOMAIN supplied \ names |-> supplied[o]])

\* Someone edits the file while the shell runs.
EditFile(files) ==
    /\ edits > 0 /\ edits' = edits - 1
    /\ file' \in files \ {file}
    /\ UNCHANGED <<env, supplied, config, globals, handle, creds>>

\* client_handle: a command that goes online uses the handle there is, or makes
\* one.  With no address it stays offline.  It fails, and changes nothing, if the
\* rack is missing; and so it may if the token is, or if the tunnel cannot be
\* started or the certificates cannot be read, which is a step not taken.
GoOnline ==
    /\ ~IsMissingRack(globals) \/ handle # Nowhere
    /\ handle' = IF handle = Nowhere THEN FromArgs(globals) ELSE handle
    /\ UNCHANGED <<env, file, supplied, config, globals, edits>>

\* A refused request logs in with the key and the address of the moment.
LogIn == creds' = IF creds = <<>> THEN Identity(globals) ELSE creds

-----------------------------------------------------------------------------
(* Properties.                                                             *)

\* Each source of options sets what it may.
OptionsTypeOK ==
    /\ {DOMAIN supplied, DOMAIN globals} \subseteq SUBSET Names
    /\ {DOMAIN env, DOMAIN config} \subseteq SUBSET Configurable
    /\ edits \in Nat

\* An option that some source sets has no effect only because a conflicting
\* one from a stronger source has: never because of one that was itself
\* dropped.  Two conflicting options have an effect together only if both are
\* the file's (the conflicts of GlobalArgs, compute_merge_losers).
StrongestWins ==
    LET from(o) == Source(o, supplied, config)
    IN  /\ \A o \in Names : from(o) > 0 /\ o \notin DOMAIN globals =>
             \E p \in DOMAIN globals : {o, p} \in Conflicts /\ from(p) > from(o)
        /\ \A o, p \in DOMAIN globals : {o, p} \in Conflicts =>
             from(o) = ConfigFile /\ from(p) = ConfigFile

\* The shell is never stuck: after any sequence of set and unset, each option
\* can still be set.  It may be refused for what the file has become, and never
\* because of what was supplied before it (SuppliedOptions::update).  The set
\* command itself must parse, which variables of the environment that conflict
\* with one another prevent until they are outranked on the same line.
AnyOptionCanBeSet == \A o \in Names : Parse(Update([x \in {o} |-> "any"]), config).ok

\* The handle that the commands share leads where the options of the moment
\* lead, whatever was set, unset or edited since it was made
\* (Repl::apply_options, Repl::client_handle).
HandleCurrent == handle # Nowhere => handle = FromArgs(globals)

\* The credentials that the commands share were obtained with the key, and
\* through the address, of the moment (the comparison of Repl::apply_options).
CredentialsCurrent == creds # <<>> => creds = Identity(globals)

\* What the commands of a shell share is current (Repl::apply_options).
SharedCurrent == HandleCurrent /\ CredentialsCurrent

=============================================================================
