--------------------------- MODULE DispatchProofs ---------------------------
(***************************************************************************)
(* What holds of the shell's options and of where jobs run, for every set  *)
(* of sleds and cubbies, every configuration and every target.             *)
(***************************************************************************)
EXTENDS Dispatch, TLAPS

\* What each action does to the variables of the other part.
LEMMA NextSplits ==
    ASSUME Next
    PROVE  \/ /\ \/ \E other \in Settings : SetOptions(other)
                 \/ \E o \in Names : UnsetOptions({o})
                 \/ EditFile(Files)
              /\ UNCHANGED targetVars
           \/ /\ GoOnline /\ LogIn
              /\ Prepare(typed.arg, typed.mode) \/ SignedBySupport(typed.arg, typed.mode)
           \/ /\ Confirm \/ Forward \/ Accept \/ \E s \in Sleds : Hear(s)
              /\ UNCHANGED optionVars
           \/ /\ \/ \E s \in Sleds, c \in Cubbies \cup {0} : Reseat(s, c)
                 \/ \E x \in Sleds \cup {Proxy}, known \in SUBSET Sleds : Publish(x, known)
              /\ UNCHANGED optionVars
BY DEF Next, Change, Edit, Start, StartSigned, Dispatched, Rearranged

-----------------------------------------------------------------------------
(* The options.                                                            *)

\* Applying new options leaves neither a handle nor credentials that are not
\* theirs (Repl::apply_options).
LEMMA ApplyKeepsCurrent ==
    ASSUME SharedCurrent, NEW new, ApplyOptions(new)
    PROVE  SharedCurrent'
<1> DEFINE loaded == FromSupplied(new)
           parsed == Parse(new, loaded.values)
<1>1. CASE loaded.ok /\ parsed.ok
  <2>1. /\ globals' = parsed.values
        /\ handle' = Nowhere
        /\ creds' = IF Identity(parsed.values) = Identity(globals) THEN creds ELSE <<>>
    BY <1>1 DEF ApplyOptions
  <2> QED BY <2>1 DEF SharedCurrent, HandleCurrent, CredentialsCurrent, Identity
<1>2. CASE ~(loaded.ok /\ parsed.ok)
  <2>1. UNCHANGED <<globals, creds, handle>>
    BY <1>2 DEF ApplyOptions
  <2> QED BY <2>1 DEF SharedCurrent, HandleCurrent, CredentialsCurrent, Identity, FromArgs, Value
<1> QED BY <1>1, <1>2

\* Every step keeps the handle and the credentials current.
LEMMA SharedCurrentStep == SharedCurrent /\ [Next]_vars => SharedCurrent'
<1> SUFFICES ASSUME SharedCurrent, [Next]_vars
             PROVE  SharedCurrent'
  OBVIOUS
<1> USE DEF SharedCurrent, HandleCurrent, CredentialsCurrent, FromArgs, Identity, Value
<1>1. CASE UNCHANGED optionVars
  BY <1>1 DEF optionVars
<1>2. ASSUME NEW other \in Settings, SetOptions(other)
      PROVE  SharedCurrent'
  BY <1>2, ApplyKeepsCurrent DEF SetOptions
<1>3. ASSUME NEW o \in Names, UnsetOptions({o})
      PROVE  SharedCurrent'
  BY <1>3, ApplyKeepsCurrent DEF UnsetOptions
<1>4. CASE EditFile(Files)
  BY <1>4 DEF EditFile
<1>5. CASE GoOnline /\ LogIn
  BY <1>5 DEF GoOnline, LogIn
<1>6. CASE UNCHANGED vars
  BY <1>6, <1>1 DEF vars, optionVars
<1> QED BY <1>1, <1>2, <1>3, <1>4, <1>5, <1>6, NextSplits, Zenon

\* The handle that commands share always leads where the options lead, and
\* their credentials were obtained with the key and the address of the moment
\* (Repl::apply_options, Repl::client_handle).
THEOREM SharedIsCurrent == Spec => []SharedCurrent
<1>1. Init => SharedCurrent
  BY DEF Init, OptionsInit, SharedCurrent, HandleCurrent, CredentialsCurrent
<1> QED BY <1>1, SharedCurrentStep, PTL DEF Spec

-----------------------------------------------------------------------------
(* The cascade.                                                            *)

Addresses == {"url", "nexus", "offline"}

\* The options that say where the client goes exclude each other, pair by pair
\* (the conflicts of GlobalArgs).
LEMMA ConflictsAre ==
    ASSUME NEW o, NEW p
    PROVE  {o, p} \in Conflicts <=> o # p /\ o \in Addresses /\ p \in Addresses
<1>1. ASSUME {o, p} \in Conflicts
      PROVE  o # p /\ o \in Addresses /\ p \in Addresses
  <2>1. PICK a \in Addresses, b \in Addresses : a # b /\ {o, p} = {a, b}
    BY <1>1 DEF Conflicts, Addresses
  <2>2. o \in {a, b} /\ p \in {a, b} /\ a \in {o, p} /\ b \in {o, p}
    BY <2>1
  <2>3. o = a \/ o = b
    BY <2>2
  <2>4. p = a \/ p = b
    BY <2>2
  <2>5. (a = o \/ a = p) /\ (b = o \/ b = p)
    BY <2>2
  <2>6. a # b
    BY <2>1
  <2> QED BY <2>3, <2>4, <2>5, <2>6
<1>2. ASSUME o # p, o \in Addresses, p \in Addresses
      PROVE  {o, p} \in Conflicts
  <2>1. {o, p} = {p, o}
    OBVIOUS
  <2> QED BY <1>2, <2>1 DEF Conflicts, Addresses
<1> QED BY <1>1, <1>2

\* The source of an option is the strongest that sets it.
LEMMA SourceIs ==
    ASSUME NEW o, NEW cli, NEW conf
    PROVE  /\ Source(o, cli, conf) \in 0..3
           /\ Source(o, cli, conf) = 3 <=> o \in DOMAIN cli
           /\ Source(o, cli, conf) = 2 <=> o \notin DOMAIN cli /\ o \in DOMAIN env
           /\ Source(o, cli, conf) = 1 <=>
                o \notin DOMAIN cli /\ o \notin DOMAIN env /\ o \in DOMAIN conf
BY DEF Source, CommandLine, Environment, ConfigFile

\* Which options lose (compute_merge_losers).
LEMMA LosersAre ==
    ASSUME NEW o, NEW cli, NEW conf
    PROVE  o \in MergeLosers(cli, conf) <=>
             /\ o \in Addresses /\ 0 < Source(o, cli, conf)
             /\ \E p \in Addresses : p # o /\ Source(o, cli, conf) < Source(p, cli, conf)
<1>1. Addresses \subseteq Names
  BY DEF Addresses, Names
<1> QED BY <1>1, ConflictsAre DEF MergeLosers

\* No option that the command line sets loses.
LEMMA CommandLineKept ==
    ASSUME NEW cli, NEW conf
    PROVE  DOMAIN cli \cap MergeLosers(cli, conf) = {}
<1> SUFFICES ASSUME NEW o \in DOMAIN cli, o \in MergeLosers(cli, conf)
             PROVE  FALSE
  OBVIOUS
<1>1. PICK p : Source(o, cli, conf) < Source(p, cli, conf)
  BY LosersAre
<1>2. Source(o, cli, conf) = 3 /\ Source(p, cli, conf) \in 0..3
  BY SourceIs
<1> QED BY <1>1, <1>2

\* What a parse accepts, and which options get a value (parse_with_config).
LEMMA ParseIs ==
    ASSUME NEW cli, NEW conf
    PROVE  /\ DOMAIN Parse(cli, conf).values =
                {o \in DOMAIN cli \cup DOMAIN env \cup DOMAIN conf :
                    o \notin MergeLosers(cli, conf)}
           /\ Parse(cli, conf).ok <=>
                \A o, p \in Addresses : o # p =>
                  ~ /\ o \in DOMAIN cli \cup (DOMAIN env \ MergeLosers(cli, conf))
                    /\ p \in DOMAIN cli \cup (DOMAIN env \ MergeLosers(cli, conf))
<1> DEFINE explicit == DOMAIN cli \cup (DOMAIN env \ MergeLosers(cli, conf))
<1>1. DOMAIN Parse(cli, conf).values = explicit \cup (DOMAIN conf \ MergeLosers(cli, conf))
  BY DEF Parse
<1>2. Parse(cli, conf).ok <=> \A pair \in Conflicts : ~(pair \subseteq explicit)
  BY DEF Parse
<1>3. (\A pair \in Conflicts : ~(pair \subseteq explicit)) <=>
        (\A o, p \in Addresses : o # p => ~(o \in explicit /\ p \in explicit))
  <2>1. ASSUME \A pair \in Conflicts : ~(pair \subseteq explicit),
               NEW o \in Addresses, NEW p \in Addresses, o # p, o \in explicit, p \in explicit
        PROVE  FALSE
    <3>1. {o, p} \in Conflicts
      BY <2>1, ConflictsAre
    <3>2. {o, p} \subseteq explicit
      BY <2>1
    <3> QED BY <2>1, <3>1, <3>2
  <2>2. ASSUME \A o, p \in Addresses : o # p => ~(o \in explicit /\ p \in explicit),
               NEW pair \in Conflicts, pair \subseteq explicit
        PROVE  FALSE
    <3>1. PICK o \in Addresses, p \in Addresses : o # p /\ pair = {o, p}
      BY DEF Conflicts, Addresses
    <3>2. o \in explicit /\ p \in explicit
      BY <2>2, <3>1
    <3> QED BY <2>2, <3>1, <3>2
  <2> QED BY <2>1, <2>2
<1> QED BY <1>1, <1>2, <1>3, CommandLineKept

\* The options in effect are those that a parse of what was supplied and of the
\* configuration as loaded accepts, however the file was edited since.
OptionsInv ==
    /\ OptionsTypeOK
    /\ file \in Files
    /\ Parse(supplied, config).ok /\ globals = Parse(supplied, config).values

\* An option that was dropped lost to one that is in effect: the third of the
\* conflicting options, if it is stronger yet, wins over both
\* (compute_merge_losers).
LEMMA LoserHasWinner ==
    ASSUME NEW cli, NEW conf, NEW o \in MergeLosers(cli, conf)
    PROVE  \E p \in Addresses :
             /\ p # o /\ Source(o, cli, conf) < Source(p, cli, conf)
             /\ p \in DOMAIN Parse(cli, conf).values
<1> DEFINE from(x) == Source(x, cli, conf)
<1> HIDE DEF from
<1>1. o \in Addresses /\ 0 < from(o) /\ \E p \in Addresses : p # o /\ from(o) < from(p)
  BY LosersAre DEF from
<1>2. PICK p \in Addresses : p # o /\ from(o) < from(p)
  BY <1>1
<1>3. from(o) \in 0..3 /\ from(p) \in 0..3
  BY SourceIs DEF from
<1>4. ASSUME NEW x, from(x) > 1, x \notin MergeLosers(cli, conf)
      PROVE  x \in DOMAIN Parse(cli, conf).values
  <2>1. from(x) = 3 \/ from(x) = 2
    BY <1>4, SourceIs DEF from
  <2>2. x \in DOMAIN cli \cup DOMAIN env
    BY <2>1, SourceIs DEF from
  <2> QED BY <2>2, <1>4, ParseIs
<1>5. CASE p \notin MergeLosers(cli, conf)
  <2>1. from(p) > 1
    BY <1>1, <1>2, <1>3
  <2> QED BY <1>2, <1>4, <1>5, <2>1 DEF from
<1>6. CASE p \in MergeLosers(cli, conf)
  <2>1. PICK r \in Addresses : from(p) < from(r)
    BY <1>6, LosersAre DEF from
  <2>2. from(r) \in 0..3
    BY SourceIs DEF from
  <2>3. r # o /\ from(o) < from(r) /\ from(r) = 3
    BY <1>1, <1>2, <1>3, <2>1, <2>2
  <2>4. r \in DOMAIN cli
    BY <2>3, SourceIs DEF from
  <2>5. r \notin MergeLosers(cli, conf)
    BY <2>4, CommandLineKept
  <2> QED BY <2>3, <2>5, <1>4 DEF from
<1> QED BY <1>5, <1>6

\* The parse of the options in effect lets the strongest win.
LEMMA ParsedStrongestWins == OptionsInv => StrongestWins
<1> SUFFICES ASSUME OptionsInv
             PROVE  StrongestWins
  OBVIOUS
<1> DEFINE from(x) == Source(x, supplied, config)
           losers == MergeLosers(supplied, config)
<1>1. DOMAIN globals = {o \in DOMAIN supplied \cup DOMAIN env \cup DOMAIN config : o \notin losers}
  BY ParseIs DEF OptionsInv
<1>2. ASSUME NEW o \in Names, from(o) > 0, o \notin DOMAIN globals
      PROVE  \E p \in DOMAIN globals : {o, p} \in Conflicts /\ from(p) > from(o)
  <2>1. o \in DOMAIN supplied \cup DOMAIN env \cup DOMAIN config
    BY <1>2, SourceIs
  <2>2. o \in losers /\ o \in Addresses
    BY <1>1, <1>2, <2>1, LosersAre
  <2>3. PICK p \in Addresses : /\ p # o /\ from(o) < from(p)
                               /\ p \in DOMAIN Parse(supplied, config).values
    BY <2>2, LoserHasWinner
  <2>4. {o, p} \in Conflicts
    BY <2>2, <2>3, ConflictsAre
  <2>5. from(p) > from(o)
    BY <2>3, SourceIs
  <2> QED BY <2>3, <2>4, <2>5 DEF OptionsInv
<1>3. ASSUME NEW o \in DOMAIN globals, NEW p \in DOMAIN globals, {o, p} \in Conflicts
      PROVE  from(o) = ConfigFile /\ from(p) = ConfigFile
  <2>1. o # p /\ o \in Addresses /\ p \in Addresses
    BY <1>3, ConflictsAre
  <2>2. from(o) \in 1..3 /\ from(p) \in 1..3
    BY <1>1, SourceIs
  <2>3. ~(from(o) < from(p)) /\ ~(from(p) < from(o))
    BY <1>1, <2>1, <2>2, LosersAre
  <2>4. ~(from(o) > 1 /\ from(p) > 1)
    <3>1. ASSUME NEW x \in DOMAIN globals, from(x) > 1
          PROVE  x \in DOMAIN supplied \cup (DOMAIN env \ losers)
      BY <3>1, <1>1, SourceIs
    <3>2. ~(/\ o \in DOMAIN supplied \cup (DOMAIN env \ losers)
            /\ p \in DOMAIN supplied \cup (DOMAIN env \ losers))
      BY <2>1, ParseIs DEF OptionsInv
    <3> QED BY <3>1, <3>2
  <2> HIDE DEF from
  <2> QED BY <2>2, <2>3, <2>4 DEF ConfigFile
<1> QED BY <1>2, <1>3 DEF StrongestWins

\* Setting one option replaces those that it conflicts with
\* (SuppliedOptions::update).
LEMMA UpdateIs ==
    ASSUME NEW o
    PROVE  DOMAIN Update([x \in {o} |-> "any"]) =
             {o} \cup {x \in DOMAIN supplied : {x, o} \notin Conflicts}
BY DEF Update, Over

\* No option that can be set conflicts with what was supplied before it.
LEMMA ParsedAnyCanBeSet == OptionsInv => AnyOptionCanBeSet
<1> SUFFICES ASSUME OptionsInv, NEW o \in Names
             PROVE  Parse(Update([x \in {o} |-> "any"]), config).ok
  BY DEF AnyOptionCanBeSet
<1> DEFINE new == Update([x \in {o} |-> "any"])
           losers == MergeLosers(supplied, config)
           newLosers == MergeLosers(new, config)
<1> HIDE DEF new
<1> SUFFICES ASSUME NEW a \in Addresses, NEW b \in Addresses, a # b,
                    a \in DOMAIN new \cup (DOMAIN env \ newLosers),
                    b \in DOMAIN new \cup (DOMAIN env \ newLosers)
             PROVE  FALSE
  BY ParseIs DEF new
<1>1. DOMAIN new = {o} \cup {x \in DOMAIN supplied : {x, o} \notin Conflicts}
  BY UpdateIs DEF new
<1>2. ASSUME NEW x \in DOMAIN new, NEW y \in Addresses, x \in Addresses, x # y,
             y \in DOMAIN env, y \notin DOMAIN new
      PROVE  y \in newLosers
  <2>1. Source(x, new, config) = 3 /\ Source(y, new, config) = 2
    BY <1>2, SourceIs
  <2> QED BY <1>2, <2>1, LosersAre
<1>3. \A x, y \in Addresses : x # y =>
        ~ /\ x \in DOMAIN supplied \cup (DOMAIN env \ losers)
          /\ y \in DOMAIN supplied \cup (DOMAIN env \ losers)
  BY ParseIs DEF OptionsInv
<1>4. CASE a \in DOMAIN new /\ b \in DOMAIN new
  <2>1. {a, b} \in Conflicts /\ {b, a} \in Conflicts
    BY ConflictsAre
  <2>2. a # o /\ b # o
    BY <1>1, <1>4, <2>1
  <2> QED BY <1>1, <1>3, <1>4, <2>2
<1>5. CASE a \notin DOMAIN new /\ b \notin DOMAIN new
  <2>1. a \in DOMAIN env /\ b \in DOMAIN env /\ a \notin newLosers /\ b \notin newLosers
    BY <1>5
  <2>2. a # o /\ b # o
    BY <1>1, <1>5
  <2>3. o \notin Addresses
    BY <1>1, <1>2, <1>5, <2>1, <2>2
  <2>4. DOMAIN new = {o} \cup DOMAIN supplied
    BY <1>1, <2>3, ConflictsAre
  <2>5. ASSUME NEW x \in Addresses, x \in DOMAIN env, x \notin DOMAIN new, x \in losers
        PROVE  x \in newLosers
    <3>1. PICK p \in Addresses : p # x /\ Source(x, supplied, config) < Source(p, supplied, config)
      BY <2>5, LosersAre
    <3>2. Source(x, supplied, config) = 2 /\ Source(p, supplied, config) \in 0..3
      BY <2>4, <2>5, SourceIs
    <3>3. Source(p, supplied, config) = 3
      BY <3>1, <3>2
    <3>4. p \in DOMAIN new
      BY <3>3, <2>4, SourceIs
    <3> QED BY <1>2, <2>5, <3>1, <3>4
  <2>6. a \in losers \/ b \in losers
    BY <1>3, <2>1
  <2> QED BY <1>5, <2>1, <2>5, <2>6
<1>6. CASE (a \in DOMAIN new) # (b \in DOMAIN new)
  BY <1>2, <1>6
<1> QED BY <1>4, <1>5, <1>6

\* A file that loads sets only what can be configured, whichever profile is
\* selected (ConfigOptions::from_toml).
LEMMA LoadedConfigurable ==
    ASSUME file \in Files, NEW cli, FromSupplied(cli).ok
    PROVE  DOMAIN FromSupplied(cli).values \subseteq Configurable
<1>1. Parse(cli, Unset).ok
  BY DEF FromSupplied
<1>2. PICK profile : FromSupplied(cli) = Load(profile)
  BY <1>1 DEF FromSupplied
<1>3. file.valid /\ Load(profile).ok
  BY <1>2 DEF Load
<1>4. /\ DOMAIN file.top \subseteq Configurable
      /\ \A p \in DOMAIN file.profiles : DOMAIN file.profiles[p] \subseteq Configurable
  BY <1>3, ScenariosAssumption
<1>5. \/ Load(profile).values = file.top
      \/ \E p \in DOMAIN file.profiles : Load(profile).values = Over(file.profiles[p], file.top)
  BY <1>3 DEF Load
<1>6. ASSUME NEW p \in DOMAIN file.profiles
      PROVE  DOMAIN Over(file.profiles[p], file.top) \subseteq Configurable
  BY <1>4 DEF Over
<1> QED BY <1>2, <1>4, <1>5, <1>6

\* What a parse gives a value is an option.
LEMMA ParsedNames ==
    ASSUME NEW cli, NEW conf, DOMAIN cli \subseteq Names,
           DOMAIN env \subseteq Configurable, DOMAIN conf \subseteq Configurable
    PROVE  DOMAIN Parse(cli, conf).values \subseteq Names
<1>1. Configurable \subseteq Names
  BY DEF Configurable
<1> QED BY <1>1, ParseIs

\* The shell starts with options that parse.
LEMMA OptionsInvInit == Init => OptionsInv /\ changes \in Nat
<1> SUFFICES ASSUME Init
             PROVE  OptionsInv /\ changes \in Nat
  OBVIOUS
<1>1. PICK sc \in Scenarios :
        /\ OptionsInit(sc.files, sc.environments, sc.commandLines)
        /\ changes = sc.changes /\ edits = sc.edits
  BY DEF Init
<1>2. /\ sc.files \subseteq Files
      /\ \A e \in sc.environments : DOMAIN e \subseteq Configurable
      /\ \A cli \in sc.commandLines : DOMAIN cli \subseteq Names
      /\ {sc.changes, sc.moves, sc.edits} \subseteq Nat
  BY ScenariosAssumption
<1>3. /\ FromSupplied(supplied).ok /\ config = FromSupplied(supplied).values
      /\ Parse(supplied, config).ok /\ globals = Parse(supplied, config).values
  BY <1>1 DEF OptionsInit
<1>4. file \in Files /\ DOMAIN env \subseteq Configurable /\ DOMAIN supplied \subseteq Names
  BY <1>1, <1>2 DEF OptionsInit
<1>5. DOMAIN config \subseteq Configurable
  BY <1>3, <1>4, LoadedConfigurable
<1>6. DOMAIN globals \subseteq Names
  BY <1>3, <1>4, <1>5, ParsedNames
<1> QED BY <1>1, <1>2, <1>3, <1>4, <1>5, <1>6 DEF OptionsInv, OptionsTypeOK

\* Applying options that do not load or parse changes nothing, and others
\* replace what was supplied, configured and merged together
\* (Repl::apply_options).
LEMMA ApplyKeepsOptions ==
    ASSUME OptionsInv, NEW new, DOMAIN new \subseteq Names, ApplyOptions(new)
    PROVE  OptionsInv'
<1> DEFINE loaded == FromSupplied(new)
           parsed == Parse(new, loaded.values)
<1>1. UNCHANGED <<env, file, edits>>
  BY DEF ApplyOptions
<1>2. CASE loaded.ok /\ parsed.ok
  <2>1. supplied' = new /\ config' = loaded.values /\ globals' = parsed.values
    BY <1>2 DEF ApplyOptions
  <2>2. DOMAIN loaded.values \subseteq Configurable
    BY <1>2, LoadedConfigurable DEF OptionsInv
  <2>3. DOMAIN parsed.values \subseteq Names
    BY <2>2, ParsedNames DEF OptionsInv, OptionsTypeOK
  <2>4. OptionsTypeOK'
    BY <1>1, <2>1, <2>2, <2>3 DEF OptionsInv, OptionsTypeOK
  <2>5. Parse(supplied, config)' = parsed
    BY <1>1, <2>1 DEF Parse, MergeLosers, Source
  <2> QED BY <1>1, <1>2, <2>1, <2>4, <2>5 DEF OptionsInv
<1>3. CASE ~(loaded.ok /\ parsed.ok)
  <2>1. UNCHANGED <<supplied, config, globals>>
    BY <1>3 DEF ApplyOptions
  <2>2. Parse(supplied, config)' = Parse(supplied, config)
    BY <1>1, <2>1 DEF Parse, MergeLosers, Source
  <2> QED BY <1>1, <2>1, <2>2 DEF OptionsInv, OptionsTypeOK
<1> QED BY <1>2, <1>3

\* Every step keeps the options those of a parse.
LEMMA OptionsInvStep == OptionsInv /\ [Next]_vars => OptionsInv'
<1> SUFFICES ASSUME OptionsInv, [Next]_vars
             PROVE  OptionsInv'
  OBVIOUS
<1>1. ASSUME UNCHANGED <<env, supplied, config, globals>>, file' \in Files, edits' \in Nat
      PROVE  OptionsInv'
  <2>1. Parse(supplied, config)' = Parse(supplied, config)
    BY <1>1 DEF Parse, MergeLosers, Source
  <2> QED BY <1>1, <2>1 DEF OptionsInv, OptionsTypeOK
<1>2. ASSUME NEW other \in Settings, SetOptions(other)
      PROVE  OptionsInv'
  <2>1. DOMAIN Update(other) \subseteq Names
    BY ScenariosAssumption DEF Update, Over, OptionsInv, OptionsTypeOK
  <2> QED BY <1>2, <2>1, ApplyKeepsOptions DEF SetOptions
<1>3. ASSUME NEW o \in Names, UnsetOptions({o})
      PROVE  OptionsInv'
  <2> DEFINE new == [x \in DOMAIN supplied \ {o} |-> supplied[x]]
  <2>1. DOMAIN new \subseteq Names /\ ApplyOptions(new)
    BY <1>3 DEF UnsetOptions, OptionsInv, OptionsTypeOK
  <2> HIDE DEF new
  <2> QED BY <2>1, ApplyKeepsOptions
<1>4. CASE EditFile(Files)
  <2>1. edits' \in Nat /\ file' \in Files
    BY <1>4 DEF EditFile, OptionsInv, OptionsTypeOK
  <2> QED BY <1>1, <1>4, <2>1 DEF EditFile
<1>5. CASE GoOnline
  BY <1>1, <1>5 DEF GoOnline, OptionsInv, OptionsTypeOK
<1>6. CASE UNCHANGED optionVars
  BY <1>1, <1>6 DEF optionVars, OptionsInv, OptionsTypeOK
<1>7. CASE UNCHANGED vars
  BY <1>6, <1>7 DEF vars
<1> QED BY <1>2, <1>3, <1>4, <1>5, <1>6, <1>7, NextSplits, Zenon

-----------------------------------------------------------------------------
(* The targets.                                                            *)

Places == [Sleds -> Cubbies \cup {0}]

IsJob(j) == j = [pc |-> j.pc, target |-> j.target, mode |-> j.mode,
                 lists |-> j.lists, at |-> j.at]

\* Every list of an interactive job is of one sled, and of the same one if the
\* target is not a cubby.
OneListed(j) ==
    j.mode = "interactive" =>
        \A list \in j.lists :
            /\ \E s : list = {s}
            /\ \A id \in ToSet(j.target) : id[1] # "cubby" => list = {id[2]}

\* A sled that knows its cubby is in it; only sleds on the list of a sled that
\* accepted the job have ruled on it; and such a list has one sled for a job whose
\* target must be a single one.
TargetsInv ==
    /\ place \in Places /\ own \in Places
    /\ \A s \in Sleds : own[s] \in {0, place[s]}
    /\ IsJob(job)
    /\ job.pc \in {"none", "unconfirmed", "signed"} => job.lists = {}
    /\ fate = [s \in Sleds |-> fate[s]]
    /\ \A s \in Sleds : fate[s] # "none" => \E list \in job.lists : s \in list
    /\ OneListed(job)

\* The list of a single target that it leads to is of the one sled that the target
\* names (Target::resolve).
LEMMA SingleResolves ==
    ASSUME NEW target, IsSingle(target), NEW reachable, NEW cubbies,
           Resolve(target, reachable, cubbies) # {}
    PROVE  /\ \E s : Resolve(target, reachable, cubbies) = {s}
           /\ \A id \in ToSet(target) :
                id[1] # "cubby" => Resolve(target, reachable, cubbies) = {id[2]}
<1>1. target # All /\ ToSet(target) = {target[1]}
  BY DEF IsSingle, All, ToSet
<1>2. Resolve(target, reachable, cubbies) = {Named(target[1], cubbies)}
  BY <1>1 DEF Resolve
<1> QED BY <1>1, <1>2 DEF Named

\* Matching is by where the sled is, if the sled knows that rightly
\* (Target::matches).
LEMMA MatchesInPlace ==
    ASSUME TargetsInv, NEW s \in Sleds, NEW target, Matches(target, s, own[s])
    PROVE  Matches(target, s, place[s])
BY DEF TargetsInv, Matches

\* At first no sled has ruled, and every sled knows where it is.
LEMMA TargetsInvInit == Init => TargetsInv
<1> SUFFICES ASSUME Init
             PROVE  TargetsInv
  OBVIOUS
<1>1. PICK sc \in Scenarios : TargetsInit(sc.places)
  BY DEF Init
<1>2. place \in Places /\ own = place
  BY <1>1, ScenariosAssumption DEF TargetsInit, Places
<1> QED BY <1>1, <1>2 DEF TargetsInit, TargetsInv, IsJob, OneListed

\* A move makes the sled forget where it was, and a publication tells it where
\* it is (Rack::new, Rack::set_cubbies).
LEMMA RearrangedKeepsInv ==
    ASSUME TargetsInv,
           \/ \E s \in Sleds, c \in Cubbies \cup {0} : Reseat(s, c)
           \/ \E x \in Sleds \cup {Proxy}, known \in SUBSET Sleds : Publish(x, known)
    PROVE  TargetsInv' /\ UNCHANGED <<job, fate>>
<1>1. ASSUME NEW s \in Sleds, NEW c \in Cubbies \cup {0}, Reseat(s, c)
      PROVE  TargetsInv' /\ UNCHANGED <<job, fate>>
  <2>1. place' \in Places /\ own' \in Places
    BY <1>1 DEF TargetsInv, Reseat, Places
  <2>2. \A t \in Sleds : own'[t] \in {0, place'[t]}
    BY <1>1 DEF TargetsInv, Reseat, Places
  <2> QED BY <1>1, <2>1, <2>2, Zenon DEF TargetsInv, Reseat
<1>2. ASSUME NEW x \in Sleds \cup {Proxy}, NEW known \in SUBSET Sleds, Publish(x, known)
      PROVE  TargetsInv' /\ UNCHANGED <<job, fate>>
  <2>1. place' = place /\ own' \in Places
    BY <1>2 DEF TargetsInv, Publish, Places
  <2>2. \A t \in Sleds : own'[t] \in {0, place'[t]}
    BY <1>2 DEF TargetsInv, Publish, Places
  <2> QED BY <1>2, <2>1, <2>2 DEF TargetsInv, Publish
<1> QED BY <1>1, <1>2

\* Until a job is accepted, no sled has ruled on it.
LEMMA RequestKeepsInv ==
    ASSUME TargetsInv,
           Prepare(typed.arg, typed.mode) \/ SignedBySupport(typed.arg, typed.mode)
             \/ Confirm \/ Forward
    PROVE  TargetsInv' /\ UNCHANGED fate
<1>5. ASSUME job.lists = {}, IsJob(job'), job'.lists = job.lists,
             UNCHANGED <<place, own, fate>>
      PROVE  TargetsInv'
  BY <1>5 DEF TargetsInv, OneListed
<1>1. CASE Prepare(typed.arg, typed.mode)
  <2>1. \/ \E s : job' = [job EXCEPT !.pc = "signed", !.mode = typed.mode,
                                    !.target = <<Baseboard(s)>>]
        \/ \E pc \in {"signed", "unconfirmed"} : \E target :
             job' = [job EXCEPT !.pc = pc, !.mode = typed.mode, !.target = target]
    BY <1>1, Zenon DEF Prepare
  <2>2. IsJob(job') /\ job'.lists = job.lists
    BY <2>1, Zenon DEF TargetsInv, IsJob
  <2>3. job.lists = {} /\ UNCHANGED <<place, own, fate>>
    BY <1>1, Zenon DEF Prepare, TargetsInv
  <2> QED BY <1>5, <2>2, <2>3
<1>2. CASE SignedBySupport(typed.arg, typed.mode)
  <2>1. IsJob(job') /\ job'.lists = job.lists
    BY <1>2, Zenon DEF SignedBySupport, TargetsInv, IsJob
  <2>2. job.lists = {} /\ UNCHANGED <<place, own, fate>>
    BY <1>2, Zenon DEF SignedBySupport, TargetsInv
  <2> QED BY <1>5, <2>1, <2>2
<1>3. CASE Confirm
  <2>1. IsJob(job') /\ job'.lists = job.lists
    BY <1>3, Zenon DEF Confirm, TargetsInv, IsJob
  <2>2. job.lists = {} /\ UNCHANGED <<place, own, fate>>
    BY <1>3, Zenon DEF Confirm, TargetsInv
  <2> QED BY <1>5, <2>1, <2>2
<1>4. CASE Forward
  <2>1. /\ IsJob(job') /\ job'.pc = "sent" /\ job'.lists = job.lists
        /\ job'.mode = job.mode /\ job'.target = job.target
    BY <1>4, Zenon DEF Forward, TargetsInv, IsJob
  <2>2. UNCHANGED <<place, own, fate>>
    BY <1>4, Zenon DEF Forward
  <2> QED BY <2>1, <2>2 DEF TargetsInv, OneListed
<1> QED BY <1>1, <1>2, <1>3, <1>4

\* The accepting sled's list for an interactive job has one sled
\* (JobManager::job_start).
LEMMA AcceptKeepsInv ==
    ASSUME TargetsInv, Accept
    PROVE  TargetsInv' /\ UNCHANGED fate
<1>1. PICK linked \in SUBSET Sleds :
        /\ Resolve(job.target, linked \cup {job.at}, map[job.at]) # {}
        /\ job' = [job EXCEPT !.pc = "accepted", !.lists =
                     @ \cup {Resolve(job.target, linked \cup {job.at}, map[job.at])}]
  BY Zenon DEF Accept
<1> DEFINE sleds == Resolve(job.target, linked \cup {job.at}, map[job.at])
<1>2. UNCHANGED <<place, own, fate>> /\ (IsSingle(job.target) \/ job.mode # "interactive")
  BY DEF Accept, TargetMatchesMode
<1>3. /\ IsJob(job') /\ job'.mode = job.mode /\ job'.target = job.target
      /\ job'.pc = "accepted" /\ job'.lists = job.lists \cup {sleds}
  BY <1>1, Zenon DEF TargetsInv, IsJob
<1>4. job.mode = "interactive" =>
        /\ \E s : sleds = {s}
        /\ \A id \in ToSet(job.target) : id[1] # "cubby" => sleds = {id[2]}
  BY <1>1, <1>2, SingleResolves
<1> HIDE DEF sleds
<1>5. OneListed(job')
  BY <1>3, <1>4 DEF TargetsInv, OneListed
<1> QED BY <1>2, <1>3, <1>5 DEF TargetsInv

\* A sled that rules is on a list (State::release_ready_jobs).
LEMMA HearKeepsInv ==
    ASSUME TargetsInv, NEW s \in Sleds, Hear(s)
    PROVE  TargetsInv'
<1>1. fate' = [fate EXCEPT ![s] = CheckTarget(s)] /\ UNCHANGED <<place, own, job>>
  BY DEF Hear
<1>2. \E list \in job.lists : s \in list
  BY DEF Hear, Listed
<1>3. \A t \in Sleds : t # s => fate'[t] = fate[t]
  BY <1>1 DEF TargetsInv
<1>4. fate' = [t \in Sleds |-> fate'[t]]
  BY <1>1 DEF TargetsInv
<1> QED BY <1>1, <1>2, <1>3, <1>4 DEF TargetsInv

\* Every step keeps the invariant.
LEMMA TargetsInvStep == TargetsInv /\ [Next]_vars => TargetsInv'
<1> SUFFICES ASSUME TargetsInv, [Next]_vars
             PROVE  TargetsInv'
  OBVIOUS
<1>1. CASE UNCHANGED targetVars
  BY <1>1 DEF targetVars, TargetsInv
<1>2. CASE UNCHANGED vars
  BY <1>1, <1>2 DEF vars
<1> QED BY <1>1, <1>2, NextSplits, RearrangedKeepsInv, RequestKeepsInv,
           AcceptKeepsInv, HearKeepsInv

\* A sled runs a job only if the job's signed target names it, or the cubby it
\* is in at that moment, whatever became of the maps by which the target was
\* resolved (Rack::check_target).
THEOREM JobsRunWhereTargeted == Spec => RunsWhereTargeted
<1> DEFINE Targeted == \A s \in Sleds : fate'[s] = "ran" /\ fate[s] # "ran" =>
                          Matches(job.target, s, place[s])
<1>1. ASSUME TargetsInv, NEW s \in Sleds, Hear(s)
      PROVE  Targeted
  <2>1. fate' = [fate EXCEPT ![s] = CheckTarget(s)] /\ fate = [t \in Sleds |-> fate[t]]
    BY <1>1 DEF Hear, TargetsInv
  <2>2. CheckTarget(s) = "ran" => Matches(job.target, s, place[s])
    BY <1>1, MatchesInPlace DEF CheckTarget
  <2> QED BY <2>1, <2>2
<1>2. ASSUME UNCHANGED fate
      PROVE  Targeted
  BY <1>2
<1>3. TargetsInv /\ [Next]_vars => [Targeted]_targetVars
  <2> SUFFICES ASSUME TargetsInv, [Next]_vars
               PROVE  [Targeted]_targetVars
    OBVIOUS
  <2>1. CASE UNCHANGED vars
    BY <2>1 DEF vars
  <2> QED BY <2>1, <1>1, <1>2, NextSplits, RearrangedKeepsInv, RequestKeepsInv,
             AcceptKeepsInv
<1> QED BY <1>3, TargetsInvInit, TargetsInvStep, PTL DEF Spec, RunsWhereTargeted

\* However sleds are moved while an interactive job is under way, and however often
\* and by whomever its start is accepted, two sleds run it only if they are what two
\* acceptances resolved its cubby to (JobManager::reachable_targets,
\* Rack::check_target).
THEOREM InteractiveRunsWhereAccepted == Spec => []OneSledPerAcceptance
<1>1. ASSUME TargetsInv, job.mode = "interactive",
             NEW s \in Sleds, NEW t \in Sleds, fate[s] = "ran", fate[t] = "ran", s # t
      PROVE  /\ {s} \in job.lists /\ {t} \in job.lists
             /\ \A id \in ToSet(job.target) : id[1] = "cubby"
  <2>1. PICK mine \in job.lists : s \in mine
    BY <1>1 DEF TargetsInv
  <2>2. PICK other \in job.lists : t \in other
    BY <1>1 DEF TargetsInv
  <2>3. mine = {s} /\ other = {t}
    <3>1. (\E x : mine = {x}) /\ (\E x : other = {x})
      BY <1>1, <2>1, <2>2, Zenon DEF TargetsInv, OneListed
    <3> QED BY <2>1, <2>2, <3>1
  <2>4. ASSUME NEW id \in ToSet(job.target), id[1] # "cubby"
        PROVE  mine = {id[2]} /\ other = {id[2]}
    BY <1>1, <2>4, Zenon DEF TargetsInv, OneListed
  <2> QED BY <1>1, <2>3, <2>4, Zenon
<1>2. TargetsInv => OneSledPerAcceptance
  BY <1>1, Zenon DEF OneSledPerAcceptance
<1> QED BY <1>2, TargetsInvInit, TargetsInvStep, PTL DEF Spec

-----------------------------------------------------------------------------
(* The whole.                                                              *)

Fates == {"none", "ran", "cubby unknown", "not targeted"}

\* What else the types of the rack and the job need.
RackTypes ==
    /\ map = [x \in Sleds \cup {Proxy} |-> map[x]]
    /\ \A x \in Sleds \cup {Proxy} : DOMAIN map[x] \subseteq Cubbies
    /\ job.lists \subseteq SUBSET Sleds /\ job.at \in Sleds /\ aware \subseteq Sleds
    /\ fate \in [Sleds -> Fates]
    /\ moves \in Nat

\* A published map names cubbies there are (Rack::set_cubbies).
LEMMA MapOfCubbies == ASSUME NEW known PROVE DOMAIN MapOf(known) \subseteq Cubbies
BY DEF MapOf

\* The rack and the job start with their types.
LEMMA RackTypesInit == Init => RackTypes
<1> SUFFICES ASSUME Init
             PROVE  RackTypes
  OBVIOUS
<1>1. PICK sc \in Scenarios : TargetsInit(sc.places) /\ moves = sc.moves
  BY DEF Init
<1>2. moves \in Nat
  BY <1>1, ScenariosAssumption
<1>3. /\ map = [x \in Sleds \cup {Proxy} |-> map[x]]
      /\ \A x \in Sleds \cup {Proxy} : DOMAIN map[x] \subseteq Cubbies
  <2> HIDE DEF MapOf
  <2> QED BY <1>1, MapOfCubbies DEF TargetsInit
<1>4. /\ job.lists \subseteq SUBSET Sleds /\ job.at \in Sleds /\ aware \subseteq Sleds
      /\ fate \in [Sleds -> Fates]
  BY <1>1, TargetsAssumption DEF TargetsInit, Fates
<1> QED BY <1>2, <1>3, <1>4 DEF RackTypes

\* Every step keeps the types of the rack and the job.
LEMMA RackTypesStep == TargetsInv /\ RackTypes /\ [Next]_vars => RackTypes'
<1> SUFFICES ASSUME TargetsInv, RackTypes, [Next]_vars
             PROVE  RackTypes'
  OBVIOUS
<1>1. ASSUME NEW x \in Sleds \cup {Proxy}, NEW m, DOMAIN m \subseteq Cubbies,
             map' = [map EXCEPT ![x] = m], Move, aware' \subseteq Sleds,
             UNCHANGED <<job, fate>>
      PROVE  RackTypes'
  <2>1. /\ map' = [y \in Sleds \cup {Proxy} |-> map'[y]]
        /\ \A y \in Sleds \cup {Proxy} : DOMAIN map'[y] \subseteq Cubbies
    BY <1>1 DEF RackTypes
  <2>2. moves' \in Nat
    BY <1>1 DEF RackTypes, Move
  <2> QED BY <1>1, <2>1, <2>2 DEF RackTypes
<1>2. ASSUME NEW s \in Sleds, NEW c \in Cubbies \cup {0}, Reseat(s, c)
      PROVE  RackTypes'
  <2>1. DOMAIN NoMap \subseteq Cubbies
    BY DEF NoMap
  <2>2. aware' \subseteq Sleds
    BY <1>2 DEF Reseat, RackTypes
  <2> QED BY <1>1, <1>2, <2>1, <2>2, Zenon DEF Reseat
<1>3. ASSUME NEW x \in Sleds \cup {Proxy}, NEW known \in SUBSET Sleds, Publish(x, known)
      PROVE  RackTypes'
  <2>1. aware' \subseteq Sleds
    BY <1>3, Zenon DEF Publish, RackTypes
  <2> QED BY <1>1, <1>3, <2>1, MapOfCubbies, Zenon DEF Publish
<1>4. ASSUME UNCHANGED <<map, aware, fate, moves>>, job'.lists \subseteq SUBSET Sleds,
             job'.at \in Sleds
      PROVE  RackTypes'
  BY <1>4 DEF RackTypes
<1>5. CASE Prepare(typed.arg, typed.mode)
  <2>1. \/ \E s : job' = [job EXCEPT !.pc = "signed", !.mode = typed.mode,
                                    !.target = <<Baseboard(s)>>]
        \/ \E pc \in {"signed", "unconfirmed"} : \E target :
             job' = [job EXCEPT !.pc = pc, !.mode = typed.mode, !.target = target]
    BY <1>5, Zenon DEF Prepare
  <2>2. job'.lists = job.lists /\ job'.at = job.at
    BY <2>1, Zenon DEF TargetsInv, IsJob
  <2> QED BY <1>4, <1>5, <2>2 DEF Prepare, RackTypes
<1>6. CASE SignedBySupport(typed.arg, typed.mode)
  <2>1. job'.lists = job.lists /\ job'.at = job.at
    BY <1>6, Zenon DEF SignedBySupport, TargetsInv, IsJob
  <2> QED BY <1>4, <1>6, <2>1 DEF SignedBySupport, RackTypes
<1>7. CASE Confirm
  <2>1. job'.lists = job.lists /\ job'.at = job.at
    BY <1>7, Zenon DEF Confirm, TargetsInv, IsJob
  <2> QED BY <1>4, <1>7, <2>1 DEF Confirm, RackTypes
<1>8. CASE Forward
  <2>1. PICK s \in Routes(job.target) : job' = [job EXCEPT !.pc = "sent", !.at = s]
    BY <1>8, Zenon DEF Forward
  <2>2. s \in Sleds
    BY <2>1 DEF Routes
  <2>3. job'.lists = job.lists /\ job'.at = s
    BY <2>1, Zenon DEF TargetsInv, IsJob
  <2> QED BY <1>4, <1>8, <2>2, <2>3 DEF Forward, RackTypes
<1>9. CASE Accept
  <2>1. PICK linked \in SUBSET Sleds :
          job' = [job EXCEPT !.pc = "accepted", !.lists =
                    @ \cup {Resolve(job.target, linked \cup {job.at}, map[job.at])}]
    BY <1>9, Zenon DEF Accept
  <2> DEFINE sleds == Resolve(job.target, linked \cup {job.at}, map[job.at])
  <2>2. job'.lists = job.lists \cup {sleds} /\ job'.at = job.at
    BY <2>1, Zenon DEF TargetsInv, IsJob
  <2>3. sleds \subseteq Sleds
    BY DEF Resolve, RackTypes
  <2> HIDE DEF sleds
  <2>4. job'.lists \subseteq SUBSET Sleds /\ job'.at \in Sleds
    BY <2>2, <2>3 DEF RackTypes
  <2> QED BY <1>4, <1>9, <2>4 DEF Accept
<1>10. ASSUME NEW s \in Sleds, Hear(s)
       PROVE  RackTypes'
  <2>1. CheckTarget(s) \in Fates
    BY DEF CheckTarget, Fates
  <2>2. fate' \in [Sleds -> Fates]
    BY <1>10, <2>1 DEF Hear, RackTypes
  <2> QED BY <1>10, <2>2 DEF Hear, RackTypes
<1>11. CASE UNCHANGED targetVars
  BY <1>11 DEF targetVars, RackTypes
<1>12. CASE UNCHANGED vars
  BY <1>11, <1>12 DEF vars
<1> QED BY <1>2, <1>3, <1>5, <1>6, <1>7, <1>8, <1>9, <1>10, <1>11, <1>12, NextSplits, Zenon

\* In every state of the shell the types hold, the strongest source of
\* conflicting options wins, and each option can still be set, for every
\* environment, command line, configuration file and sequence of set, unset
\* and edits (parse_with_config, SuppliedOptions::update, Repl::apply_options).
THEOREM DispatchInvariant == Spec => []DispatchInv
<1> DEFINE Whole == OptionsInv /\ TargetsInv /\ RackTypes /\ changes \in Nat
<1>1. Init => Whole
  BY OptionsInvInit, TargetsInvInit, RackTypesInit
<1>2. Whole /\ [Next]_vars => Whole'
  <2> SUFFICES ASSUME Whole, [Next]_vars
               PROVE  changes' \in Nat
    BY OptionsInvStep, TargetsInvStep, RackTypesStep
  <2> QED BY DEF Next, Change, Edit, Start, StartSigned, Dispatched, Rearranged, vars
<1>3. Whole => DispatchInv
  <2>1. Whole => TargetsTypeOK
    BY DEF TargetsInv, RackTypes, TargetsTypeOK, Places, Fates
  <2> QED BY <2>1, ParsedStrongestWins, ParsedAnyCanBeSet
          DEF DispatchInv, DispatchTypeOK, OptionsInv
<1> QED BY <1>1, <1>2, <1>3, PTL DEF Spec

=============================================================================
