------------------------------- MODULE Client -------------------------------
(***************************************************************************)
(* The client's commands (client/src/commands.rs, client/src/cli.rs) over  *)
(* the logins of module Login, against a rack reduced to what its          *)
(* endpoints answer (server/src/server.rs): the session and its chain of   *)
(* jobs, and how each sled says each job stands.                           *)
(*                                                                         *)
(* One command runs at a time; what makes it hard is that `job start       *)
(* --wait` runs three request futures at once, a download a few more, that *)
(* the user may interrupt any of it, and that a request whose future is    *)
(* dropped is still delivered.                                             *)
(*                                                                         *)
(* A job ID is a hash chained from the jobs before it.  Here a chain is    *)
(* the sequence of what became of each ID: Burned, or the number of the    *)
(* command that signed the job; the ID of a job is its session and the     *)
(* chain before it.                                                        *)
(***************************************************************************)
EXTENDS Login, FiniteSetsExt

CONSTANTS
    Scenarios,               \* what may happen: see ClientInit
    Sleds, Home,             \* the sleds; the one the client's requests reach
    Chunks, Parallel,        \* chunks of an output; --parallel
    ChunkFutures,            \* the future that fetches each chunk
    WatchMinPolls,           \* WATCH_MIN_POLLS
    MaxIdlePolls             \* bound on polls in a row that see no change

ASSUME ClientAssumption ==
    /\ Home \in Sleds /\ IsFiniteSet(Sleds)
    /\ Chunks \in Nat /\ Parallel \in Nat \ {0}
    /\ {MaxIdlePolls, WatchMinPolls} \subseteq Nat
    /\ \A s \in Scenarios :
         Home \in s.sleds /\ s.sleds \subseteq Sleds /\ s.upsets \in Nat
    /\ Futures = {"main", "start", "poll", "stop"} \cup ToSet(ChunkFutures)
    /\ Len(ChunkFutures) = Chunks

VARIABLES
    cmd,         \* the command in progress, and the locals of its function
    local,       \* the client's session: its ID and its chain, also on disk
    lastJob,     \* the last job the shell knows of
    tty,         \* how the terminal is set
    file,        \* the output file: which chunks it holds
    rack,        \* the rack
    issued,      \* commands so far
    script,      \* what each of the commands to come may be
    interrupts,  \* interrupts to come
    unsure       \* history: a start or a skip was abandoned unanswered since
                 \* the session was adopted, or under way when it was

clientVars == <<cmd, local, lastJob, tty, file, rack, issued, script,
                interrupts, unsure>>

vars == <<loginVars, clientVars>>

Burned == 0

Chunk(i) == ChunkFutures[i]

NoSession == [sid |-> 0, chain |-> <<>>]

NextJobId(s) == <<s.sid, s.chain>>

Terminal == {"stopped", "skipped"}

NoStatus == [s \in {} |-> "none"]

NewSettling == [polls |-> 0, sleds |-> 0, quiet |-> 0, met |-> 0]

NoCmd == [name |-> "none", pc |-> "idle", job |-> <<>>, sleds |-> {},
          last |-> NoStatus, started |-> FALSE, stopping |-> FALSE,
          stopped |-> FALSE, settling |-> NewSettling, idle |-> 0,
          todo |-> {}, tries |-> 0, sigint |-> FALSE, blind |-> FALSE,
          result |-> "none"]

\* The session the client starts in, and another user's: each has its own ID.
Saved == -1

Others(n) == -1 - n

\* The sequence numbers of the sessions this client starts are even.
Rank(sid) == 2 * sid

NoRank == -1

\* The client has no session, or one it saved that the rack is still in.  A
\* scenario bounds what happens: what the user's commands may be, the sleds
\* in the rack, and how many disturbances and interrupts there may be.
ClientInit ==
    /\ LoginInit
    /\ local \in {NoSession, [sid |-> Saved, chain |-> <<>>]}
    /\ \E s \in Scenarios :
         /\ script = s.commands /\ upsets = s.upsets /\ interrupts = s.interrupts
         /\ rack = [sleds |-> s.sleds, sid |-> local.sid,
                    rank |-> IF local.sid = Saved THEN Rank(0) ELSE NoRank,
                    pending |-> {}, chain |-> <<>>, nonce |-> 0, jobs |-> {}, released |-> {},
                    status |-> [j \in {} |-> NoStatus], inbox |-> <<>>]
    /\ cmd = NoCmd
    /\ lastJob = <<>>
    /\ tty = [mode |-> "normal", saved |-> "normal"]
    /\ file = {}
    /\ issued = 0
    /\ unsure = FALSE

-----------------------------------------------------------------------------
(* The rack: its state machine, one message at a time.  The endpoints check  *)
(* a request, send it to the state machine's inbox and answer; what is in    *)
(* the inbox is applied later, and ignored if it lost a race.                *)

Outranks(sid) == Rank(sid) > rack.rank

\* Manager::session_check.
IsCurrent(sid) == rack.sid = sid \/ (sid \in rack.pending /\ Outranks(sid))

\* Manager::starter_check: the session is this user's.
IsStarter == rack.sid # 0 /\ rack.sid >= Saved

\* The chain of session sid once every job that is next has been released.
Released(sid, chain, jobs) ==
    LET Follows(c) == \A i \in (Len(chain) + 1)..Len(c) :
                        [id |-> <<sid, SubSeq(c, 1, i - 1)>>, tag |-> c[i]] \in jobs
        longer == {c \in {Append(j.id[2], j.tag) : j \in jobs} :
                     IsPrefix(chain, c) /\ Follows(c)}
    IN  IF longer = {} THEN chain
        ELSE CHOOSE c \in longer : \A d \in longer : Len(d) <= Len(c)

\* A job is released when the chain passes it, and stays so when the session ends.
IsReleased(id) ==
    \/ id \in rack.released
    \/ id[1] = rack.sid /\ IsPrefix(id[2], rack.chain) /\ id[2] # rack.chain

\* When a session ends, the jobs still queued are skipped; those that were
\* released go on.
Halted(status) ==
    [j \in DOMAIN status |-> IF IsReleased(j) THEN status[j] ELSE [s \in rack.sleds |->
        IF status[j][s] \in {"none", "queued"} THEN "skipped" ELSE status[j][s]]]

Ended(sid, rank) ==
    [rack EXCEPT !.sid = sid, !.rank = rank, !.chain = <<>>, !.status = Halted(@),
                 !.released = {id \in DOMAIN rack.status : IsReleased(id)}]

\* Job id has this status on every sled, if it had none before.
Known(status, id, new) ==
    [j \in DOMAIN status \cup {id} |->
       IF j \in DOMAIN status THEN status[j] ELSE [s \in rack.sleds |-> new[s]]]

AllSkipped == [s \in rack.sleds |-> "skipped"]

ApplySessionStart(sid) ==
    IF rack.sid = sid \/ ~Outranks(sid) THEN rack
    ELSE [rack EXCEPT !.pending = @ \cup {sid}]

ApplySessionStop(sid) == IF rack.sid = sid /\ IsStarter THEN Ended(0, NoRank) ELSE rack

\* The next ID is burned, or the last one if its job was started meanwhile.
ApplySkip(id) ==
    LET next == id[2] = rack.chain
        head == \E tag \in 1..issued : rack.chain = Append(id[2], tag)
    IN  IF rack.sid = id[1] /\ IsStarter /\ (next \/ head)
        THEN [rack EXCEPT !.chain = Released(rack.sid, Append(id[2], Burned), rack.jobs),
                          !.status = Known(@, id, AllSkipped)]
        ELSE rack

\* A job of a pending session confirms it.  A job that is not the next one is
\* queued until it is, a known one is dropped, and one whose session is not
\* active is skipped.
ApplyStart(id, tag) ==
    LET sid == id[1]
        base == [(IF sid \in rack.pending /\ Outranks(sid) THEN Ended(sid, Rank(sid)) ELSE rack)
                   EXCEPT !.pending = @ \ {sid}]
        jobs == rack.jobs \cup {[id |-> id, tag |-> tag]}
        queued == [s \in rack.sleds |-> IF s = Home THEN "queued" ELSE "none"]
    IN  IF base.sid # sid THEN [base EXCEPT !.status = Known(@, id, AllSkipped)]
        ELSE IF id \in DOMAIN rack.status THEN base
        ELSE [base EXCEPT !.jobs = jobs, !.chain = Released(sid, @, jobs),
                          !.status = Known(@, id, queued)]

\* A job that is still queued is cancelled; one that was released is killed.
ApplyStop(id) ==
    IF ~IsStarter \/ id \notin DOMAIN rack.status \/ IsReleased(id) THEN rack
    ELSE [rack EXCEPT !.jobs = {j \in @ : j.id # id},
                      !.status[id] = [s \in rack.sleds |->
                         IF @[s] \in {"none", "queued"} THEN "skipped" ELSE @[s]]]

Apply ==
    /\ rack.inbox # <<>>
    /\ LET m == Head(rack.inbox)
           new == CASE m.t = "session_start" -> ApplySessionStart(m.body)
                    [] m.t = "session_stop"  -> ApplySessionStop(m.body)
                    [] m.t = "skip"          -> ApplySkip(m.body.id)
                    [] m.t = "start"         -> ApplyStart(m.body.id, m.body.tag)
                    [] OTHER                 -> ApplyStop(m.body)
       IN  rack' = [new EXCEPT !.inbox = Tail(rack.inbox)]
    /\ UNCHANGED <<loginVars, cmd, local, lastJob, tty, file, issued, script, interrupts, unsure>>

-----------------------------------------------------------------------------
(* The rack's endpoints, one request at a time.                            *)

\* The request is answered, and the rack becomes what `r2` says.
Answer(r, reply, data, r2) ==
    /\ routed' = routed \ {r}
    /\ task' = Answered(r, reply, data, 0)
    /\ rack' = r2

\* A request is sent to the state machine.
Sent(t, body) == [rack EXCEPT !.inbox = Append(@, [t |-> t, body |-> body])]

\* The request goes on waiting, for what `arg` says.
Await(r, kind, arg, r2) ==
    /\ routed' = (routed \ {r}) \cup {[r EXCEPT !.kind = kind, !.arg = arg]}
    /\ task' = task
    /\ rack' = r2

\* GET /session, and the check a client makes before it has a job signed.
ServeSession(r) ==
    \/ /\ r.kind = "session"
       /\ IF rack.sid = 0 THEN Answer(r, "session", <<>>, rack)
          ELSE Answer(r, "ok", [sid |-> rack.sid, chain |-> rack.chain], rack)
    \/ /\ r.kind = "session_check"
       /\ Answer(r, IF IsCurrent(r.arg) THEN "ok" ELSE "session", <<>>, rack)

\* A nonce is good until the next is fetched.
ServeNonce(r) ==
    /\ r.kind = "nonce"
    /\ Answer(r, "ok", rack.nonce + 1, [rack EXCEPT !.nonce = @ + 1])

\* A session whose ID is made from another nonce is refused.  One that is not
\* is pending until its first job, or outranked.
ServeSessionStart(r) ==
    \/ /\ r.kind = "session_start"
       /\ IF r.arg.nonce # rack.nonce THEN Answer(r, "error", <<>>, rack)
          ELSE Await(r, "beginning", r.arg.sid, Sent("session_start", r.arg.sid))
    \/ /\ r.kind = "beginning"
       /\ r.arg \in rack.pending \/ ~Outranks(r.arg)
       /\ Answer(r, "ok", <<>>, rack)

ServeSessionStop(r) ==
    /\ r.kind = "session_stop"
    /\ IF ~IsStarter \/ rack.sid # r.arg THEN Answer(r, "session", <<>>, rack)
       ELSE Answer(r, "ok", <<>>, Sent("session_stop", r.arg))

ServeSkip(r) ==
    /\ r.kind = "skip"
    /\ IF ~IsStarter \/ rack.sid # r.arg[1] THEN Answer(r, "session", <<>>, rack)
       ELSE IF r.arg[2] # rack.chain THEN Answer(r, "error", <<>>, rack)
       ELSE Answer(r, "ok", <<>>, Sent("skip", [id |-> r.arg, tag |-> Burned]))

\* A known job is refused, and so is one whose session is neither active nor
\* about to be.
ServeStart(r) ==
    /\ r.kind = "start"
    /\ IF r.arg.id \in DOMAIN rack.status THEN Answer(r, "error", <<>>, rack)
       ELSE IF ~IsCurrent(r.arg.id[1]) THEN Answer(r, "session", <<>>, rack)
       ELSE LET sent == Sent("start", [id |-> r.arg.id, tag |-> r.arg.tag])
            IN  IF r.arg.wait THEN Await(r, "starting", r.arg.id, sent)
                ELSE Answer(r, "ok", rack.sleds, sent)

\* wait_for_job: the job is in one of `states` on `sleds`.
HasReached(id, sleds, states) ==
    id \in DOMAIN rack.status /\ \A s \in sleds : rack.status[id][s] \in states

\* A job has started everywhere, when every sled says it has, or will not.  The
\* wait for one that is queued behind another comes to its deadline.
ServeStarting(r) ==
    /\ r.kind = "starting"
    /\ \/ /\ HasReached(r.arg, rack.sleds, Terminal \cup {"started"})
          /\ Answer(r, "ok", rack.sleds, rack)
       \/ /\ HasReached(r.arg, {Home}, {"queued"}) /\ ~IsReleased(r.arg)
          /\ Answer(r, "timeout", <<>>, rack)

\* The status map names the sleds that have reported.
StatusMap(id) ==
    LET all == rack.status[id]
    IN  [s \in {x \in rack.sleds : all[x] # "none"} |-> all[s]]

ServeStatus(r) ==
    /\ r.kind = "status"
    /\ IF r.arg \notin DOMAIN rack.status THEN Answer(r, "notfound", <<>>, rack)
       ELSE Answer(r, "ok", StatusMap(r.arg), rack)

\* The client waits for the sleds that have reported.
ServeStop(r) ==
    \/ /\ r.kind = "stop"
       /\ IF ~IsStarter THEN Answer(r, "error", <<>>, rack)
          ELSE IF r.arg \notin DOMAIN rack.status THEN Answer(r, "notfound", <<>>, rack)
          ELSE Await(r, "stopping", [job |-> r.arg, sleds |-> DOMAIN StatusMap(r.arg)],
                     Sent("stop", r.arg))
    \/ /\ r.kind = "stopping"
       /\ HasReached(r.arg.job, r.arg.sleds, Terminal)
       /\ Answer(r, "ok", <<>>, rack)

\* How the job stands on the sled the request names.
NamedStatus(r) ==
    IF r.arg.job \in DOMAIN rack.status THEN rack.status[r.arg.job][r.arg.sled] ELSE "none"

\* Output is served from the file of a job that ran, running or not.
ServeOutput(r) ==
    /\ r.kind = "output"
    /\ Answer(r, IF NamedStatus(r) \in {"started", "stopped"} THEN "ok" ELSE "notfound",
              <<>>, rack)

\* A job can be attached to while it runs.
ServeAttach(r) ==
    /\ r.kind = "attach"
    /\ Answer(r, IF NamedStatus(r) = "started" THEN "ok" ELSE "notfound", <<>>, rack)

Serve(r) ==
    /\ r \in routed
    /\ \/ ServeSession(r) \/ ServeNonce(r) \/ ServeSessionStart(r)
       \/ ServeSessionStop(r) \/ ServeSkip(r) \/ ServeStart(r)
       \/ ServeStarting(r) \/ ServeStop(r) \/ ServeStatus(r)
       \/ ServeOutput(r) \/ ServeAttach(r)
    /\ UNCHANGED <<signer, wire, proxy, spent, upsets, cmd, local, lastJob, tty,
                   file, issued, script, interrupts, unsure>>

\* A job that has been released runs, or is refused, on each sled, and ends.
Progress(id, s) ==
    /\ id \in DOMAIN rack.status /\ IsReleased(id)
    /\ \E new \in {"started", "skipped", "stopped"} :
         /\ rack.status[id][s] \in IF new = "stopped" THEN {"started"} ELSE {"none", "queued"}
         /\ rack' = [rack EXCEPT !.status[id][s] = new]
    /\ UNCHANGED <<loginVars, cmd, local, lastJob, tty, file, issued, script, interrupts, unsure>>

\* The proxy authorized a request, but cannot reach the sled it is for.
Unroutable(r) ==
    /\ Upset
    /\ r \in routed /\ r.kind \notin {"beginning", "starting", "stopping"}
    /\ Answer(r, "error", <<>>, rack)
    /\ UNCHANGED <<signer, wire, proxy, spent>>

\* A job takes longer than the deadline of a request that waits for it.
TooLate(r) ==
    /\ Upset
    /\ r \in routed /\ r.kind \in {"starting", "stopping"}
    /\ Answer(r, "timeout", <<>>, rack)
    /\ UNCHANGED <<signer, wire, proxy, spent>>

\* Another user fetches a nonce, or their session, whose start is younger or
\* older than that of this user's last one, supersedes the active one.
OtherSession ==
    /\ Upset
    /\ \/ rack' = [rack EXCEPT !.nonce = @ + 1]
       \/ \E rank \in {Rank(issued) - 1, Rank(issued) + 1} :
            rank > rack.rank /\ rack' = Ended(Others(upsets), rank)
    /\ UNCHANGED <<signer, task, wire, routed, proxy, spent, cmd, local, lastJob,
                   tty, file, issued, script, interrupts, unsure>>

-----------------------------------------------------------------------------
(* The commands.                                                           *)

Main == task["main"]

Replied(pc) == cmd.pc = pc /\ IsDone("main")

\* The command goes on with its next request.
CallMain(c, kind, arg) ==
    /\ cmd' = c
    /\ task' = [task EXCEPT !["main"] = Begun(kind, arg, TRUE)]
    /\ UNCHANGED <<signer, wire, routed>>

\* The command returns, and every future it still holds is dropped.
Return(result) ==
    /\ cmd' = [NoCmd EXCEPT !.name = cmd.name, !.result = result]
    /\ task' = [t \in Futures |-> Idle]
    /\ wire' = Orphaned(wire, Futures)
    /\ routed' = Orphaned(routed, Futures)
    /\ signer' = Unlocked(Futures)

ReturnReply == Return(IF Main.reply = "ok" THEN "ok" ELSE "failed")

\* The terminal is changed for a while, and put back as it was found.
SetTty(mode) == tty' = [mode |-> mode, saved |-> tty.mode]

RestoreTty == tty' = [tty EXCEPT !.mode = tty.saved]

\* adopt_session, always forced online: the session and its chain are saved.
Adopt(session) == local' = session

\* job_started advances the chain past the job, and saves it.
JobStarted ==
    /\ local' = [local EXCEPT !.chain = Append(@, issued)]
    /\ lastJob' = cmd.job

Starts == {"plain", "watch", "interactive", "stream"}

\* A command begins, unless what it needs is missing.
Issue(name) ==
    LET c == [NoCmd EXCEPT !.name = name]
        of == [c EXCEPT !.job = lastJob]
    IN  /\ cmd.pc = "idle"
        /\ issued' = issued + 1
        /\ name \in Starts \cup {"skip", "session_stop"} => local.sid # 0
        /\ name \in {"status", "download", "job_stop"} => lastJob # <<>>
        /\ \/ /\ name = "attach"
              /\ CallMain([c EXCEPT !.pc = "joining"], "session", <<>>)
           \/ /\ name = "session_start"
              /\ CallMain([c EXCEPT !.pc = "superseding"], "session", <<>>)
           \/ /\ name = "session_stop"
              /\ CallMain([c EXCEPT !.pc = "ending"], "session_stop", local.sid)
           \/ /\ name = "skip"
              /\ CallMain([c EXCEPT !.pc = "skipping"], "skip", NextJobId(local))
           \/ /\ name \in Starts
              /\ CallMain([c EXCEPT !.pc = "preflight"], "session_check", local.sid)
           \/ /\ name = "status"
              /\ CallMain([of EXCEPT !.pc = "watching"], "status", lastJob)
           \/ /\ name = "download"
              /\ CallMain([of EXCEPT !.pc = "stat"], "status", lastJob)
           \/ /\ name = "job_stop"
              /\ CallMain([of EXCEPT !.pc = "stopping"], "stop", lastJob)
        /\ IF name = "status" THEN SetTty("watch") ELSE UNCHANGED tty
        /\ UNCHANGED <<local, lastJob, file, interrupts>>

\* session attach: the server's session state is authoritative.
Joined ==
    /\ Replied("joining")
    /\ IF Main.reply = "ok" THEN Adopt(Main.data) ELSE UNCHANGED local
    /\ ReturnReply
    /\ UNCHANGED <<lastJob, tty, file>>

\* session start: the user agrees to supersede a session that is active ...
Superseding ==
    /\ Replied("superseding")
    /\ \/ /\ Main.reply \in {"ok", "session"}
          /\ CallMain([cmd EXCEPT !.pc = "nonce"], "nonce", <<>>)
       \/ Main.reply # "session" /\ Return("failed")
    /\ UNCHANGED <<local, lastJob, tty, file>>

\* ... the signing service creates one from the nonces, the client adopts it,
CreateSession ==
    /\ Replied("nonce")
    /\ \/ /\ Main.reply = "ok"
          /\ Adopt([sid |-> issued, chain |-> <<>>])
          /\ CallMain([cmd EXCEPT !.pc = "beginning"], "session_start",
                      [sid |-> issued, nonce |-> Main.data])
       \/ Main.reply # "ok" /\ Return("failed") /\ UNCHANGED local
    /\ UNCHANGED <<lastJob, tty, file>>

\* ... and then asks the rack to start it.
SessionStarted ==
    /\ Replied("beginning")
    /\ ReturnReply
    /\ UNCHANGED <<local, lastJob, tty, file>>

SessionStopped ==
    /\ Replied("ending")
    /\ local' = IF Main.reply = "ok" /\ local.sid = Main.arg THEN NoSession ELSE local
    /\ ReturnReply
    /\ UNCHANGED <<lastJob, tty, file>>

\* Mutant of Skipped: the local chain moves before the rack's answer is read.
SkippedRegardless ==
    /\ Replied("skipping")
    /\ local' = [local EXCEPT !.chain = Append(@, Burned)]
    /\ ReturnReply
    /\ UNCHANGED <<lastJob, tty, file>>

\* job skip: the local chain follows once the rack has agreed.
Skipped ==
    /\ Replied("skipping")
    /\ local' = IF Main.reply = "ok" THEN [local EXCEPT !.chain = Append(@, Burned)] ELSE local
    /\ ReturnReply
    /\ UNCHANGED <<lastJob, tty, file>>

JobStopped ==
    /\ Replied("stopping")
    /\ ReturnReply
    /\ UNCHANGED <<local, lastJob, tty, file>>

-----------------------------------------------------------------------------
(* job start.                                                              *)

\* The session is current: the request for the next ID goes to be signed.
Preflight ==
    /\ Replied("preflight")
    /\ IF Main.reply = "ok"
       THEN /\ cmd' = [cmd EXCEPT !.pc = "signing", !.job = NextJobId(local)]
            /\ task' = [task EXCEPT !["main"] = Idle]
            /\ UNCHANGED <<signer, wire, routed>>
       ELSE Return("failed")
    /\ UNCHANGED <<local, lastJob, tty, file>>

\* The signed job is sent.  Only a plain start does not wait for it to start,
\* and only a watched one polls meanwhile.
Signed ==
    /\ cmd.pc = "signing"
    /\ LET f == IF cmd.name = "watch" THEN "start" ELSE "main"
       IN  task' = [task EXCEPT ![f] = Begun("start",
                [id |-> cmd.job, tag |-> issued, wait |-> cmd.name # "plain"], TRUE)]
    /\ cmd' = [cmd EXCEPT !.pc = IF cmd.name = "watch" THEN "watch" ELSE "launch"]
    /\ IF cmd.name = "watch" THEN SetTty("watch") ELSE UNCHANGED tty
    /\ UNCHANGED <<signer, wire, routed, local, lastJob, file>>

Launched ==
    /\ Replied("launch")
    /\ IF Main.reply # "ok" THEN Return("failed") /\ UNCHANGED <<local, lastJob>>
       ELSE /\ JobStarted
            /\ IF cmd.name = "plain" THEN Return("ok")
               ELSE CallMain([cmd EXCEPT !.pc = "attaching", !.sleds = Main.data],
                             "attach", [job |-> cmd.job, sled |-> Home])
    /\ UNCHANGED <<tty, file>>

\* An interactive job that is already over has its output printed instead.
Attached ==
    /\ Replied("attaching")
    /\ \/ /\ Main.reply = "ok" /\ cmd.name = "interactive"
          /\ cmd' = [cmd EXCEPT !.pc = "terminal"]
          /\ task' = [task EXCEPT !["main"] = Idle]
          /\ SetTty("raw")
          /\ UNCHANGED <<signer, wire, routed, file>>
       \/ /\ Main.reply = "ok" /\ cmd.name = "stream"
          /\ cmd' = [cmd EXCEPT !.pc = "streaming", !.todo = 1..Chunks]
          /\ task' = [task EXCEPT !["main"] = Idle]
          /\ file' = {}
          /\ UNCHANGED <<signer, wire, routed, tty>>
       \/ /\ Main.reply = "notfound" /\ cmd.name = "interactive"
          /\ CallMain([cmd EXCEPT !.pc = "reading"], "status", cmd.job)
          /\ UNCHANGED <<tty, file>>
       \/ /\ Main.reply # "ok" /\ (Main.reply = "notfound" => cmd.name # "interactive")
          /\ Return("failed") /\ UNCHANGED <<tty, file>>
    /\ UNCHANGED <<local, lastJob>>

\* job_output_from, whose errors are only shown, and then the final status.
Posthumous ==
    /\ \/ /\ Replied("reading")
          /\ IF Main.reply = "ok" /\ Main.data[Home] = "stopped"
             THEN CallMain([cmd EXCEPT !.pc = "printing"], "output",
                           [job |-> cmd.job, sled |-> Home])
             ELSE CallMain([cmd EXCEPT !.pc = "final"], "status", cmd.job)
       \/ /\ Replied("printing")
          /\ CallMain([cmd EXCEPT !.pc = "final"], "status", cmd.job)
       \/ /\ Replied("final")
          /\ ReturnReply
    /\ UNCHANGED <<local, lastJob, tty, file>>

\* interactive_job restores the terminal however its loop ends; that may fail,
\* and then so does the command.
Detach ==
    /\ cmd.pc = "terminal"
    /\ \/ RestoreTty /\ CallMain([cmd EXCEPT !.pc = "final"], "status", cmd.job)
       \/ (RestoreTty \/ UNCHANGED tty) /\ Return("failed")
    /\ UNCHANGED <<local, lastJob, file>>

-----------------------------------------------------------------------------
(* Watching a job.                                                         *)

AllTerminal(status) == status # NoStatus /\ \A s \in DOMAIN status : status[s] \in Terminal

\* Settling::done counts a poll: `inventory` is the number of sleds in the
\* rack's inventory, or 0 where it is not asked for or not available.
Count(st, inventory, status) ==
    LET n == Cardinality(DOMAIN status)
    IN  [polls |-> Min({st.polls + 1, WatchMinPolls}),
         sleds |-> n,
         quiet |-> IF AllTerminal(status) /\ n = st.sleds THEN Min({st.quiet + 1, 2}) ELSE 0,
         met |-> IF inventory > 0 /\ AllTerminal(status) /\ n = inventory
                 THEN Min({st.met + 1, 2}) ELSE 0]

\* Mutant of Settled: silence settles a job however few polls there were.
SettledEarly(st, sleds, status) ==
    \/ sleds # {} /\ \A s \in sleds : s \in DOMAIN status /\ status[s] \in Terminal
    \/ st.met >= 2
    \/ st.quiet >= 2

\* The job has settled, by its known sleds, the inventory, or silence.
Settled(st, sleds, status) ==
    \/ sleds # {} /\ \A s \in sleds : s \in DOMAIN status /\ status[s] \in Terminal
    \/ st.met >= 2
    \/ st.polls >= WatchMinPolls /\ st.quiet >= 2

\* The inventory names the sleds its source knows of, or is not available.
Inventories == IF cmd.sleds = {} THEN 0..Cardinality(rack.sleds) ELSE {0}

\* A poll is worth making: something changed, or few polls in a row saw no
\* change.
MayPoll ==
    \/ cmd.idle < MaxIdlePolls
    \/ /\ cmd.job \in DOMAIN rack.status
       /\ \/ StatusMap(cmd.job) # cmd.last
          \/ AllTerminal(StatusMap(cmd.job)) /\ (cmd.started \/ cmd.pc = "pausing")

\* History: the watch was misled.  The job was not on the status map of every
\* sled by the poll that may settle it by silence, or an inventory came short.
Blinded(st, inventory, status) ==
    \/ cmd.blind
    \/ st.polls >= WatchMinPolls /\ DOMAIN status # rack.sleds
    \/ inventory \notin {0, Cardinality(rack.sleds)}

\* How a watch ends whose job has settled.
Verdict(st, inventory, status) ==
    IF Blinded(st, inventory, status) THEN "guessed" ELSE "settled"

Polled(status, st, inventory) ==
    [cmd EXCEPT !.last = status, !.settling = st,
                !.blind = Blinded(st, inventory, status),
                !.idle = IF status = cmd.last THEN Min({@ + 1, MaxIdlePolls}) ELSE 0]

\* The start request returns.  One that timed out counts as started.
StartHeard ==
    /\ cmd.pc = "watch" /\ ~cmd.started /\ IsDone("start")
    /\ \/ /\ task["start"].reply = "ok"
          /\ JobStarted
          /\ cmd' = [cmd EXCEPT !.started = TRUE, !.idle = 0, !.sleds = task["start"].data]
          /\ task' = [task EXCEPT !["start"] = Idle]
          /\ UNCHANGED <<signer, wire, routed, tty>>
       \/ /\ task["start"].reply = "timeout"
          /\ JobStarted
          /\ cmd' = [cmd EXCEPT !.started = TRUE, !.idle = 0]
          /\ task' = [task EXCEPT !["start"] = Idle]
          /\ UNCHANGED <<signer, wire, routed, tty>>
       \/ /\ task["start"].reply \notin {"ok", "timeout"}
          /\ Return("failed") /\ RestoreTty /\ UNCHANGED <<local, lastJob>>
    /\ UNCHANGED file

Tick ==
    /\ cmd.pc = "watch" /\ task["poll"].pc = "off" /\ MayPoll
    /\ task' = [task EXCEPT !["poll"] = Begun("status", cmd.job, TRUE)]
    /\ UNCHANGED <<cmd, signer, wire, routed, local, lastJob, tty, file>>

\* The watch is over: what it last saw decides whether any output is shown.
WatchOver(status, how) ==
    IF \E s \in DOMAIN status : status[s] = "stopped"
    THEN /\ cmd' = [cmd EXCEPT !.pc = "outputs", !.last = status, !.result = how,
                               !.todo = (DOMAIN status) \X {"stdout", "stderr"}]
         /\ task' = [task EXCEPT !["poll"] = IF IsDone("poll") THEN Idle ELSE @]
         /\ UNCHANGED <<signer, wire, routed>>
    ELSE Return("failed")

PollHeard ==
    /\ cmd.pc = "watch" /\ IsDone("poll")
    /\ IF task["poll"].reply \notin {"ok", "notfound"} THEN Return("failed") /\ RestoreTty
       ELSE LET status == IF task["poll"].reply = "ok" THEN task["poll"].data ELSE NoStatus
            IN  \E inventory \in Inventories :
                  LET st == Count(cmd.settling, inventory, status)
                  IN  IF Settled(st, cmd.sleds, status) /\ cmd.started
                      THEN WatchOver(status, Verdict(st, inventory, status)) /\ RestoreTty
                      ELSE /\ cmd' = Polled(status, st, inventory)
                           /\ task' = [task EXCEPT !["poll"] = Idle]
                           /\ UNCHANGED <<signer, wire, routed, tty>>
    /\ UNCHANGED <<local, lastJob, file>>

\* The first interrupt stops the job, unless it has finished; the next ends
\* the watch.
InterruptHeard ==
    /\ cmd.pc = "watch" /\ cmd.sigint
    /\ IF cmd.stopping \/ (cmd.started /\ AllTerminal(cmd.last))
       THEN WatchOver(cmd.last, "interrupted") /\ RestoreTty
       ELSE /\ cmd' = [cmd EXCEPT !.stopping = TRUE, !.sigint = FALSE, !.tries = 1]
            /\ task' = [task EXCEPT !["stop"] = Begun("stop", cmd.job, TRUE)]
            /\ UNCHANGED <<signer, wire, routed, tty>>
    /\ UNCHANGED <<local, lastJob, file>>

\* A stop can race the start, so it is tried three times.
StopHeard ==
    /\ cmd.pc = "watch" /\ cmd.stopping /\ ~cmd.stopped /\ IsDone("stop")
    /\ \/ /\ task["stop"].reply = "notfound" /\ cmd.tries < 3
          /\ cmd' = [cmd EXCEPT !.tries = @ + 1]
          /\ task' = [task EXCEPT !["stop"] = Begun("stop", cmd.job, TRUE)]
          /\ UNCHANGED <<signer, wire, routed, tty>>
       \/ /\ task["stop"].reply = "ok" \/ (task["stop"].reply = "notfound" /\ cmd.tries = 3)
          /\ cmd' = [cmd EXCEPT !.stopped = TRUE]
          /\ UNCHANGED <<signer, task, wire, routed, tty>>
       \/ /\ task["stop"].reply \notin {"ok", "notfound"}
          /\ Return("failed") /\ RestoreTty
    /\ UNCHANGED <<local, lastJob, file>>

\* The output of every sled the job ran on is fetched, one after another.
FetchOutput ==
    /\ cmd.pc = "outputs"
    /\ IF cmd.todo = {} THEN Return("ok")
       ELSE LET out == CHOOSE o \in cmd.todo : TRUE
            IN  \/ /\ Main.pc = "off"
                   /\ CallMain(cmd, "output", [job |-> cmd.job, sled |-> out[1]])
                \/ /\ IsDone("main")
                   /\ IF Main.reply = "ok" \/ Cardinality(DOMAIN cmd.last) > 1
                      THEN /\ cmd' = [cmd EXCEPT !.todo = @ \ {out}]
                           /\ task' = [task EXCEPT !["main"] = Idle]
                           /\ UNCHANGED <<signer, wire, routed>>
                      ELSE Return("failed")
    /\ UNCHANGED <<local, lastJob, tty, file>>

\* What a streamed job's status must say for the file to be good.
StreamVerified(status) ==
    Home \in DOMAIN status /\ status[Home] = "stopped" /\ file = 1..Chunks

\* job_watch: the same settlement, one poll after another.
JobWatchOver(status, how) ==
    /\ RestoreTty
    /\ Return(IF cmd.name = "status" THEN how
              ELSE IF StreamVerified(status) THEN "ok" ELSE "failed")

JobWatch ==
    /\ \/ /\ Replied("watching")
          /\ IF Main.reply # "ok" THEN Return("failed") /\ RestoreTty
             ELSE \E inventory \in Inventories :
                    LET st == Count(cmd.settling, inventory, Main.data)
                    IN  IF Settled(st, cmd.sleds, Main.data)
                        THEN JobWatchOver(Main.data, Verdict(st, inventory, Main.data))
                        ELSE /\ cmd' = [Polled(Main.data, st, inventory) EXCEPT !.pc = "pausing"]
                             /\ task' = [task EXCEPT !["main"] = Idle]
                             /\ UNCHANGED <<signer, wire, routed, tty>>
       \/ /\ cmd.pc = "pausing" /\ ~cmd.sigint /\ MayPoll
          /\ CallMain([cmd EXCEPT !.pc = "watching"], "status", cmd.job)
          /\ UNCHANGED tty
       \/ /\ cmd.pc = "pausing" /\ cmd.sigint
          /\ JobWatchOver(cmd.last, "interrupted")
    /\ UNCHANGED <<local, lastJob, file>>

-----------------------------------------------------------------------------
(* Output files.                                                           *)

\* The first of the chunks to come, if any.
NextChunk == {i \in cmd.todo : \A k \in cmd.todo : i <= k}

\* Frames arrive in order.  A connection that ends counts as the end of the
\* stream, and one that fails does not.
Receive ==
    /\ cmd.pc = "streaming"
    /\ \/ /\ \E i \in NextChunk :
               /\ file' = file \cup {i}
               /\ cmd' = [cmd EXCEPT !.todo = @ \ {i}]
          /\ UNCHANGED <<signer, task, wire, routed, tty, upsets>>
       \/ /\ IF cmd.todo = {} THEN UNCHANGED upsets ELSE Upset
          /\ \/ /\ CallMain([cmd EXCEPT !.pc = "watching"], "status", cmd.job)
                /\ SetTty("watch")
             \/ cmd.todo # {} /\ Return("failed") /\ UNCHANGED tty
          /\ UNCHANGED file
    /\ UNCHANGED <<local, lastJob>>

ChunksInFlight == {i \in 1..Chunks : task[Chunk(i)].pc # "off"}

\* Only the output of a job that ran to its end is downloaded, into a file
\* that is new or truncated.
OpenOutput ==
    /\ Replied("stat")
    /\ IF Main.reply = "ok" /\ Main.data[Home] = "stopped"
       THEN /\ cmd' = [cmd EXCEPT !.pc = "chunks", !.todo = 1..Chunks]
            /\ task' = [task EXCEPT !["main"] = Idle]
            /\ file' = {}
            /\ UNCHANGED <<signer, wire, routed>>
       ELSE Return("failed") /\ UNCHANGED file
    /\ UNCHANGED <<local, lastJob, tty>>

\* buffer_unordered keeps `Parallel` requests in flight, in no order.  They
\* are signed, and are not repeated when refused.
FetchChunk ==
    /\ cmd.pc = "chunks" /\ Cardinality(ChunksInFlight) < Parallel
    /\ \E i \in NextChunk :
         /\ cmd' = [cmd EXCEPT !.todo = @ \ {i}]
         /\ task' = [task EXCEPT ![Chunk(i)] =
                       Begun("output", [job |-> cmd.job, sled |-> Home], FALSE)]
    /\ UNCHANGED <<signer, wire, routed, local, lastJob, tty, file>>

\* byte_stream_to_file writes a chunk where it belongs, or fails the command.
WriteChunk(i) ==
    /\ cmd.pc = "chunks" /\ IsDone(Chunk(i))
    /\ IF task[Chunk(i)].reply = "ok"
       THEN /\ file' = file \cup {i}
            /\ task' = [task EXCEPT ![Chunk(i)] = Idle]
            /\ UNCHANGED <<cmd, signer, wire, routed>>
       ELSE Return("failed") /\ UNCHANGED file
    /\ UNCHANGED <<local, lastJob, tty>>

\* The hash is checked once every chunk has been written.
Downloaded ==
    /\ cmd.pc = "chunks" /\ cmd.todo = {} /\ ChunksInFlight = {}
    /\ Return(IF file = 1..Chunks THEN "ok" ELSE "failed")
    /\ UNCHANGED <<local, lastJob, tty, file>>

-----------------------------------------------------------------------------
(* Interrupts, and the whole.                                              *)

\* The futures that are being polled.  Once the watch is over the futures it
\* left are kept until the command returns, but nobody polls them.
IsPolled(t) ==
    \/ /\ cmd.pc = "watch"
       /\ \/ t = "start" /\ ~cmd.started
          \/ t = "poll"
          \/ t = "stop" /\ cmd.stopping /\ ~cmd.stopped
    \/ cmd.pc = "chunks" /\ t \notin {"main", "start", "poll", "stop"}
    \/ cmd.pc \notin {"watch", "chunks"} /\ t = "main"

\* ^C: `cancelable` drops what it guards, the whole command unless it handles
\* SIGINT itself.  A watch hears it in its select, and so does the signature a
\* login waits for.
Cancelable ==
    \/ cmd.name \notin Starts
    \/ cmd.pc \in {"preflight", "signing", "launch", "streaming"}

Interrupt ==
    /\ interrupts > 0 /\ cmd.pc # "idle"
    /\ interrupts' = interrupts - 1
    /\ \/ Cancelable /\ Return("canceled")
       \/ /\ ~Cancelable \/ cmd.pc = "pausing"
          /\ cmd' = [cmd EXCEPT !.sigint = cmd.pc \in {"watch", "watching", "pausing"}]
          /\ task' = [t \in Futures |->
                IF IsPolled(t) /\ task[t].pc = "touch"
                THEN [task[t] EXCEPT !.pc = "answered", !.reply = "canceled"] ELSE task[t]]
          /\ signer' = Unlocked({t \in Futures : IsPolled(t) /\ task[t].pc = "touch"})
          /\ UNCHANGED <<wire, routed>>
    /\ UNCHANGED <<proxy, spent, upsets, local, lastJob, tty, file, rack, issued, script>>

\* The next command is run by a new process, which has only the saved session.
Relaunch ==
    /\ cmd.pc = "idle"
    /\ signer.authz # 0
    /\ signer' = [authz |-> 0, generation |-> 0, next |-> 1, lock |-> Free]
    /\ lastJob' = <<>>
    /\ UNCHANGED <<task, wire, routed, proxy, spent, upsets, cmd, local, tty, file,
                   rack, issued, script, interrupts, unsure>>

CommandStep ==
    /\ \/ Joined \/ Superseding \/ CreateSession \/ SessionStarted \/ SessionStopped
       \/ Skipped \/ JobStopped
       \/ Preflight \/ Signed \/ Launched \/ Attached \/ Posthumous \/ Detach
       \/ StartHeard \/ Tick \/ PollHeard \/ InterruptHeard \/ StopHeard \/ FetchOutput
       \/ JobWatch
       \/ OpenOutput \/ FetchChunk \/ (\E i \in 1..Chunks : WriteChunk(i)) \/ Downloaded
    /\ UNCHANGED <<proxy, spent, upsets, rack, issued, script, interrupts>>

Command ==
    /\ script # <<>> /\ script' = Tail(script)
    /\ \E name \in Head(script) : Issue(name)
    /\ UNCHANGED <<proxy, spent, upsets, rack>>

Streaming == Receive /\ UNCHANGED <<proxy, spent, rack, issued, script, interrupts>>

\* What the requests in the inbox will add to the chain of session sid.
Moves(sid) ==
    LET sent == SelectSeq(rack.inbox, LAMBDA m : m.t \in {"start", "skip"} /\ m.body.id[1] = sid)
    IN  [i \in DOMAIN sent |-> sent[i].body.tag]

\* History: a request that moves the chain loses its answer, or the future that
\* would have heard it, or times out; or the session the client adopts is one
\* that such a request has yet to move.
NoteUnsure ==
    LET abandoned == \E t \in Futures :
            /\ task[t].kind \in {"start", "skip"} /\ local' = local
            /\ task[t].pc = "sent" \/
                 (task[t].pc = "answered" /\ task[t].reply \in {"ok", "timeout"})
            /\ \/ task'[t].pc = "off" \/ cmd'.pc = "outputs"
               \/ task'[t].reply = "lost"
        guessed == task["start"].reply = "timeout" /\ local' # local
        behind == \/ local'.sid = rack.sid /\ local'.chain # rack.chain
                  \/ Moves(local'.sid) # <<>>
                  \/ \E r \in wire \cup routed : r.from = Gone /\ r.kind \in {"start", "skip"}
    IN  unsure' = IF cmd'.pc = "beginning" THEN FALSE
                  ELSE IF cmd.pc = "joining" /\ cmd'.result = "ok" THEN behind
                  ELSE unsure \/ abandoned \/ guessed

\* What goes on by itself.
Work ==
    \/ (CommandStep \/ Streaming) /\ NoteUnsure
    \/ (\E t \in Futures : IsPolled(t) /\ CallStep(t)) /\ UNCHANGED clientVars
    \/ (\E r \in wire : ProxyCheck(r)) /\ UNCHANGED clientVars
    \/ \E r \in routed : Serve(r)
    \/ Apply
    \/ \E j \in DOMAIN rack.status, s \in rack.sleds : Progress(j, s)

Disturbance ==
    \/ /\ \/ LoginUpset /\ UNCHANGED rack
          \/ \E r \in routed : Unroutable(r) \/ TooLate(r)
       /\ UNCHANGED <<cmd, local, lastJob, tty, file, issued, script, interrupts>>
    \/ Interrupt

Next ==
    \/ Work
    \/ Command /\ UNCHANGED unsure
    \/ Disturbance /\ NoteUnsure
    \/ Relaunch
    \/ OtherSession

Spec == ClientInit /\ [][Next]_vars

\* Whatever can go on does: requests are delivered and answered, jobs that
\* were released end, and the user lets go of a terminal in the end.
FairSpec == Spec /\ WF_vars(Work)

-----------------------------------------------------------------------------
(* Properties.                                                             *)

\* The client, the proxy and the rack have their types, and the tables of the
\* proxy their bounds.
ClientTypeOK ==
    /\ signer.authz \in 0..proxy.minted /\ signer.lock \in Futures \cup {Free}
    /\ \A t \in Futures :
         /\ task[t].pc \in {"off", "ready", "sent", "answered", "agent", "touch",
                            "posted", "loginAnswered"}
         /\ task[t].gen <= signer.generation
    /\ \A r \in wire \cup routed : r.from \in Futures \cup {Gone}
    /\ Len(proxy.nonces) <= MaxNonces /\ Len(proxy.identities) <= MaxIdentities
    /\ tty.mode \in {"normal", "watch", "raw"}
    /\ file \subseteq 1..Chunks
    /\ {j.id : j \in rack.jobs} \subseteq DOMAIN rack.status
    /\ local.sid \in Int /\ local.sid <= issued
    /\ unsure \in BOOLEAN

\* One future logs in at a time, and only because the proxy refused the
\* credentials the client still has: no login replaces credentials that
\* another future has just obtained (AuthzSigner::login_needed).
NoNeedlessLogin ==
    \A t \in Futures :
        task[t].pc \in {"agent", "touch", "posted", "loginAnswered"} =>
            signer.lock = t /\ task[t].used = signer.authz

\* The client and the proxy keep their bounds, and logins are not repeated.
ClientInv == ClientTypeOK /\ NoNeedlessLogin

\* A signed request is authorized at most once, in whatever order requests
\* arrive and however often one is delivered (SeqWindow::spend): a step that
\* takes a request whose number was spent off the wire routes nothing.
AuthorizedOnce ==
    [][\A r \in wire \ wire' :
         r.seq > 0 /\ <<r.login, r.seq>> \in spent => routed' \subseteq routed]_vars

\* A call made with with_login reaches the rack at most once, whatever is
\* refused and retried on the way: only a request that was not forwarded is
\* answered with the refusal that is retried.
ForwardedOnce == \A t \in Futures : task[t].reached <= 1

\* The client's chain is the one the rack will have when it has applied what it
\* was sent, or one behind while that request is being answered: the client
\* never signs a job under an ID that will have been passed.  It is unsure only
\* from when a request that moves the chain was abandoned, timed out or was
\* still under way as the client attached, until it attaches again.
ChainsInStep ==
    local.sid # 0 /\ local.sid = rack.sid /\ ~unsure =>
        LET soon == rack.chain \o Moves(rack.sid)
        IN  \/ local.chain = soon
            \/ /\ cmd.pc \in {"launch", "watch", "skipping"}
               /\ Len(soon) = Len(local.chain) + 1 /\ IsPrefix(local.chain, soon)

\* A watch that ends because the job settled has seen how the job ended on
\* every sled it runs on, though it was told them by the start's answer, by
\* an inventory or by nobody (Settling::done): provided every sled had reported
\* by poll WATCH_MIN_POLLS, and no inventory it was given came short.
NoSledMissed ==
    [][cmd'.result = "settled" /\ cmd.result # "settled" =>
         \A s \in rack.sleds : rack.status[cmd.job][s] \in Terminal]_vars

\* The command waits for the login lock, held by a future of the watch that
\* nobody polls any more.
Stranded == signer.lock # Free /\ ~IsPolled(signer.lock) /\ IsRefused("main")

\* The watched job will not run: its start never reached the rack, or it is
\* queued behind one that did not.
Stalled ==
    /\ cmd.pc \in {"watch", "watching", "pausing"}
    /\ IF cmd.job \in DOMAIN rack.status
       THEN ~IsReleased(cmd.job) /\ ~AllTerminal(StatusMap(cmd.job))
       ELSE cmd.started

\* Every command returns, or watches a job that will not run, or is stranded.
CommandsReturn == []<>(cmd.pc = "idle" \/ Stranded \/ Stalled)

=============================================================================
