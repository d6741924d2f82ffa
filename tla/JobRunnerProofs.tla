--------------------------- MODULE JobRunnerProofs ---------------------------
(***************************************************************************)
(* What job() keeps for every number of clients and chunks, every limit    *)
(* and every choice of failures: JobInv, that no attached client sees a    *)
(* gap, and that a streaming consumer gets the whole output.               *)
(*                                                                         *)
(* The inductive invariant Whole has five parts.  Shape types the          *)
(* variables, Stage says what holds at each phase of the job, Record       *)
(* relates the files, the hashes and the limit, Fed says where the chunks  *)
(* of a stream are between the loop and its consumer, and Attended says    *)
(* what is on its way to the clients of the mux.                           *)
(***************************************************************************)
EXTENDS JobRunner, FiniteSetTheorems, TLAPS

Files == {"stdout", "stderr", "request"}
People == {"leader", "near", "far"}
Early == {"validate", "stdout", "stderr", "request", "spawn", "opened"}
Late == {"flush", "reap", "wait", "ended"}
Message == [kind : Streams \cup {"size"}, val : Nat] \cup [kind : {"close"}]
View == [chunk : Nat, size : Nat, gap : BOOLEAN]

ShapeProc(p) ==
    p \in [state : [People -> {"none", "alive", "zombie", "reaped", "dead"}],
           wrote : [Streams -> Nat], held : BOOLEAN,
           exit : {"none", "code", "signal"}]

ShapeOut(o) ==
    o \in [taken : [Streams -> Nat], hashed : [Streams -> Nat],
           rec : [Streams -> BOOLEAN], file : [Streams -> Seq(Nat)], pos : Nat]

ShapeJob(j) ==
    j \in [mode : Modes, phase : Early \cup {"loop", "failed"} \cup Late,
           base : Bases \cup {NoBase}, limit : Nat, killed : BOOLEAN,
           kills : 0 .. KillAttempts, dead : BOOLEAN, eof : BOOLEAN, pending : Nat,
           attached : BOOLEAN, fatal : BOOLEAN, lost : SUBSET Streams,
           result : {"none", "limit", "code", "signal"}]

ShapeFeed(f) ==
    f \in [chan : Seq(Nat), socket : Clients \cup {"none", "gone", "closed"},
           sending : Nat, got : Seq(Nat), offered : Seq(Clients)]

ShapeMux(m) ==
    m \in [recv : SUBSET Clients, ro : SUBSET Clients, tokens : SUBSET Clients,
           cancelled : SUBSET Clients, writer : [Clients -> {"none", "on", "done"}],
           initial : [Clients -> Seq(Message)], queue : [Clients -> Seq(Message)],
           seen : [Clients -> View]]

ShapeTty(t) ==
    t \in [input : Seq(Clients), typed : Seq(Clients), size : Nat, sized : BOOLEAN]

Shape ==
    /\ dirs.current \in Bases /\ files \in [Files -> Bases \cup {NoBase}]
    /\ ShapeProc(proc) /\ ShapeOut(out) /\ ShapeJob(job) /\ stop \in BOOLEAN
    /\ ShapeFeed(feed) /\ ShapeMux(mux) /\ ShapeTty(tty)
    /\ upsets.failed \in BOOLEAN

\* What each phase of the job may rely on: the base and the limit are set once,
\* before any file; the leader that is reaped has an exit status; only a stream
\* outlives its end of output in the loop.
Stage ==
    /\ job.phase = "validate" => \A f \in Files : files[f] = NoBase
    /\ job.phase \notin {"validate", "failed"} =>
         job.base \in Bases /\ job.limit = FsizeOf[job.base]
    /\ \A f \in Files : files[f] # NoBase =>
         files[f] = job.base /\ job.base \in Bases /\ job.limit = FsizeOf[job.base]
    /\ Streaming => files["stdout"] = NoBase
    /\ job.phase \in Early => \A s \in Streams : out.hashed[s] = 0
    /\ job.phase \in Early => ~job.eof
    /\ job.eof => Streaming
    /\ proc.state["leader"] \in {"zombie", "reaped"} => proc.exit # "none"
    /\ (job.phase = "ended") = (job.result # "none")
    /\ job.phase = "ended" /\ job.fatal => job.result = "limit"
    /\ Len(tty.input) <= InputCapacity

\* What has been read, hashed and recorded, and what was done about the limit.
Record ==
    /\ \A s \in Streams : s \in RecordedStreams =>
         /\ out.hashed[s] <= job.limit + 1
         /\ out.rec[s] => out.hashed[s] <= job.limit
         /\ out.hashed[s] > job.limit => stop /\ job.fatal
         /\ Len(out.file[s]) <= out.hashed[s]
         /\ ~(stop /\ upsets.failed) => out.file[s] = [n \in 1 .. out.hashed[s] |-> n]
    /\ out.pos <= Len(out.file["stdout"])
    /\ ~(stop /\ upsets.failed) => out.pos = Len(out.file["stdout"])
    /\ Streaming => /\ out.rec["stdout"] /\ out.file["stdout"] = <<>>
                    /\ out.taken["stdout"] = out.hashed["stdout"]
    /\ \A s \in Streams : out.taken[s] <= proc.wrote[s]
    /\ job.eof /\ ~upsets.failed =>
         Alive = {} /\ out.taken["stdout"] = proc.wrote["stdout"]

\* How many chunks the consumer has been or is being sent.
Sent == Len(feed.got) + (IF feed.sending = 0 THEN 0 ELSE 1)

\* Between the hash and the consumer, chunks are in order and none is lost while
\* the consumer is there and the loop runs, or has ended with a finished stream.
Fed ==
    /\ ~Streaming => /\ job.pending = 0 /\ feed.chan = <<>> /\ feed.sending = 0
                     /\ feed.got = <<>> /\ feed.socket = "none"
    /\ feed.got = [n \in 1 .. Len(feed.got) |-> n]
    /\ feed.sending \in {0, Len(feed.got) + 1}
    /\ feed.chan \in {<<>>, <<Sent + 1>>}
    /\ feed.socket \in {"none", "gone", "closed"} => feed.sending = 0
    /\ feed.socket = "gone" => feed.chan = <<>>
    /\ feed.socket = "closed" => feed.chan = <<>> /\ job.phase = "ended"
    /\ ~job.attached /\ job.phase # "ended" => feed.socket = "none"
    /\ job.pending # 0 => job.phase = "loop"
    /\ feed.socket # "gone" /\ (job.phase \notin Late \/ (job.eof /\ ~stop)) =>
         /\ job.pending \in {0, out.hashed["stdout"]}
         /\ Streaming => out.hashed["stdout"] =
                           Sent + Len(feed.chan) + (IF job.pending = 0 THEN 0 ELSE 1)

\* The standard output among the messages of q is chunk a + 1 to chunk b in order;
\* f counts it.
Follows(q, a, b) ==
    \E f \in [0 .. Len(q) -> 0 .. b] :
        /\ f[0] = a /\ f[Len(q)] = b
        /\ \A i \in 1 .. Len(q) :
             f[i] = IF q[i].kind = "stdout" THEN q[i].val ELSE f[i - 1]
        /\ \A i \in 1 .. Len(q) : q[i].kind = "stdout" => q[i].val = f[i - 1] + 1

\* The books of the mux, and what its clients have been and will be sent.
Attended ==
    /\ Streaming => \A c \in Clients : mux.writer[c] = "none"
    /\ \A c \in Clients :
         /\ mux.writer[c] # "on" => mux.initial[c] = <<>> /\ mux.queue[c] = <<>>
         /\ mux.writer[c] = "none" =>
              mux.seen[c] = NothingSeen /\ c \notin mux.tokens /\ c \notin mux.cancelled
         /\ mux.writer[c] = "on" /\ c \notin mux.cancelled => c \in mux.recv
         /\ c \in mux.recv => c \in mux.tokens
         /\ c \in mux.recv /\ c \in ReadOnly => c \in mux.ro
         /\ ~stop /\ c \notin mux.cancelled =>
              /\ ~mux.seen[c].gap
              /\ mux.writer[c] = "on" =>
                   Follows(Coming(c), mux.seen[c].chunk, out.hashed["stdout"])
    /\ \A i \in DOMAIN feed.offered : i = 1 /\ mux.writer[feed.offered[i]] = "none"
    /\ \A i \in DOMAIN tty.input : tty.input[i] \notin ReadOnly
    /\ \A i \in DOMAIN tty.typed : tty.typed[i] \notin ReadOnly
    /\ WindowsAgree

Whole == Shape /\ Stage /\ Record /\ Fed /\ Attended
\* Failures are remembered.
LEMMA Upsets ==
    ASSUME upsets.failed \in BOOLEAN, NEW b \in BOOLEAN, Upset(b)
    PROVE  upsets'.failed = (upsets.failed \/ b)
  BY DEF Upset

\* A fault is remembered.
LEMMA Faulty ==
    ASSUME upsets.failed \in BOOLEAN, NEW kind, Fault(kind)
    PROVE  upsets'.failed = TRUE
  BY Upsets, Zenon DEF Fault

\* Hashing a chunk counts it as taken and as hashed, and does nothing else.
LEMMA HashedShape ==
    ASSUME ShapeOut(out), NEW s \in Streams
    PROVE  /\ ShapeOut(Hashed(s))
           /\ Hashed(s).taken = [out.taken EXCEPT ![s] = @ + 1]
           /\ Hashed(s).hashed = [out.hashed EXCEPT ![s] = @ + 1]
           /\ Hashed(s).rec = out.rec /\ Hashed(s).file = out.file
           /\ Hashed(s).pos = out.pos
<1> DEFINE t == [out.taken EXCEPT ![s] = @ + 1]
<1> DEFINE h == [out.hashed EXCEPT ![s] = @ + 1]
<1>1. t \in [Streams -> Nat] /\ h \in [Streams -> Nat]
  BY DEF ShapeOut
<1>2. Hashed(s) = [out EXCEPT !.taken = t, !.hashed = h]
  BY Zenon DEF Hashed
<1> HIDE DEF t, h
<1>3. ShapeOut(Hashed(s))
  BY <1>1, <1>2, Zenon DEF ShapeOut
<1>4. /\ Hashed(s).taken = t /\ Hashed(s).hashed = h
      /\ Hashed(s).rec = out.rec /\ Hashed(s).file = out.file
      /\ Hashed(s).pos = out.pos
  BY <1>2, Zenon DEF ShapeOut
<1> QED
  BY <1>3, <1>4, Zenon DEF t, h

\* A message is appended to the queue of every writer task that is on.
LEMMA RelayedShape ==
    ASSUME NEW m, ShapeMux(m), NEW msg \in Message
    PROVE  /\ ShapeMux(Relayed(m, msg))
           /\ \A c \in Clients : Relayed(m, msg).queue[c] =
                IF m.writer[c] = "on" THEN Append(m.queue[c], msg) ELSE m.queue[c]
           /\ Relayed(m, msg).recv = m.recv /\ Relayed(m, msg).ro = m.ro
           /\ Relayed(m, msg).tokens = m.tokens
           /\ Relayed(m, msg).cancelled = m.cancelled
           /\ Relayed(m, msg).writer = m.writer
           /\ Relayed(m, msg).initial = m.initial /\ Relayed(m, msg).seen = m.seen
<1> DEFINE q == [c \in Clients |-> IF m.writer[c] = "on" THEN Append(m.queue[c], msg)
                                   ELSE m.queue[c]]
<1>1. m.queue \in [Clients -> Seq(Message)]
  BY Zenon DEF ShapeMux
<1>2. q \in [Clients -> Seq(Message)]
  <2> SUFFICES ASSUME NEW c \in Clients PROVE q[c] \in Seq(Message)
    BY Zenon
  <2>1. m.queue[c] \in Seq(Message)
    BY <1>1
  <2>2. Append(m.queue[c], msg) \in Seq(Message)
    BY <2>1
  <2> QED
    BY <2>1, <2>2, Zenon
<1>3. Relayed(m, msg) = [m EXCEPT !.queue = q]
  BY Zenon DEF Relayed
<1>4. \A c \in Clients : q[c] =
        IF m.writer[c] = "on" THEN Append(m.queue[c], msg) ELSE m.queue[c]
  BY Zenon
<1> HIDE DEF q
<1>5. ShapeMux(Relayed(m, msg))
  BY <1>2, <1>3, Zenon DEF ShapeMux
<1>6. Relayed(m, msg).queue = q
  BY <1>3, Zenon DEF ShapeMux
<1>7. /\ Relayed(m, msg).recv = m.recv /\ Relayed(m, msg).ro = m.ro
      /\ Relayed(m, msg).tokens = m.tokens
      /\ Relayed(m, msg).cancelled = m.cancelled
      /\ Relayed(m, msg).writer = m.writer
      /\ Relayed(m, msg).initial = m.initial /\ Relayed(m, msg).seen = m.seen
  BY <1>3, Zenon DEF ShapeMux
<1> QED
  BY <1>4, <1>5, <1>6, <1>7, Zenon

\* The last attempt to pass a chunk on, as the loop ends.
LEMMA LastSendShape ==
    ASSUME ShapeFeed(feed), NEW n \in Nat
    PROVE  /\ ShapeFeed(LastSend(n))
           /\ LastSend(n).chan = IF n # 0 /\ feed.chan = <<>> /\ feed.socket # "gone"
                                 THEN <<n>> ELSE feed.chan
           /\ LastSend(n).socket = feed.socket /\ LastSend(n).sending = feed.sending
           /\ LastSend(n).got = feed.got /\ LastSend(n).offered = feed.offered
<1> DEFINE one == <<n>>
<1>1. one \in Seq(Nat)
  OBVIOUS
<1>2. CASE n # 0 /\ feed.chan = <<>> /\ feed.socket # "gone"
  <2>1. LastSend(n) = [feed EXCEPT !.chan = one]
    BY <1>2, Zenon DEF LastSend
  <2> HIDE DEF one
  <2>2. ShapeFeed(LastSend(n))
    BY <1>1, <2>1, Zenon DEF ShapeFeed
  <2>3. /\ LastSend(n).chan = one
        /\ LastSend(n).socket = feed.socket /\ LastSend(n).sending = feed.sending
        /\ LastSend(n).got = feed.got /\ LastSend(n).offered = feed.offered
    BY <2>1, Zenon DEF ShapeFeed
  <2> QED
    BY <1>2, <2>2, <2>3, Zenon DEF one
<1>3. CASE ~(n # 0 /\ feed.chan = <<>> /\ feed.socket # "gone")
  BY <1>3, Zenon DEF LastSend
<1> QED
  BY <1>2, <1>3, Zenon

\* Leaving the loop.
LEMMA BreakShape ==
    ASSUME NEW j, ShapeJob(j)
    PROVE  /\ ShapeJob(Break(j))
           /\ Break(j).phase = "flush" /\ Break(j).pending = 0
           /\ Break(j).mode = j.mode /\ Break(j).base = j.base
           /\ Break(j).limit = j.limit /\ Break(j).eof = j.eof
           /\ Break(j).attached = j.attached /\ Break(j).fatal = j.fatal
           /\ Break(j).result = j.result
<1>1. "flush" \in Early \cup {"loop", "failed"} \cup Late
  BY DEF Late
<1>2. 0 \in Nat
  OBVIOUS
<1>3. Break(j) = [j EXCEPT !.phase = "flush", !.pending = 0]
  BY DEF Break
<1>4. ShapeJob(Break(j))
  BY <1>1, <1>2, <1>3, Zenon DEF ShapeJob
<1> QED
  BY <1>3, <1>4, Zenon DEF ShapeJob

\* What dies was alive, and a leader that dies leaves an exit status.
LEMMA DiedShape ==
    ASSUME ShapeProc(proc), NEW ps \in SUBSET Alive
    PROVE  /\ Died(proc.state, ps) \in
                [People -> {"none", "alive", "zombie", "reaped", "dead"}]
           /\ \A p \in People : Died(proc.state, ps)[p] = "alive" => proc.state[p] = "alive"
           /\ \A p \in People \ ps : Died(proc.state, ps)[p] = proc.state[p]
<1>1. proc.state \in [People -> {"none", "alive", "zombie", "reaped", "dead"}]
  BY Zenon DEF ShapeProc
<1> QED
  BY <1>1 DEF Died, Alive, People

\* A signal to the job leaves what was written and revives nobody.
LEMMA Killed ==
    ASSUME ShapeProc(proc), upsets.failed \in BOOLEAN, NEW signal, KillJob(signal),
           proc.state["leader"] \in {"zombie", "reaped"} => proc.exit # "none"
    PROVE  /\ ShapeProc(proc)' /\ proc'.wrote = proc.wrote /\ proc'.held = proc.held
           /\ \A p \in People : proc'.state[p] = "alive" => proc.state[p] = "alive"
           /\ proc'.state["leader"] \in {"zombie", "reaped"} => proc'.exit # "none"
           /\ upsets'.failed \in BOOLEAN /\ (upsets.failed => upsets'.failed)
<1>1. CASE Fault("kill") /\ UNCHANGED proc
  <2>1. upsets'.failed = TRUE
    BY <1>1, Faulty, Zenon
  <2> QED
    BY <1>1, <2>1, Zenon
<1>2. ASSUME NEW ps \in SUBSET Reached, Killing(ps), UNCHANGED upsets
      PROVE  /\ ShapeProc(proc)' /\ proc'.wrote = proc.wrote /\ proc'.held = proc.held
             /\ \A p \in People : proc'.state[p] = "alive" => proc.state[p] = "alive"
             /\ proc'.state["leader"] \in {"zombie", "reaped"} => proc'.exit # "none"
  <2> DEFINE d == Died(proc.state, ps)
  <2> DEFINE e == IF "leader" \in ps THEN "signal" ELSE proc.exit
  <2>1. ps \in SUBSET Alive
    BY <1>2 DEF Reached
  <2>2. /\ d \in [People -> {"none", "alive", "zombie", "reaped", "dead"}]
        /\ \A p \in People : d[p] = "alive" => proc.state[p] = "alive"
        /\ \A p \in People \ ps : d[p] = proc.state[p]
    BY <2>1, DiedShape
  <2>3. e \in {"none", "code", "signal"}
    BY Zenon DEF ShapeProc
  <2>4. proc' = [proc EXCEPT !.state = d, !.exit = e]
    BY <1>2, Zenon DEF Killing
  <2>5. "leader" \in ps => e = "signal"
    BY Zenon
  <2>6. "leader" \notin ps => e = proc.exit
    BY Zenon
  <2> HIDE DEF d, e
  <2>7. ShapeProc(proc)'
    BY <2>2, <2>3, <2>4, Zenon DEF ShapeProc
  <2>8. /\ proc'.wrote = proc.wrote /\ proc'.held = proc.held /\ proc'.state = d
        /\ proc'.exit = e
    BY <2>4, Zenon DEF ShapeProc
  <2>9. d["leader"] \in {"zombie", "reaped"} => e # "none"
    BY <2>2, <2>5, <2>6 DEF People
  <2> QED
    BY <2>2, <2>7, <2>8, <2>9
<1> QED
  BY <1>1, <1>2 DEF KillJob

(***************************************************************************)
(* What the parts of the invariant depend on.                              *)
(***************************************************************************)

\* The fields of job() other than its phase and its way with the processes.
JobSame ==
    /\ job'.mode = job.mode /\ job'.base = job.base /\ job'.limit = job.limit
    /\ job'.eof = job.eof /\ job'.pending = job.pending
    /\ job'.attached = job.attached /\ job'.fatal = job.fatal
    /\ job'.result = job.result

\* The stream's fields other than the clients that ask to attach.
FeedSame ==
    /\ feed'.chan = feed.chan /\ feed'.socket = feed.socket
    /\ feed'.sending = feed.sending /\ feed'.got = feed.got

\* Nothing comes to life, and nothing more is written.
ProcSame ==
    /\ \A p \in People : proc'.state[p] = "alive" => proc.state[p] = "alive"
    /\ proc'.wrote = proc.wrote

LeaderSame ==
    proc'.state["leader"] \in {"zombie", "reaped"} => proc'.exit # "none"

\* What a step must leave alone for the stage of the job to stay right.
LEMMA StageFrame ==
    ASSUME Stage, files' = files, JobSame, job'.phase = job.phase,
           out'.hashed = out.hashed, LeaderSame, tty'.input = tty.input
    PROVE  Stage'
  BY DEF Stage, JobSame, LeaderSame, Streaming

\* What a step must leave alone for the record of the output to stay right.
LEMMA RecordFrame ==
    ASSUME Record, out' = out, ProcSame, job'.mode = job.mode,
           job'.limit = job.limit, job.fatal => job'.fatal, job'.eof = job.eof,
           stop => stop', upsets.failed => upsets'.failed
    PROVE  Record'
<1>1. Alive = {} => Alive' = {}
  BY DEF Alive, ProcSame, People
<1>2. RecordedStreams' = RecordedStreams /\ Streaming' = Streaming
  BY DEF RecordedStreams, Streaming
<1> QED
  BY <1>1, <1>2 DEF Record, ProcSame

\* What a step must leave alone for the feed of a stream to stay right.
LEMMA FedFrame ==
    ASSUME Fed, FeedSame, JobSame, stop => stop', out'.hashed = out.hashed,
           \/ job'.phase = job.phase
           \/ job.phase # "loop" /\ job.phase \notin Late /\ job'.phase \notin Late
    PROVE  Fed'
<1>1. Sent' = Sent /\ Streaming' = Streaming
  BY DEF Sent, FeedSame, JobSame, Streaming
<1> QED
  BY <1>1 DEF Fed, FeedSame, JobSame, Late

\* What a step must leave alone for the clients to stay served.
LEMMA AttendedFrame ==
    ASSUME Attended, mux' = mux, job'.mode = job.mode, stop => stop',
           out'.hashed = out.hashed, feed'.offered \in {<<>>, feed.offered}, tty' = tty
    PROVE  Attended'
<1>1. Streaming' = Streaming
  BY DEF Streaming
<1>2. \A c \in Clients : Coming(c)' = Coming(c)
  BY DEF Coming
<1>3. WindowsAgree'
  BY <1>2, Zenon DEF Attended, WindowsAgree
<1>4. \A i \in DOMAIN feed'.offered : i = 1 /\ mux.writer[feed'.offered[i]] = "none"
  BY DEF Attended
<1> QED
  BY <1>1, <1>2, <1>3, <1>4, Zenon DEF Attended

(***************************************************************************)
(* The set-up of the job.                                                  *)
(***************************************************************************)

\* Only the phase of the job changes.
AtPhase(j, phase) == [j EXCEPT !.phase = phase]

\* A change of phase changes nothing else of the job.
LEMMA PhaseShape ==
    ASSUME ShapeJob(job), NEW phase \in Early \cup {"loop", "failed"} \cup Late,
           job' = AtPhase(job, phase)
    PROVE  ShapeJob(job)' /\ job'.phase = phase /\ JobSame
<1>1. ShapeJob(job')
  BY Zenon DEF AtPhase, ShapeJob
<1>2. job'.phase = phase /\ JobSame
  BY Zenon DEF AtPhase, ShapeJob, JobSame
<1> QED
  BY <1>1, <1>2, Zenon DEF ShapeJob

\* Before the loop, going on to the next phase keeps the stage right.
LEMMA EarlyStage ==
    ASSUME Stage, job.phase \in Early \ {"validate"}, files' = files, JobSame,
           job'.phase \in (Early \ {"validate"}) \cup {"loop", "failed"},
           out'.hashed = out.hashed, LeaderSame, tty'.input = tty.input
    PROVE  Stage'
  BY DEF Stage, JobSame, LeaderSame, Streaming, Early

\* Validating the job keeps the invariant.
LEMMA JobSpawnKept == Whole /\ JobSpawn => Whole'
<1> SUFFICES ASSUME Whole, JobSpawn PROVE Whole'
  OBVIOUS
<1> USE DEF Whole
<1>1. ASSUME Fails, (upsets.failed \in BOOLEAN)', upsets.failed => upsets'.failed
      PROVE  Whole'
  <2>1. job' = AtPhase(job, "failed")
    BY <1>1 DEF Fails, AtPhase
  <2>2. ShapeJob(job)' /\ job'.phase = "failed" /\ JobSame
    BY <2>1, PhaseShape DEF Shape
  <2>3. Shape'
    BY <1>1, <2>2 DEF Shape, JobSpawn, placeVars
  <2>4. Stage'
    BY <2>2 DEF Stage, JobSame, JobSpawn, placeVars, Streaming, Early
  <2>5. Record'
    BY <1>1, <2>2, RecordFrame DEF JobSpawn, placeVars, JobSame, ProcSame
  <2>6. Fed'
    BY <2>2, FedFrame DEF JobSpawn, placeVars, FeedSame, Late
  <2>7. Attended'
    BY <2>2, AttendedFrame DEF JobSpawn, JobSame
  <2> QED
    BY <2>3, <2>4, <2>5, <2>6, <2>7
<1>2. CASE /\ job' = [job EXCEPT !.phase = "stdout", !.base = dirs.current,
                                 !.limit = FsizeOf[dirs.current]]
           /\ UNCHANGED upsets
  <2> DEFINE b == dirs.current
  <2> DEFINE l == FsizeOf[dirs.current]
  <2>1. b \in Bases /\ l \in Nat /\ l = FsizeOf[b]
    BY JobRunnerAssumption DEF Shape
  <2>2. job' = [job EXCEPT !.phase = "stdout", !.base = b, !.limit = l]
    BY <1>2, Zenon
  <2> HIDE DEF b, l
  <2>3. "stdout" \in Early
    BY DEF Early
  <2>4. ShapeJob(job)'
    BY <2>1, <2>2, <2>3, Zenon DEF Shape, ShapeJob
  <2>5. /\ job'.phase = "stdout" /\ job'.base = b /\ job'.limit = l
        /\ job'.mode = job.mode /\ job'.eof = job.eof /\ job'.pending = job.pending
        /\ job'.attached = job.attached /\ job'.fatal = job.fatal
        /\ job'.result = job.result
    BY <2>2, Zenon DEF Shape, ShapeJob
  <2>6. Shape'
    BY <1>2, <2>4 DEF Shape, JobSpawn, placeVars
  <2>7. job.phase = "validate" /\ job.phase \in Early /\ Streaming' = Streaming
    BY <2>5 DEF JobSpawn, Early, Streaming
  <2>8. Stage'
    BY <2>1, <2>3, <2>5, <2>7 DEF Stage, JobSpawn, placeVars
  <2>9. \A s \in Streams : out.hashed[s] = 0
    BY <2>7 DEF Stage
  <2>10. RecordedStreams' = RecordedStreams /\ Alive' = Alive
    BY <2>7 DEF RecordedStreams, JobSpawn, Alive
  <2>11. Record'
    BY <1>2, <2>1, <2>5, <2>7, <2>9, <2>10 DEF Record, JobSpawn
  <2>12. Sent' = Sent
    BY DEF Sent, JobSpawn
  <2>13. Fed'
    BY <2>5, <2>7, <2>12 DEF Fed, JobSpawn, Late
  <2>14. Attended'
    BY <2>5, AttendedFrame DEF JobSpawn
  <2> QED
    BY <2>6, <2>8, <2>11, <2>13, <2>14
<1>3. CASE Fault("setup") /\ Fails
  <2>1. upsets'.failed = TRUE
    BY <1>3, Faulty, Zenon DEF Shape
  <2> QED
    BY <1>1, <1>3, <2>1, Zenon
<1>4. CASE Fails /\ UNCHANGED upsets
  BY <1>1, <1>4, Zenon DEF Shape
<1> QED
  BY <1>2, <1>3, <1>4, Zenon DEF JobSpawn

\* Opening the job's streams keeps the invariant.
LEMMA OpenIoKept == Whole /\ OpenIo => Whole'
<1> SUFFICES ASSUME Whole, OpenIo PROVE Whole'
  OBVIOUS
<1> USE DEF Whole
<1>1. job.phase \in Early \ {"validate"}
  BY DEF OpenIo, Early
<1>2. ASSUME NEW phase \in {"opened", "failed"}, job' = AtPhase(job, phase),
             ShapeProc(proc)', proc'.state = proc.state, proc'.wrote = proc.wrote,
             proc'.exit = proc.exit, (upsets.failed \in BOOLEAN)',
             upsets.failed => upsets'.failed
      PROVE  Whole'
  <2>1. phase \in (Early \ {"validate"}) \cup {"failed"}
    BY DEF Early
  <2>2. ShapeJob(job)' /\ job'.phase = phase /\ JobSame
    BY <1>2, <2>1, PhaseShape DEF Shape
  <2>3. Shape'
    BY <1>2, <2>2 DEF Shape, OpenIo, placeVars
  <2>4. Stage'
    BY <1>1, <1>2, <2>1, <2>2, EarlyStage DEF OpenIo, placeVars, Stage, LeaderSame
  <2>5. Record'
    BY <1>2, <2>2, RecordFrame DEF OpenIo, JobSame, ProcSame
  <2>6. Fed'
    BY <1>1, <2>1, <2>2, FedFrame DEF OpenIo, FeedSame, Early, Late
  <2>7. Attended'
    BY <2>2, AttendedFrame DEF OpenIo, JobSame
  <2> QED
    BY <2>3, <2>4, <2>5, <2>6, <2>7
<1>3. CASE /\ job' = [job EXCEPT !.phase = "opened"] /\ UNCHANGED upsets
           /\ proc' = [proc EXCEPT !.held = TRUE]
  <2>1. /\ ShapeProc(proc)' /\ proc'.state = proc.state /\ proc'.wrote = proc.wrote
        /\ proc'.exit = proc.exit
    BY <1>3, Zenon DEF Shape, ShapeProc
  <2> QED
    BY <1>2, <1>3, <2>1, Zenon DEF AtPhase, Shape
<1>4. CASE Fault("setup") /\ Fails /\ UNCHANGED proc
  <2>1. upsets'.failed = TRUE
    BY <1>4, Faulty, Zenon DEF Shape
  <2>2. ShapeProc(proc)'
    BY <1>4, Zenon DEF Shape
  <2> QED
    BY <1>2, <1>4, <2>1, <2>2, Zenon DEF AtPhase, Fails
<1> QED
  BY <1>3, <1>4, Zenon DEF OpenIo

\* Spawning the leader keeps the invariant.
LEMMA SpawnJobKept == Whole /\ SpawnJob => Whole'
<1> SUFFICES ASSUME Whole, SpawnJob PROVE Whole'
  OBVIOUS
<1> USE DEF Whole
<1>1. job.phase = "opened" /\ job.phase \in Early \ {"validate"}
  BY DEF SpawnJob, Early
<1>2. ASSUME NEW phase \in {"loop", "failed"}, job' = AtPhase(job, phase), LeaderSame,
             ShapeProc(proc)', (upsets.failed \in BOOLEAN)',
             upsets.failed => upsets'.failed, proc'.wrote = proc.wrote
      PROVE  Whole'
  <2>1. ShapeJob(job)' /\ job'.phase = phase /\ JobSame
    BY <1>2, PhaseShape DEF Shape
  <2>2. Shape'
    BY <1>2, <2>1 DEF Shape, SpawnJob, placeVars
  <2>3. Stage'
    BY <1>1, <1>2, <2>1, EarlyStage DEF SpawnJob, placeVars
  <2>4. ~job.eof /\ Streaming' = Streaming /\ RecordedStreams' = RecordedStreams
    BY <1>1, <2>1 DEF Stage, Streaming, RecordedStreams, JobSame
  <2>5. Record'
    BY <1>2, <2>1, <2>4 DEF Record, SpawnJob, JobSame
  <2>6. Fed'
    BY <1>1, <1>2, <2>1, FedFrame DEF SpawnJob, FeedSame, Late
  <2>7. Attended'
    BY <2>1, AttendedFrame DEF SpawnJob, JobSame
  <2> QED
    BY <2>2, <2>3, <2>5, <2>6, <2>7
<1>3. CASE proc' = [proc EXCEPT !.state["leader"] = "alive", !.held = FALSE]
           /\ job' = [job EXCEPT !.phase = "loop"] /\ UNCHANGED upsets
  <2> DEFINE st == [proc.state EXCEPT !["leader"] = "alive"]
  <2>1. /\ proc.state \in [People -> {"none", "alive", "zombie", "reaped", "dead"}]
        /\ "leader" \in People
    BY Zenon DEF Shape, ShapeProc, People
  <2>2. /\ st \in [People -> {"none", "alive", "zombie", "reaped", "dead"}]
        /\ st["leader"] = "alive"
    BY <2>1, Zenon
  <2>3. proc' = [proc EXCEPT !.state = st, !.held = FALSE]
    BY <1>3, Zenon
  <2> HIDE DEF st
  <2>4. ShapeProc(proc)' /\ proc'.wrote = proc.wrote /\ proc'.state = st
    BY <2>2, <2>3, Zenon DEF Shape, ShapeProc
  <2>5. LeaderSame
    BY <2>2, <2>4 DEF LeaderSame
  <2> QED
    BY <1>2, <1>3, <2>4, <2>5 DEF AtPhase, Shape
<1>4. CASE Fault("spawn") /\ Fails /\ UNCHANGED proc
  <2>1. upsets'.failed = TRUE
    BY <1>4, Faulty, Zenon DEF Shape
  <2>2. job' = AtPhase(job, "failed")
    BY <1>4 DEF Fails, AtPhase
  <2>3. ShapeProc(proc)' /\ LeaderSame
    BY <1>4 DEF Shape, Stage, LeaderSame
  <2> QED
    BY <1>2, <1>4, <2>1, <2>2, <2>3, Zenon
<1> QED
  BY <1>3, <1>4 DEF SpawnJob

\* Creating an output file keeps the invariant.
LEMMA CreateFileKept == ASSUME Whole, NEW f \in Files, CreateFile(f) PROVE Whole'
<1> USE DEF Whole
<1>1. job.phase = f /\ job.phase \in Early \ {"validate"}
  BY DEF CreateFile, Early, Files
<1>2. ASSUME NEW phase \in (Early \ {"validate"}) \cup {"failed"},
             job' = AtPhase(job, phase), (upsets.failed \in BOOLEAN)',
             upsets.failed => upsets'.failed,
             \/ files' = files
             \/ files' = [files EXCEPT ![f] = PlaceOf(f)]
      PROVE  Whole'
  <2>1. ShapeJob(job)' /\ job'.phase = phase /\ JobSame
    BY <1>2, PhaseShape DEF Shape
  <2>2. files \in [Files -> Bases \cup {NoBase}]
    BY DEF Shape
  <2>3. job.base \in Bases /\ job.limit = FsizeOf[job.base]
    BY <1>1 DEF Stage, Early
  <2>4. PlaceOf(f) \in {NoBase, job.base} /\ (f = "stdout" /\ Streaming => PlaceOf(f) = NoBase)
    BY DEF PlaceOf
  <2>5. /\ files' \in [Files -> Bases \cup {NoBase}]
        /\ \A g \in Files : files'[g] = files[g] \/ (g = f /\ files'[g] = PlaceOf(f))
    BY <1>2, <2>2, <2>3, <2>4
  <2>6. Shape'
    BY <1>2, <2>1, <2>5 DEF Shape, CreateFile
  <2>7. /\ Streaming' = Streaming /\ job'.phase # "validate" /\ job'.phase # "ended"
        /\ job.phase # "ended"
    BY <1>1, <1>2, <2>1 DEF Streaming, JobSame, Early
  <2>8. \A g \in Files : files'[g] # NoBase => files'[g] = job.base
    BY <2>4, <2>5 DEF Stage
  <2>9. Streaming => files'["stdout"] = NoBase
    BY <2>4, <2>5 DEF Stage, Files
  <2>10. LeaderSame
    BY DEF Stage, CreateFile, LeaderSame
  <2>11. Stage'
    BY <1>1, <2>1, <2>3, <2>7, <2>8, <2>9, <2>10
       DEF Stage, CreateFile, JobSame, LeaderSame
  <2>12. Record'
    BY <1>2, <2>1, RecordFrame DEF CreateFile, JobSame, ProcSame
  <2>13. Fed'
    BY <1>1, <1>2, <2>1, FedFrame DEF CreateFile, FeedSame, Early, Late
  <2>14. Attended'
    BY <2>1, AttendedFrame DEF CreateFile, JobSame
  <2> QED
    BY <2>6, <2>11, <2>12, <2>13, <2>14
<1>3. CASE /\ files' = [files EXCEPT ![f] = PlaceOf(f)]
           /\ job' = [job EXCEPT !.phase = After(f)] /\ UNCHANGED upsets
  <2>1. After(f) \in Early \ {"validate"}
    BY DEF After, Files, Early
  <2> QED
    BY <1>2, <1>3, <2>1 DEF AtPhase, Shape
<1>4. CASE Fault("create") /\ Fails /\ UNCHANGED files
  <2>1. upsets'.failed = TRUE
    BY <1>4, Faulty, Zenon DEF Shape
  <2> QED
    BY <1>2, <1>4, <2>1, Zenon DEF AtPhase, Fails
<1> QED
  BY <1>3, <1>4 DEF CreateFile

\* Moving the output directories keeps the invariant.
LEMMA MoveDirsKept == Whole /\ MoveDirs => Whole'
<1> SUFFICES ASSUME Whole, MoveDirs PROVE Whole'
  OBVIOUS
<1> USE DEF Whole
<1>1. dirs'.current = Later /\ Later \in Bases
  BY JobRunnerAssumption DEF MoveDirs, MovedTo
<1>2. upsets'.failed = upsets.failed
  BY Upsets, Zenon DEF MoveDirs, Shape
<1>3. Shape'
  BY <1>1, <1>2 DEF Shape, MoveDirs
<1>4. Stage'
  BY StageFrame DEF MoveDirs, JobSame, LeaderSame, Stage
<1>5. Record'
  BY <1>2, RecordFrame DEF MoveDirs, ProcSame
<1>6. Fed'
  BY FedFrame DEF MoveDirs, FeedSame, JobSame
<1>7. Attended'
  BY AttendedFrame DEF MoveDirs
<1> QED
  BY <1>3, <1>4, <1>5, <1>6, <1>7

\* A cancellation keeps the invariant.
LEMMA CancelKept == Whole /\ Cancel => Whole'
<1> SUFFICES ASSUME Whole, Cancel PROVE Whole'
  OBVIOUS
<1> USE DEF Whole
<1>1. upsets'.failed = upsets.failed
  BY Upsets, Zenon DEF Cancel, Shape
<1>2. Shape'
  BY <1>1 DEF Shape, Cancel, placeVars
<1>3. Stage'
  BY StageFrame DEF Cancel, placeVars, JobSame, LeaderSame, Stage
<1>4. Record'
  BY <1>1, RecordFrame DEF Cancel, ProcSame
<1>5. Fed'
  BY FedFrame DEF Cancel, FeedSame, JobSame
<1>6. Attended'
  BY AttendedFrame DEF Cancel
<1> QED
  BY <1>2, <1>3, <1>4, <1>5, <1>6

(***************************************************************************)
(* The processes, and the signals that end them.                           *)
(***************************************************************************)

\* A step of the processes alone: after the end of output there are none.
LEMMA ProcKept ==
    ASSUME Whole, ShapeProc(proc)', (upsets.failed \in BOOLEAN)',
           upsets'.failed = upsets.failed, LeaderSame, job.eof => ProcSame \/ Alive # {},
           \A s \in Streams : proc.wrote[s] <= proc'.wrote[s],
           UNCHANGED <<placeVars, out, job, stop, feed, mux, tty>>
    PROVE  Whole'
<1> USE DEF Whole
<1>1. Shape'
  BY DEF Shape, placeVars
<1>2. Stage'
  BY StageFrame DEF placeVars, JobSame
<1>3. ASSUME ProcSame PROVE Record'
  BY <1>3, RecordFrame
<1>4. ASSUME ~ProcSame PROVE Record'
  <2>1. ~job.eof \/ upsets.failed
    BY <1>4 DEF Record
  <2>2. RecordedStreams' = RecordedStreams /\ Streaming' = Streaming
    BY DEF RecordedStreams, Streaming
  <2>3. \A s \in Streams : out.taken[s] <= proc'.wrote[s]
    BY DEF Record, Shape, ShapeOut, ShapeProc
  <2> QED
    BY <2>1, <2>2, <2>3 DEF Record
<1>5. Fed'
  BY FedFrame DEF FeedSame, JobSame
<1>6. Attended'
  BY AttendedFrame
<1> QED
  BY <1>1, <1>2, <1>3, <1>4, <1>5, <1>6

\* A write of the job keeps the invariant.
LEMMA WriteKept == ASSUME Whole, NEW s \in Streams, Write(s) PROVE Whole'
<1>1. ShapeProc(proc) /\ upsets.failed \in BOOLEAN
  BY DEF Whole, Shape
<1>2. ShapeProc(proc)' /\ proc'.state = proc.state /\ proc'.exit = proc.exit
  BY <1>1 DEF ShapeProc, Write, Streams
<1>3. \A r \in Streams : proc.wrote[r] <= proc'.wrote[r]
  BY <1>1 DEF ShapeProc, Write, Streams
<1>4. LeaderSame
  BY <1>2 DEF LeaderSame, Whole, Stage
<1> QED
  BY <1>1, <1>2, <1>3, <1>4, ProcKept DEF Write

\* A fork of the job keeps the invariant.
LEMMA ForkKept == ASSUME Whole, NEW p \in People, Fork(p) PROVE Whole'
<1>1. ShapeProc(proc) /\ upsets.failed \in BOOLEAN
  BY DEF Whole, Shape
<1>2. upsets'.failed = upsets.failed
  BY <1>1, Upsets, Zenon DEF Fork
<1> DEFINE st == [proc.state EXCEPT ![p] = "alive"]
<1>3. /\ proc.state \in [People -> {"none", "alive", "zombie", "reaped", "dead"}]
      /\ proc.state["leader"] = "alive"
  BY <1>1, Zenon DEF ShapeProc, Fork
<1>4. /\ st \in [People -> {"none", "alive", "zombie", "reaped", "dead"}]
      /\ st["leader"] = "alive"
  BY <1>3 DEF People
<1>5. proc' = [proc EXCEPT !.state = st]
  BY Zenon DEF Fork
<1> HIDE DEF st
<1>6. ShapeProc(proc)' /\ proc'.state = st /\ proc'.wrote = proc.wrote
  BY <1>1, <1>4, <1>5, Zenon DEF ShapeProc
<1>7. \A s \in Streams : proc.wrote[s] <= proc'.wrote[s]
  BY <1>1, <1>6 DEF ShapeProc
<1>8. LeaderSame /\ Alive # {}
  BY <1>3, <1>4, <1>6 DEF LeaderSame, Alive
<1> QED
  BY <1>1, <1>2, <1>6, <1>7, <1>8, ProcKept DEF Fork

\* The exit of a process of the job keeps the invariant.
LEMMA ExitKept == ASSUME Whole, NEW p \in People, Exit(p) PROVE Whole'
<1>1. ShapeProc(proc) /\ upsets.failed \in BOOLEAN
  BY DEF Whole, Shape
<1> DEFINE st == Died(proc.state, {p})
<1> DEFINE e == IF p = "leader" THEN "code" ELSE proc.exit
<1>2. /\ st \in [People -> {"none", "alive", "zombie", "reaped", "dead"}]
      /\ \A q \in People \ {p} : st[q] = proc.state[q]
  BY <1>1, DiedShape DEF Exit
<1>3. e \in {"none", "code", "signal"}
  BY <1>1, Zenon DEF ShapeProc
<1>4. proc' = [proc EXCEPT !.state = st, !.exit = e]
  BY Zenon DEF Exit
<1>5. p = "leader" => e = "code"
  BY Zenon
<1>6. p # "leader" => e = proc.exit
  BY Zenon
<1> HIDE DEF st, e
<1>7. /\ ShapeProc(proc)' /\ proc'.state = st /\ proc'.exit = e
      /\ proc'.wrote = proc.wrote
  BY <1>1, <1>2, <1>3, <1>4, Zenon DEF ShapeProc
<1>8. LeaderSame
  BY <1>2, <1>5, <1>6, <1>7 DEF LeaderSame, Whole, Stage, People
<1>9. Alive # {}
  BY DEF Exit
<1>10. \A s \in Streams : proc.wrote[s] <= proc'.wrote[s]
  BY <1>1, <1>7 DEF ShapeProc
<1> QED
  BY <1>1, <1>7, <1>8, <1>9, <1>10, ProcKept DEF Exit

\* A step that signals or reaps processes and counts it: job() stays in its phase,
\* or gives the leader its last signal.
LEMMA SignalKept ==
    ASSUME Whole, ShapeProc(proc)', (upsets.failed \in BOOLEAN)',
           upsets.failed => upsets'.failed, LeaderSame, ProcSame,
           ShapeJob(job)', JobSame,
           \/ job'.phase = job.phase
           \/ job.phase = "reap" /\ job'.phase = "wait"
           \/ job.phase = "flush" /\ job'.phase = "reap",
           UNCHANGED <<placeVars, out, stop, feed, mux, tty>>
    PROVE  Whole'
<1> USE DEF Whole
<1>1. Shape'
  BY DEF Shape, placeVars
<1>2. Streaming' = Streaming /\ (job'.phase \in Early => job.phase \in Early)
  BY DEF Streaming, JobSame, Early
<1>3. Stage'
  BY <1>2 DEF Stage, JobSame, LeaderSame, placeVars
<1>4. Record'
  BY RecordFrame DEF JobSame
<1>5. Sent' = Sent
  BY DEF Sent
<1>6. Fed'
  BY <1>2, <1>5 DEF Fed, JobSame, Late
<1>7. Attended'
  BY AttendedFrame DEF JobSame
<1> QED
  BY <1>1, <1>3, <1>4, <1>6, <1>7

\* Asking the job to terminate keeps the invariant.
LEMMA TerminateKept == Whole /\ Terminate => Whole'
<1> SUFFICES ASSUME Whole, Terminate PROVE Whole'
  OBVIOUS
<1>1. ShapeJob(job)' /\ job'.phase = job.phase /\ JobSame
  BY Zenon DEF Terminate, Whole, Shape, ShapeJob, JobSame
<1>2. /\ ShapeProc(proc)' /\ LeaderSame /\ ProcSame
      /\ (upsets.failed \in BOOLEAN)' /\ (upsets.failed => upsets'.failed)
  BY Killed DEF Terminate, Whole, Shape, Stage, LeaderSame, ProcSame
<1> QED
  BY <1>1, <1>2, SignalKept DEF Terminate

\* Killing the job after the grace period keeps the invariant.
LEMMA KillTimeoutKept == Whole /\ KillTimeout => Whole'
<1> SUFFICES ASSUME Whole, KillTimeout PROVE Whole'
  OBVIOUS
<1>1. job.kills + 1 \in 0 .. KillAttempts
  BY JobRunnerAssumption DEF KillTimeout, Whole, Shape, ShapeJob
<1> DEFINE k == job.kills + 1
<1>2. k \in 0 .. KillAttempts /\ job' = [job EXCEPT !.kills = k]
  BY <1>1, Zenon DEF KillTimeout
<1> HIDE DEF k
<1>3. ShapeJob(job)' /\ job'.phase = job.phase /\ JobSame
  BY <1>2, Zenon DEF Whole, Shape, ShapeJob, JobSame
<1>4. /\ ShapeProc(proc)' /\ LeaderSame /\ ProcSame
      /\ (upsets.failed \in BOOLEAN)' /\ (upsets.failed => upsets'.failed)
  BY Killed DEF KillTimeout, Whole, Shape, Stage, LeaderSame, ProcSame
<1> QED
  BY <1>3, <1>4, SignalKept DEF KillTimeout

\* Killing what the leader left keeps the invariant.
LEMMA ReapKillKept == Whole /\ ReapKill => Whole'
<1> SUFFICES ASSUME Whole, ReapKill PROVE Whole'
  OBVIOUS
<1>1. "wait" \in Late /\ job' = AtPhase(job, "wait")
  BY DEF Late, ReapKill, AtPhase
<1>2. ShapeJob(job)' /\ job'.phase = "wait" /\ JobSame
  BY <1>1, PhaseShape DEF Whole, Shape
<1>3. /\ ShapeProc(proc)' /\ LeaderSame /\ ProcSame
      /\ (upsets.failed \in BOOLEAN)' /\ (upsets.failed => upsets'.failed)
  BY Killed DEF ReapKill, Whole, Shape, Stage, LeaderSame, ProcSame
<1> QED
  BY <1>2, <1>3, SignalKept DEF ReapKill

\* Flushing the files keeps the invariant.
LEMMA FlushKept == Whole /\ Flush => Whole'
<1> SUFFICES ASSUME Whole, Flush PROVE Whole'
  OBVIOUS
<1>1. /\ ShapeJob(job) /\ ShapeProc(proc) /\ upsets.failed \in BOOLEAN
      /\ "reap" \in Late /\ job.phase = "flush"
  BY DEF Whole, Shape, Flush, Late
<1>2. \/ job' = [job EXCEPT !.phase = "reap"]
      \/ \E lost \in SUBSET Streams : job' = [job EXCEPT !.phase = "reap", !.lost = lost]
  <2>1. RecordedStreams \subseteq Streams
    BY DEF RecordedStreams, Streams
  <2> QED
    BY <2>1 DEF Flush
<1>3. ShapeJob(job)' /\ job'.phase = "reap" /\ JobSame
  BY <1>1, <1>2, Zenon DEF ShapeJob, JobSame
<1>4. (upsets.failed \in BOOLEAN)' /\ (upsets.failed => upsets'.failed)
  BY <1>1, Faulty, Zenon DEF Flush
<1>5. UNCHANGED <<placeVars, proc, out, stop, feed, mux, tty>>
  BY Zenon DEF Flush
<1>6. ShapeProc(proc)' /\ LeaderSame /\ ProcSame
  BY <1>1, <1>5 DEF LeaderSame, ProcSame, Whole, Stage
<1> QED
  BY <1>1, <1>3, <1>4, <1>5, <1>6, SignalKept

\* The leader is reaped.
LEMMA ReapedShape ==
    ASSUME ShapeProc(proc), proc.state["leader"] \in {"zombie", "reaped"},
           proc' = [proc EXCEPT !.state["leader"] = "reaped"]
    PROVE  ShapeProc(proc)' /\ ProcSame /\ proc'.exit = proc.exit
<1> DEFINE st == [proc.state EXCEPT !["leader"] = "reaped"]
<1>1. proc.state \in [People -> {"none", "alive", "zombie", "reaped", "dead"}]
  BY Zenon DEF ShapeProc
<1>2. /\ st \in [People -> {"none", "alive", "zombie", "reaped", "dead"}]
      /\ \A p \in People : st[p] = "alive" => proc.state[p] = "alive"
  BY <1>1 DEF People
<1>3. proc' = [proc EXCEPT !.state = st]
  BY Zenon
<1> HIDE DEF st
<1>4. ShapeProc(proc)' /\ proc'.state = st /\ proc'.wrote = proc.wrote
      /\ proc'.exit = proc.exit
  BY <1>2, <1>3, Zenon DEF ShapeProc
<1> QED
  BY <1>2, <1>4 DEF ProcSame

\* Waiting for the leader keeps the invariant.
LEMMA WaitKept == Whole /\ Wait => Whole'
<1> SUFFICES ASSUME Whole, Wait PROVE Whole'
  OBVIOUS
<1>1. ShapeJob(job)' /\ job'.phase = job.phase /\ JobSame
  BY Zenon DEF Wait, Whole, Shape, ShapeJob, JobSame
<1>2. ShapeProc(proc)' /\ ProcSame /\ proc'.exit = proc.exit
  BY ReapedShape DEF Wait, Whole, Shape
<1>3. LeaderSame
  BY <1>2 DEF LeaderSame, Wait, Whole, Stage
<1> QED
  BY <1>1, <1>2, <1>3, SignalKept DEF Wait, Whole, Shape

(***************************************************************************)
(* What is on its way to a client.                                         *)
(***************************************************************************)

\* A queue that continues the output still does when the next chunk, or a
\* message of another kind, is appended.
LEMMA FollowsAppend ==
    ASSUME NEW q \in Seq(Message), NEW a \in Nat, NEW b \in Nat, NEW m \in Message,
           NEW d \in Nat, Follows(q, a, b),
           IF m.kind = "stdout" THEN m.val = b + 1 /\ d = b + 1 ELSE d = b
    PROVE  Follows(Append(q, m), a, d)
<1> DEFINE r == Append(q, m)
<1>1. /\ Len(q) \in Nat /\ Len(r) = Len(q) + 1 /\ r[Len(q) + 1] = m
      /\ \A i \in 1 .. Len(q) : r[i] = q[i]
  OBVIOUS
<1>2. PICK f \in [0 .. Len(q) -> 0 .. b] :
        /\ f[0] = a /\ f[Len(q)] = b
        /\ \A i \in 1 .. Len(q) :
             f[i] = IF q[i].kind = "stdout" THEN q[i].val ELSE f[i - 1]
        /\ \A i \in 1 .. Len(q) : q[i].kind = "stdout" => q[i].val = f[i - 1] + 1
  BY DEF Follows
<1> HIDE DEF r
<1> DEFINE g == [i \in 0 .. Len(r) |-> IF i = Len(r) THEN d ELSE f[i]]
<1>3. g \in [0 .. Len(r) -> 0 .. d]
  BY <1>1, <1>2
<1>4. g[0] = a /\ g[Len(r)] = d
  BY <1>1, <1>2
<1>5. ASSUME NEW i \in 1 .. Len(r)
      PROVE  /\ g[i] = IF r[i].kind = "stdout" THEN r[i].val ELSE g[i - 1]
             /\ r[i].kind = "stdout" => r[i].val = g[i - 1] + 1
  <2>1. CASE i = Len(r)
    <3>1. r[i] = m /\ g[i] = d /\ g[i - 1] = b
      BY <1>1, <1>2, <2>1
    <3> QED
      BY <3>1
  <2>2. CASE i # Len(r)
    <3>1. i \in 1 .. Len(q) /\ r[i] = q[i] /\ g[i] = f[i] /\ g[i - 1] = f[i - 1]
      BY <1>1, <2>2
    <3> QED
      BY <1>2, <3>1
  <2> QED
    BY <2>1, <2>2
<1> HIDE DEF g
<1>6. Follows(r, a, d)
  BY <1>3, <1>4, <1>5 DEF Follows
<1> QED
  BY <1>6 DEF r

\* A queue that continues the output still does without its head.
LEMMA FollowsTail ==
    ASSUME NEW q \in Seq(Message), NEW a \in Nat, NEW b \in Nat, Follows(q, a, b),
           q # <<>>
    PROVE  IF Head(q).kind = "stdout"
           THEN Head(q).val = a + 1 /\ Follows(Tail(q), Head(q).val, b)
           ELSE Follows(Tail(q), a, b)
<1> DEFINE r == Tail(q)
<1>1. /\ Len(r) \in Nat /\ Len(q) = Len(r) + 1 /\ Head(q) = q[1]
      /\ \A i \in 1 .. Len(r) : r[i] = q[i + 1]
  OBVIOUS
<1>2. PICK f \in [0 .. Len(q) -> 0 .. b] :
        /\ f[0] = a /\ f[Len(q)] = b
        /\ \A i \in 1 .. Len(q) :
             f[i] = IF q[i].kind = "stdout" THEN q[i].val ELSE f[i - 1]
        /\ \A i \in 1 .. Len(q) : q[i].kind = "stdout" => q[i].val = f[i - 1] + 1
  BY DEF Follows
<1> HIDE DEF r
<1> DEFINE g == [i \in 0 .. Len(r) |-> f[i + 1]]
<1>3. g \in [0 .. Len(r) -> 0 .. b]
  BY <1>1, <1>2
<1>4. g[0] = f[1] /\ g[Len(r)] = b
  BY <1>1, <1>2
<1>5. ASSUME NEW i \in 1 .. Len(r)
      PROVE  /\ g[i] = IF r[i].kind = "stdout" THEN r[i].val ELSE g[i - 1]
             /\ r[i].kind = "stdout" => r[i].val = g[i - 1] + 1
  <2>1. i + 1 \in 1 .. Len(q) /\ r[i] = q[i + 1] /\ g[i] = f[i + 1] /\ g[i - 1] = f[i]
        /\ (i + 1) - 1 = i
    BY <1>1
  <2> QED
    BY <1>2, <2>1
<1> HIDE DEF g
<1>6. Follows(r, f[1], b)
  BY <1>3, <1>4, <1>5, Zenon DEF Follows
<1>7. /\ f[1] = IF q[1].kind = "stdout" THEN q[1].val ELSE f[0]
      /\ q[1].kind = "stdout" => q[1].val = f[0] + 1
  <2>1. 1 \in 1 .. Len(q) /\ 1 - 1 = 0
    BY <1>1
  <2> QED
    BY <1>2, <2>1
<1>8. Head(q) = q[1] /\ f[0] = a
  BY <1>1, <1>2
<1> HIDE <1>1, <1>2
<1> QED
  BY <1>6, <1>7, <1>8 DEF r

\* The last size in a queue, when a message is appended.
LEMMA SizeAppend ==
    ASSUME NEW q \in Seq(Message), NEW v, NEW size, NEW m \in Message, NEW next,
           IF m.kind = "size" THEN m.val = next ELSE LastSize(v, q, size) /\ next = size
    PROVE  LastSize(v, Append(q, m), next)
<1> DEFINE r == Append(q, m)
<1>1. /\ Len(q) \in Nat /\ Len(r) = Len(q) + 1 /\ r[Len(r)] = m
      /\ DOMAIN q = 1 .. Len(q) /\ DOMAIN r = 1 .. Len(r)
      /\ \A i \in 1 .. Len(q) : r[i] = q[i]
  OBVIOUS
<1> HIDE DEF r
<1>2. CASE m.kind = "size"
  <2>1. \A i \in DOMAIN r : i # Len(r) => Len(r) \in i + 1 .. Len(r)
    BY <1>1
  <2>2. Len(r) \in DOMAIN r
    BY <1>1
  <2>3. LastSize(v, r, next)
    BY <1>1, <1>2, <2>1, <2>2 DEF LastSize
  <2> QED
    BY <2>3 DEF r
<1>3. CASE m.kind # "size"
  <2>1. (\A i \in DOMAIN r : r[i].kind # "size") => v = next
    <3>1. \A i \in DOMAIN q : i \in DOMAIN r /\ r[i] = q[i]
      BY <1>1
    <3> QED
      BY <1>3, <3>1 DEF LastSize
  <2>2. ASSUME NEW i \in DOMAIN r, r[i].kind = "size",
               \A j \in i + 1 .. Len(r) : r[j].kind # "size"
        PROVE  r[i].val = next
    <3>1. i \in DOMAIN q /\ r[i] = q[i]
      BY <1>1, <1>3, <2>2
    <3>2. \A j \in i + 1 .. Len(q) : j \in i + 1 .. Len(r) /\ r[j] = q[j]
      BY <1>1, <3>1
    <3> QED
      BY <1>3, <2>2, <3>1, <3>2 DEF LastSize
  <2>3. LastSize(v, r, next)
    BY <2>1, <2>2 DEF LastSize
  <2> QED
    BY <2>3 DEF r
<1> QED
  BY <1>2, <1>3

\* The last size in a queue, when its head is taken.
LEMMA SizeTail ==
    ASSUME NEW q \in Seq(Message), NEW v, NEW size, LastSize(v, q, size), q # <<>>
    PROVE  LastSize(IF Head(q).kind = "size" THEN Head(q).val ELSE v, Tail(q), size)
<1> DEFINE r == Tail(q)
<1> DEFINE w == IF Head(q).kind = "size" THEN Head(q).val ELSE v
<1>1. /\ Len(r) \in Nat /\ Len(q) = Len(r) + 1 /\ Head(q) = q[1]
      /\ DOMAIN q = 1 .. Len(q) /\ DOMAIN r = 1 .. Len(r)
      /\ \A i \in 1 .. Len(r) : r[i] = q[i + 1]
  OBVIOUS
<1>2. w = IF q[1].kind = "size" THEN q[1].val ELSE v
  BY <1>1
<1> HIDE DEF r, w
<1>3. ASSUME \A i \in DOMAIN r : r[i].kind # "size" PROVE w = size
  <2>1. \A i \in 2 .. Len(q) : q[i].kind # "size"
    <3> SUFFICES ASSUME NEW i \in 2 .. Len(q) PROVE q[i].kind # "size"
      OBVIOUS
    <3>1. i - 1 \in 1 .. Len(r) /\ (i - 1) + 1 = i
      BY <1>1
    <3>2. r[i - 1] = q[i]
      BY <1>1, <3>1
    <3> QED
      BY <1>1, <1>3, <3>1, <3>2
  <2>2. 1 \in DOMAIN q /\ \A i \in DOMAIN q : i = 1 \/ i \in 2 .. Len(q)
    BY <1>1
  <2>3. CASE q[1].kind = "size"
    BY <1>2, <2>1, <2>2, <2>3 DEF LastSize
  <2>4. CASE q[1].kind # "size"
    BY <1>2, <2>1, <2>2, <2>4 DEF LastSize
  <2> QED
    BY <2>3, <2>4
<1>4. ASSUME NEW i \in DOMAIN r, r[i].kind = "size",
             \A j \in i + 1 .. Len(r) : r[j].kind # "size"
      PROVE  r[i].val = size
  <2>1. i + 1 \in DOMAIN q /\ r[i] = q[i + 1]
    BY <1>1
  <2>2. \A j \in (i + 1) + 1 .. Len(q) : q[j].kind # "size"
    <3> SUFFICES ASSUME NEW j \in (i + 1) + 1 .. Len(q) PROVE q[j].kind # "size"
      OBVIOUS
    <3>1. j - 1 \in i + 1 .. Len(r) /\ j - 1 \in 1 .. Len(r) /\ (j - 1) + 1 = j
      BY <1>1
    <3>2. r[j - 1] = q[j]
      BY <1>1, <3>1
    <3> QED
      BY <1>4, <3>1, <3>2
  <2> QED
    BY <1>4, <2>1, <2>2 DEF LastSize
<1>5. LastSize(w, r, size)
  BY <1>3, <1>4 DEF LastSize
<1> QED
  BY <1>5 DEF w, r

\* Concatenation, from its two ends.
LEMMA ConcatEnds ==
    ASSUME NEW p \in Seq(Message), NEW q \in Seq(Message), NEW m \in Message
    PROVE  /\ p \o q \in Seq(Message)
           /\ p \o Append(q, m) = Append(p \o q, m)
           /\ p # <<>> => /\ p \o q # <<>> /\ Head(p \o q) = Head(p)
                          /\ Tail(p) \o q = Tail(p \o q)
           /\ p = <<>> => p \o q = q
<1>1. p \o q \in Seq(Message) /\ p \o Append(q, m) = Append(p \o q, m)
  OBVIOUS
<1>2. ASSUME p # <<>> PROVE /\ p \o q # <<>> /\ Head(p \o q) = Head(p)
                             /\ Tail(p) \o q = Tail(p \o q)
  BY <1>2
<1>3. ASSUME p = <<>> PROVE p \o q = q
  BY <1>3
<1> QED
  BY <1>1, <1>2, <1>3

(***************************************************************************)
(* The loop: its end, and what it reads.                                   *)
(***************************************************************************)

\* Leaving the loop keeps all but what depends on the stream and the clients.
LEMMA BreakKept ==
    ASSUME Whole, job.phase = "loop", job' = Break(job), stop => stop',
           (stop \in BOOLEAN)', (upsets.failed \in BOOLEAN)',
           upsets.failed => upsets'.failed, ShapeFeed(feed)', ShapeMux(mux)',
           UNCHANGED <<placeVars, proc, out, tty>>
    PROVE  Shape' /\ Stage' /\ Record'
<1> USE DEF Whole
<1>1. /\ ShapeJob(job)' /\ job'.phase = "flush" /\ job'.pending = 0
      /\ job'.mode = job.mode /\ job'.base = job.base
      /\ job'.limit = job.limit /\ job'.eof = job.eof
      /\ job'.attached = job.attached /\ job'.fatal = job.fatal
      /\ job'.result = job.result
  BY BreakShape DEF Shape
<1>2. Shape'
  BY <1>1 DEF Shape, placeVars
<1>3. Stage'
  BY <1>1 DEF Stage, Streaming, placeVars, Early
<1>4. Record'
  BY <1>1, RecordFrame DEF ProcSame
<1> QED
  BY <1>2, <1>3, <1>4

\* The end of the stream keeps the invariant.
LEMMA StreamDoneKept == Whole /\ StreamDone => Whole'
<1> SUFFICES ASSUME Whole, StreamDone PROVE Whole'
  OBVIOUS
<1> USE DEF Whole
<1>1. Shape' /\ Stage' /\ Record'
  BY BreakKept DEF StreamDone, Shape
<1>2. /\ job'.phase = "flush" /\ job'.pending = 0 /\ job'.mode = job.mode
      /\ job'.eof = job.eof /\ job'.attached = job.attached /\ job.pending = 0
  BY BreakShape, Zenon DEF Shape, StreamDone, Drained
<1>3. Sent' = Sent /\ Streaming' = Streaming
  BY <1>2 DEF Sent, Streaming, StreamDone
<1>4. Fed'
  BY <1>2, <1>3 DEF Fed, StreamDone, Late
<1>5. Attended'
  BY <1>2, AttendedFrame DEF StreamDone
<1> QED
  BY <1>1, <1>4, <1>5, SMTT(30)

\* A timer keeps the invariant.
LEMMA TimersKept == Whole /\ Timers => Whole'
<1> SUFFICES ASSUME Whole, Timers PROVE Whole'
  OBVIOUS
<1> USE DEF Whole
<1>1. PICK giving \in BOOLEAN : GiveUp(giving) /\ (job.eof => giving)
  BY Zenon DEF Timers, DrainTimeout, DrainLimit, AttachDeadline, Linger
<1>2. /\ job.phase = "loop" /\ job' = Break(job) /\ feed' = LastSend(job.pending)
      /\ stop' = (stop \/ giving) /\ UNCHANGED <<placeVars, proc, out, mux, tty, upsets>>
  BY <1>1 DEF GiveUp, InLoop
<1>3. job.pending \in Nat /\ stop' \in BOOLEAN
  BY <1>2, Zenon DEF Shape, ShapeJob
<1>4. /\ ShapeFeed(feed)'
      /\ feed'.chan = IF job.pending # 0 /\ feed.chan = <<>> /\ feed.socket # "gone"
                      THEN <<job.pending>> ELSE feed.chan
      /\ feed'.socket = feed.socket /\ feed'.sending = feed.sending
      /\ feed'.got = feed.got /\ feed'.offered = feed.offered
  BY <1>2, <1>3, LastSendShape DEF Shape
<1>5. Shape' /\ Stage' /\ Record'
  BY <1>2, <1>3, <1>4, BreakKept DEF Shape
<1>6. /\ job'.phase = "flush" /\ job'.pending = 0 /\ job'.mode = job.mode
      /\ job'.eof = job.eof /\ job'.attached = job.attached
  BY <1>2, BreakShape DEF Shape
<1>7. Sent' = Sent /\ Streaming' = Streaming
  BY <1>4, <1>6 DEF Sent, Streaming
<1>8. Sent \in Nat /\ out.hashed["stdout"] \in Nat
  BY DEF Sent, Shape, ShapeFeed, ShapeOut, Streams
<1>9. job.pending # 0 /\ feed.chan = <<>> /\ feed.socket # "gone"
        => job.pending = Sent + 1
  BY <1>2, <1>3, <1>8 DEF Fed, Late
<1>10. feed'.chan \in {<<>>, <<Sent + 1>>}
  BY <1>4, <1>9 DEF Fed
<1>11. ~(job'.eof /\ ~stop') /\ job'.phase \in Late
  BY <1>1, <1>2, <1>6 DEF Late
<1>12. feed.socket # "closed"
  BY <1>2 DEF Fed
<1>13. ~Streaming => feed'.chan = <<>>
  BY <1>4 DEF Fed
<1>14. feed.socket = "gone" => feed'.chan = <<>>
  BY <1>4 DEF Fed
<1>15. Fed'
  BY <1>2, <1>4, <1>6, <1>7, <1>10, <1>11, <1>12, <1>13, <1>14 DEF Fed
<1>16. Attended'
  BY <1>2, <1>4, <1>6, AttendedFrame, Zenon
<1> QED
  BY <1>5, <1>15, <1>16

\* The loop passes the chunk in hand on.
LEMMA SendPendingKept == Whole /\ SendPending => Whole'
<1> SUFFICES ASSUME Whole, SendPending PROVE Whole'
  OBVIOUS
<1> USE DEF Whole
<1>1. job.pending \in Nat /\ job.pending # 0 /\ job.phase = "loop"
  BY DEF SendPending, InLoop, Shape, ShapeJob
<1>2. /\ ShapeFeed(feed)'
      /\ feed'.chan = IF job.pending # 0 /\ feed.chan = <<>> /\ feed.socket # "gone"
                      THEN <<job.pending>> ELSE feed.chan
      /\ feed'.socket = feed.socket /\ feed'.sending = feed.sending
      /\ feed'.got = feed.got /\ feed'.offered = feed.offered
  BY <1>1, LastSendShape DEF SendPending, Shape
<1>3. 0 \in Nat /\ job' = [job EXCEPT !.pending = 0]
  BY DEF SendPending
<1>4. ShapeJob(job)'
  BY <1>3, Zenon DEF Shape, ShapeJob
<1>5. /\ job'.phase = job.phase /\ job'.pending = 0 /\ job'.mode = job.mode
      /\ job'.base = job.base /\ job'.limit = job.limit /\ job'.eof = job.eof
      /\ job'.attached = job.attached /\ job'.fatal = job.fatal
      /\ job'.result = job.result
  BY <1>3, Zenon DEF Shape, ShapeJob
<1>6. Shape'
  BY <1>2, <1>4 DEF Shape, SendPending, placeVars
<1>7. Sent' = Sent /\ Streaming' = Streaming
  BY <1>2, <1>5 DEF Sent, Streaming
<1>8. Stage'
  BY <1>5, <1>7 DEF Stage, SendPending, placeVars
<1>9. Record'
  BY <1>5, RecordFrame DEF SendPending, ProcSame
<1>10. Sent \in Nat /\ out.hashed["stdout"] \in Nat /\ Streaming
  BY <1>1 DEF Sent, Shape, ShapeFeed, ShapeOut, Streams, Fed
<1>11. CASE feed.socket = "gone"
  <2>1. feed'.chan = feed.chan
    BY <1>2, <1>11
  <2> QED
    BY <1>2, <1>5, <1>6, <1>7, <1>8, <1>9, <1>10, <1>11, <2>1, AttendedFrame
       DEF Fed, SendPending
<1>12. CASE feed.socket # "gone"
  <2>1. feed.chan = <<>> /\ job.pending = Sent + 1 /\ out.hashed["stdout"] = Sent + 1
    BY <1>1, <1>10, <1>12 DEF SendPending, Fed, Late
  <2>2. feed'.chan = <<Sent + 1>> /\ Len(feed'.chan) = 1
    BY <1>1, <1>2, <1>12, <2>1
  <2>3. Fed'
    BY <1>1, <1>2, <1>5, <1>7, <1>10, <1>12, <2>1, <2>2 DEF Fed, SendPending
  <2>4. Attended'
    BY <1>2, <1>5, AttendedFrame DEF SendPending
  <2> QED
    BY <1>6, <1>8, <1>9, <2>3, <2>4
<1> QED
  BY <1>11, <1>12

\* While the terminal takes the sizes it is given, msg tells of a new one.
Announces(msg) ==
    tty'.sized => /\ tty.sized
                  /\ IF msg.kind = "size" THEN msg.val = tty'.size
                     ELSE tty'.size = tty.size

\* A message to every writer task: the next chunk, the new size, or neither.
LEMMA RelayAttended ==
    ASSUME Whole, NEW msg \in Message, mux' = Relayed(mux, msg), stop => stop',
           job'.mode = job.mode, feed'.offered = feed.offered,
           tty'.input = tty.input, tty'.typed = tty.typed,
           Announces(msg),
           out'.hashed["stdout"] \in Nat,
           IF msg.kind = "stdout"
           THEN /\ msg.val = out.hashed["stdout"] + 1
                /\ out'.hashed["stdout"] = out.hashed["stdout"] + 1
           ELSE out'.hashed["stdout"] = out.hashed["stdout"]
    PROVE  Attended' /\ ShapeMux(mux)'
<1>1. ShapeMux(mux) /\ out.hashed["stdout"] \in Nat
  BY DEF Whole, Shape, ShapeOut, Streams
<1>2. /\ ShapeMux(mux')
      /\ \A c \in Clients : mux'.queue[c] =
           IF mux.writer[c] = "on" THEN Append(mux.queue[c], msg) ELSE mux.queue[c]
      /\ mux'.recv = mux.recv /\ mux'.ro = mux.ro /\ mux'.tokens = mux.tokens
      /\ mux'.cancelled = mux.cancelled /\ mux'.writer = mux.writer
      /\ mux'.initial = mux.initial /\ mux'.seen = mux.seen
  BY <1>1, RelayedShape, Zenon
<1>3. ASSUME NEW c \in Clients
      PROVE  /\ mux.initial[c] \in Seq(Message) /\ mux.queue[c] \in Seq(Message)
             /\ mux.seen[c].chunk \in Nat
  BY <1>1 DEF ShapeMux, View
<1>4. ASSUME NEW c \in Clients, mux.writer[c] = "on"
      PROVE  Coming(c) \in Seq(Message) /\ Coming(c)' = Append(Coming(c), msg)
  <2>1. Coming(c)' = mux.initial[c] \o Append(mux.queue[c], msg)
    BY <1>2, <1>4, Zenon DEF Coming
  <2>2. /\ mux.initial[c] \o mux.queue[c] \in Seq(Message)
        /\ mux.initial[c] \o Append(mux.queue[c], msg)
             = Append(mux.initial[c] \o mux.queue[c], msg)
    BY <1>3, ConcatEnds, Zenon
  <2> QED
    BY <2>1, <2>2, Zenon DEF Coming
<1>5. ASSUME NEW c \in Clients, ~stop', c \notin mux.cancelled, mux.writer[c] = "on"
      PROVE  Follows(Coming(c)', mux.seen[c].chunk, out'.hashed["stdout"])
  <2>1. Follows(Coming(c), mux.seen[c].chunk, out.hashed["stdout"])
    BY <1>5 DEF Whole, Attended
  <2> QED
    BY <1>1, <1>3, <1>4, <1>5, <2>1, FollowsAppend, Zenon
<1>6. ASSUME NEW c \in Clients, mux.writer[c] = "on", job.mode = "interactive", tty'.sized
      PROVE  LastSize(mux.seen[c].size, Coming(c)', tty'.size)
  <2>1. /\ tty.sized
        /\ IF msg.kind = "size" THEN msg.val = tty'.size ELSE tty'.size = tty.size
    BY <1>6 DEF Announces
  <2>2. LastSize(mux.seen[c].size, Coming(c), tty.size)
    BY <1>6, <2>1 DEF Whole, Attended, WindowsAgree
  <2> QED
    BY <1>4, <1>6, <2>1, <2>2, SizeAppend, Zenon
<1>7. WindowsAgree'
  BY <1>2, <1>6, Zenon DEF WindowsAgree
<1>8. Streaming' = Streaming
  BY DEF Streaming
<1>9. ASSUME NEW c \in Clients
      PROVE  /\ mux'.writer[c] # "on" => mux'.initial[c] = <<>> /\ mux'.queue[c] = <<>>
             /\ mux'.writer[c] = "none" =>
                  mux'.seen[c] = NothingSeen /\ c \notin mux'.tokens /\ c \notin mux'.cancelled
             /\ mux'.writer[c] = "on" /\ c \notin mux'.cancelled => c \in mux'.recv
             /\ c \in mux'.recv => c \in mux'.tokens
             /\ c \in mux'.recv /\ c \in ReadOnly => c \in mux'.ro
             /\ ~stop' /\ c \notin mux'.cancelled => ~mux'.seen[c].gap
  BY <1>2, <1>9, Zenon DEF Whole, Attended
<1>10. \A i \in DOMAIN feed'.offered : i = 1 /\ mux'.writer[feed'.offered[i]] = "none"
  BY <1>2, Zenon DEF Whole, Attended
<1>11. /\ \A i \in DOMAIN tty'.input : tty'.input[i] \notin ReadOnly
       /\ \A i \in DOMAIN tty'.typed : tty'.typed[i] \notin ReadOnly
       /\ Streaming' => \A c \in Clients : mux'.writer[c] = "none"
  BY <1>2, <1>8, Zenon DEF Whole, Attended
<1>12. Attended'
  BY <1>2, <1>5, <1>7, <1>9, <1>10, <1>11, Zenon DEF Attended
<1> QED
  BY <1>2, <1>12, Zenon DEF ShapeMux

\* With no client in the mux, nobody is owed the chunk.
LEMMA IdleAttended ==
    ASSUME Whole, mux' = mux, mux.recv = {}, stop => stop', job'.mode = job.mode,
           feed' = feed, tty' = tty
    PROVE  Attended'
<1>1. \A c \in Clients : mux.writer[c] = "on" => c \in mux.cancelled
  BY Zenon DEF Whole, Attended
<1>2. Streaming' = Streaming /\ \A c \in Clients : Coming(c)' = Coming(c)
  BY Zenon DEF Streaming, Coming
<1>3. WindowsAgree'
  BY <1>2, Zenon DEF Whole, Attended, WindowsAgree
<1> QED
  BY <1>1, <1>2, <1>3, Zenon DEF Whole, Attended

\* The end of a stream's output is noted while its consumer may still come.
LEMMA EofShape ==
    ASSUME ShapeJob(job), job' = [job EXCEPT !.eof = TRUE]
    PROVE  /\ ShapeJob(job)' /\ job'.eof = TRUE /\ job'.phase = job.phase
           /\ job'.mode = job.mode /\ job'.base = job.base /\ job'.limit = job.limit
           /\ job'.pending = job.pending /\ job'.attached = job.attached
           /\ job'.fatal = job.fatal /\ job'.result = job.result
  BY Zenon DEF ShapeJob

\* The end of a stream keeps the invariant, whatever ended it.
LEMMA EofKept ==
    ASSUME Whole, job.phase = "loop", Streaming, job' = [job EXCEPT !.eof = TRUE],
           (upsets.failed \in BOOLEAN)', upsets.failed => upsets'.failed,
           ~upsets'.failed =>
             Alive = {} /\ out.taken["stdout"] = proc.wrote["stdout"],
           UNCHANGED <<placeVars, proc, out, stop, feed, mux, tty>>
    PROVE  Whole'
<1> USE DEF Whole
<1>1. /\ ShapeJob(job)' /\ job'.eof = TRUE /\ job'.phase = job.phase
      /\ job'.mode = job.mode /\ job'.base = job.base /\ job'.limit = job.limit
      /\ job'.pending = job.pending /\ job'.attached = job.attached
      /\ job'.fatal = job.fatal /\ job'.result = job.result
  BY EofShape DEF Shape
<1>2. Shape'
  BY <1>1 DEF Shape, placeVars
<1>3. Streaming' = Streaming /\ RecordedStreams' = RecordedStreams /\ Alive' = Alive
      /\ Sent' = Sent
  BY <1>1 DEF Streaming, RecordedStreams, Alive, Sent
<1>4. Stage'
  BY <1>1, <1>3 DEF Stage, placeVars, Early
<1>5. Record'
  BY <1>1, <1>3 DEF Record
<1>6. Fed'
  BY <1>1, <1>3 DEF Fed, Late
<1>7. Attended'
  BY <1>1, AttendedFrame
<1> QED
  BY <1>2, <1>4, <1>5, <1>6, <1>7

\* A job that does not stream has nothing on its way to a consumer.
LEMMA UnfedBreak ==
    ASSUME Whole, ~Streaming, job.phase = "loop", job' = Break(job),
           feed' = feed
    PROVE  Fed'
<1>1. /\ job'.phase = "flush" /\ job'.pending = 0 /\ job'.mode = job.mode
      /\ job'.eof = job.eof /\ job'.attached = job.attached
  BY BreakShape DEF Whole, Shape
<1>2. Sent' = Sent /\ Streaming' = Streaming
  BY <1>1 DEF Sent, Streaming
<1>3. ~job.eof
  BY DEF Whole, Stage
<1> QED
  BY <1>1, <1>2, <1>3 DEF Whole, Fed, Late

\* Reading the end of a stream keeps the invariant.
LEMMA ReadEofKept == Whole /\ ReadEof => Whole'
<1> SUFFICES ASSUME Whole, ReadEof PROVE Whole'
  OBVIOUS
<1>1. job.phase = "loop"
  BY DEF ReadEof, CanRead, InLoop
<1>2. Alive = {} /\ out.taken["stdout"] = proc.wrote["stdout"]
  BY DEF ReadEof, AtEof, Readable, Streams, Whole, Shape, ShapeOut, ShapeProc, Record
<1>3. CASE Streaming
  BY <1>1, <1>2, <1>3, EofKept DEF ReadEof, Whole, Shape
<1>4. CASE ~Streaming
  <2>1. Shape' /\ Stage' /\ Record'
    BY <1>1, <1>4, BreakKept DEF ReadEof, Whole, Shape
  <2>2. Fed'
    BY <1>1, <1>4, UnfedBreak DEF ReadEof
  <2>3. job'.mode = job.mode
    BY <1>4, BreakShape DEF ReadEof, Whole, Shape
  <2>4. Attended'
    BY <2>3, AttendedFrame DEF ReadEof, Whole
  <2> QED
    BY <2>1, <2>2, <2>4 DEF Whole
<1> QED
  BY <1>3, <1>4

\* A read that fails keeps the invariant.
LEMMA ReadErrorKept == Whole /\ ReadError => Whole'
<1> SUFFICES ASSUME Whole, ReadError PROVE Whole'
  OBVIOUS
<1>1. job.phase = "loop" /\ upsets'.failed = TRUE
  BY Faulty, Zenon DEF ReadError, CanRead, InLoop, Whole, Shape
<1>2. CASE Streaming
  BY <1>1, <1>2, EofKept, Zenon DEF ReadError
<1>3. CASE ~Streaming
  <2> DEFINE msg == [kind |-> "close"]
  <2>1. /\ msg \in Message /\ msg.kind # "size" /\ msg.kind # "stdout"
        /\ mux' = Relayed(mux, msg) /\ job' = Break(job)
    BY <1>3 DEF ReadError, Message
  <2> HIDE DEF msg
  <2>2. job'.mode = job.mode
    BY <2>1, BreakShape DEF Whole, Shape
  <2>3. out.hashed["stdout"] \in Nat
    BY DEF Whole, Shape, ShapeOut, Streams
  <2>4. Attended' /\ ShapeMux(mux)'
    BY <2>1, <2>2, <2>3, RelayAttended DEF ReadError, Announces
  <2>5. Shape' /\ Stage' /\ Record'
    BY <1>1, <2>1, <2>4, BreakKept, Zenon DEF ReadError, Whole, Shape
  <2>6. Fed'
    BY <1>1, <1>3, <2>1, UnfedBreak DEF ReadError
  <2> QED
    BY <2>4, <2>5, <2>6 DEF Whole
<1> QED
  BY <1>2, <1>3

\* Reading a chunk that is streamed keeps the invariant.
LEMMA ReadStreamedKept == Whole /\ ReadStreamed => Whole'
<1> SUFFICES ASSUME Whole, ReadStreamed PROVE Whole'
  OBVIOUS
<1> USE DEF Whole
<1> DEFINE n == out.hashed["stdout"] + 1
<1>1. /\ job.phase = "loop" /\ job.pending = 0 /\ ~job.eof /\ Streaming
      /\ out.taken["stdout"] < proc.wrote["stdout"]
  BY DEF ReadStreamed, CanRead, InLoop, Readable
<1>2. "stdout" \in Streams /\ n \in Nat /\ n # 0 /\ out.hashed["stdout"] \in Nat
  BY DEF Streams, Shape, ShapeOut
<1>3. /\ ShapeOut(out)'
      /\ out'.taken = [out.taken EXCEPT !["stdout"] = @ + 1]
      /\ out'.hashed = [out.hashed EXCEPT !["stdout"] = @ + 1]
      /\ out'.rec = out.rec /\ out'.file = out.file /\ out'.pos = out.pos
  <2>1. out' = Hashed("stdout") /\ ShapeOut(out)
    BY DEF ReadStreamed, Shape
  <2> QED
    BY <1>2, <2>1, HashedShape, Zenon DEF ShapeOut
<1>4. /\ out.taken \in [Streams -> Nat] /\ out.hashed \in [Streams -> Nat]
      /\ proc.wrote \in [Streams -> Nat]
  BY DEF Shape, ShapeOut, ShapeProc
<1>5. /\ out'.taken["stdout"] = out.taken["stdout"] + 1
      /\ out'.hashed["stdout"] = n
      /\ \A s \in Streams \ {"stdout"} :
           out'.taken[s] = out.taken[s] /\ out'.hashed[s] = out.hashed[s]
  BY <1>2, <1>3, <1>4
<1>6. job' = [job EXCEPT !.pending = n]
  BY Zenon DEF ReadStreamed
<1> HIDE DEF n
<1>7. ShapeJob(job)'
  BY <1>2, <1>6, Zenon DEF Shape, ShapeJob
<1>8. /\ job'.phase = job.phase /\ job'.pending = n /\ job'.mode = job.mode
      /\ job'.base = job.base /\ job'.limit = job.limit /\ job'.eof = job.eof
      /\ job'.attached = job.attached /\ job'.fatal = job.fatal
      /\ job'.result = job.result
  BY <1>6, Zenon DEF Shape, ShapeJob
<1>9. Shape'
  BY <1>3, <1>7 DEF Shape, ReadStreamed, placeVars
<1>10. /\ Streaming' = Streaming /\ RecordedStreams = {"stderr"}
       /\ RecordedStreams' = RecordedStreams /\ Sent' = Sent /\ Alive' = Alive
  BY <1>1, <1>8 DEF Streaming, RecordedStreams, Sent, Alive, ReadStreamed
<1>11. Stage'
  BY <1>1, <1>8, <1>10 DEF Stage, ReadStreamed, placeVars, Early
<1>12. \A s \in Streams : out'.taken[s] <= proc'.wrote[s]
  <2>1. proc'.wrote = proc.wrote
    BY DEF ReadStreamed
  <2>2. \A s \in Streams : out.taken[s] <= proc.wrote[s]
    BY DEF Record
  <2> QED
    BY <1>1, <1>2, <1>4, <1>5, <2>1, <2>2
<1>13. out'.taken["stdout"] = out'.hashed["stdout"]
  BY <1>1, <1>5, <1>2 DEF Record, n
<1>14. Record'
  BY <1>1, <1>3, <1>5, <1>8, <1>10, <1>12, <1>13 DEF Record, ReadStreamed
<1>15. Fed'
  <2>1. feed' = feed /\ stop' = stop
    BY DEF ReadStreamed
  <2>2. Sent \in Nat /\ Len(feed.chan) \in Nat
    BY DEF Sent, Shape, ShapeFeed
  <2>3. feed.socket # "gone" => out.hashed["stdout"] = Sent + Len(feed.chan)
    BY <1>1, <2>2 DEF Fed, Late
  <2>4. feed.socket # "gone" => out'.hashed["stdout"] = Sent + Len(feed.chan) + 1
    BY <1>2, <1>5, <2>2, <2>3, SMTT(30) DEF n
  <2> QED
    BY <1>1, <1>2, <1>5, <1>8, <1>10, <2>1, <2>4 DEF Fed
<1>16. \A c \in Clients : mux.writer[c] = "none"
  BY <1>1 DEF Attended
<1>17. WindowsAgree'
  BY <1>16 DEF WindowsAgree, ReadStreamed
<1>18. Attended'
  BY <1>10, <1>16, <1>17, Zenon DEF Attended, ReadStreamed
<1> QED
  BY <1>9, <1>11, <1>14, <1>15, <1>18

\* Reading a chunk after recording stopped keeps the invariant.
LEMMA ReadDroppedKept == ASSUME Whole, NEW s \in Streams, ReadDropped(s) PROVE Whole'
<1> USE DEF Whole
<1>1. out.taken[s] < proc.wrote[s] /\ ~out.rec[s] /\ ~job.eof
  BY DEF ReadDropped, Readable, CanRead
<1>2. /\ out.taken \in [Streams -> Nat] /\ proc.wrote \in [Streams -> Nat]
  BY DEF Shape, ShapeOut, ShapeProc
<1> DEFINE t == [out.taken EXCEPT ![s] = @ + 1]
<1>3. /\ t \in [Streams -> Nat] /\ t[s] = out.taken[s] + 1
      /\ \A r \in Streams \ {s} : t[r] = out.taken[r]
  BY <1>2
<1>4. out' = [out EXCEPT !.taken = t]
  BY Zenon DEF ReadDropped
<1> HIDE DEF t
<1>5. /\ ShapeOut(out)' /\ out'.taken = t /\ out'.hashed = out.hashed
      /\ out'.rec = out.rec /\ out'.file = out.file /\ out'.pos = out.pos
  BY <1>3, <1>4, Zenon DEF Shape, ShapeOut
<1>6. Shape'
  BY <1>5 DEF Shape, ReadDropped, placeVars
<1>7. Stage'
  BY <1>5, StageFrame DEF ReadDropped, placeVars, JobSame, LeaderSame, Stage
<1>8. Streaming' = Streaming /\ RecordedStreams' = RecordedStreams /\ Alive' = Alive
  BY DEF ReadDropped, Streaming, RecordedStreams, Alive
<1>9. \A r \in Streams : t[r] <= proc.wrote[r]
  BY <1>1, <1>2, <1>3, SMTT(30) DEF Record
<1>10. Streaming => s # "stdout"
  BY <1>1 DEF Record
<1>11. Streaming => t["stdout"] = out.taken["stdout"]
  BY <1>3, <1>10 DEF Streams
<1>12. Record'
  BY <1>1, <1>5, <1>8, <1>9, <1>11 DEF Record, ReadDropped
<1>13. Fed'
  BY <1>5, FedFrame DEF ReadDropped, FeedSame, JobSame
<1>14. Attended'
  BY <1>5, AttendedFrame DEF ReadDropped
<1> QED
  BY <1>6, <1>7, <1>12, <1>13, <1>14

\* What is written goes where the file position is, at or before the file's end.
LEMMA RecordedShape ==
    ASSUME NEW f \in Seq(Nat), NEW at \in Nat, at <= Len(f), NEW n \in Nat, NEW g,
           g = IF at = Len(f) THEN Append(f, n) ELSE [f EXCEPT ![at + 1] = n]
    PROVE  /\ g \in Seq(Nat)
           /\ at = Len(f) => Len(g) = Len(f) + 1 /\ g[Len(f) + 1] = n
                             /\ \A i \in 1 .. Len(f) : g[i] = f[i]
           /\ at # Len(f) => Len(g) = Len(f)
<1>1. CASE at = Len(f)
  BY <1>1
<1>2. CASE at # Len(f)
  <2>1. at + 1 \in 1 .. Len(f)
    BY <1>2
  <2> QED
    BY <1>2, <2>1
<1> QED
  BY <1>1, <1>2

\* A chunk that is recorded, or whose write failed: what becomes of the stream's
\* file, hash and limit, and of the other stream's.
LEMMA ReadRecordedOut ==
    ASSUME Whole, NEW s \in Streams, ReadRecorded(s)
    PROVE  /\ ShapeOut(out)' /\ stop' \in BOOLEAN /\ upsets'.failed \in BOOLEAN
           /\ stop => stop'
           /\ out'.hashed[s] = out.hashed[s] + 1 /\ out'.taken[s] = out.taken[s] + 1
           /\ \A r \in Streams \ {s} :
                /\ out'.hashed[r] = out.hashed[r] /\ out'.taken[r] = out.taken[r]
                /\ out'.file[r] = out.file[r] /\ out'.rec[r] = out.rec[r]
           /\ out'.rec[s] => out.hashed[s] + 1 <= job.limit
           /\ out.hashed[s] + 1 > job.limit => stop'
           /\ upsets.failed => upsets'.failed
           /\ \/ /\ stop' /\ upsets'.failed
                 /\ out'.file = out.file /\ out'.pos = out.pos
              \/ /\ upsets' = upsets /\ out'.file[s] = Recorded(s, out.hashed[s] + 1)
                 /\ out'.pos = IF s = "stdout" THEN out.pos + 1 ELSE out.pos
<1> USE DEF Whole
<1> DEFINE n == out.hashed[s] + 1
<1> DEFINE over == OverLimit(s)
<1> DEFINE rec == [out.rec EXCEPT ![s] = ~over]
<1> DEFINE h == Hashed(s)
<1>1. /\ ShapeOut(h)
      /\ h.taken = [out.taken EXCEPT ![s] = @ + 1]
      /\ h.hashed = [out.hashed EXCEPT ![s] = @ + 1]
      /\ h.rec = out.rec /\ h.file = out.file /\ h.pos = out.pos
  BY HashedShape, Zenon DEF Shape
<1>2. /\ out.taken \in [Streams -> Nat] /\ out.hashed \in [Streams -> Nat]
      /\ out.rec \in [Streams -> BOOLEAN] /\ out.file \in [Streams -> Seq(Nat)]
      /\ out.pos \in Nat /\ job.limit \in Nat
  BY Zenon DEF Shape, ShapeOut, ShapeJob
<1>3. over = (n > job.limit) /\ over \in BOOLEAN /\ n \in Nat
  BY <1>2 DEF OverLimit
<1>4. rec \in [Streams -> BOOLEAN] /\ (rec[s] => n <= job.limit)
      /\ \A r \in Streams \ {s} : rec[r] = out.rec[r]
  <2>1. ~over => n <= job.limit
    BY <1>2 DEF OverLimit
  <2> HIDE DEF over, n
  <2> QED
    BY <1>2, <2>1, Zenon
<1>5. /\ h.hashed[s] = n /\ h.taken[s] = out.taken[s] + 1
      /\ \A r \in Streams \ {s} : h.hashed[r] = out.hashed[r] /\ h.taken[r] = out.taken[r]
  BY <1>1, <1>2
<1> HIDE DEF n, over, rec, h
<1>6. CASE /\ Fault("write") /\ out' = [Hashed(s) EXCEPT !.rec[s] = ~OverLimit(s)]
           /\ stop' = TRUE
  <2>1. upsets'.failed = TRUE
    BY <1>6, Faulty, Zenon DEF Shape
  <2>2. out' = [h EXCEPT !.rec = rec]
    BY <1>1, <1>6, Zenon DEF h, rec, over
  <2>3. /\ ShapeOut(out)' /\ out'.rec = rec /\ out'.hashed = h.hashed
        /\ out'.taken = h.taken /\ out'.file = out.file /\ out'.pos = out.pos
    BY <1>1, <1>4, <2>2, Zenon DEF ShapeOut
  <2> QED
    BY <1>4, <1>5, <1>6, <2>1, <2>3, Zenon DEF n
<1>7. CASE /\ out' = [Hashed(s) EXCEPT !.file[s] = Recorded(s, out.hashed[s] + 1),
                        !.pos = IF s = "stdout" THEN @ + 1 ELSE @,
                        !.rec[s] = ~OverLimit(s)]
           /\ stop' = (stop \/ OverLimit(s)) /\ UNCHANGED upsets
  <2> DEFINE g == Recorded(s, n)
  <2> DEFINE file == [out.file EXCEPT ![s] = g]
  <2> DEFINE pos == IF s = "stdout" THEN out.pos + 1 ELSE out.pos
  <2>1. out.file[s] \in Seq(Nat) /\ Len(out.file[s]) \in Nat
    BY <1>2
  <2>2. s = "stdout" => out.pos <= Len(out.file[s])
    BY DEF Record
  <2>3. g \in Seq(Nat)
    <3> DEFINE at == IF s = "stdout" THEN out.pos ELSE Len(out.file[s])
    <3>1. at \in Nat /\ at <= Len(out.file[s])
      BY <1>2, <2>1, <2>2
    <3>2. g = IF at = Len(out.file[s]) THEN Append(out.file[s], n)
              ELSE [out.file[s] EXCEPT ![at + 1] = n]
      BY Zenon DEF Recorded
    <3> HIDE DEF at, g
    <3> QED
      BY <1>3, <2>1, <3>1, <3>2, RecordedShape
  <2> HIDE DEF g
  <2>4. /\ file \in [Streams -> Seq(Nat)] /\ file[s] = g
        /\ \A r \in Streams \ {s} : file[r] = out.file[r]
    BY <1>2, <2>3, Zenon
  <2>5. pos \in Nat
    BY <1>2
  <2>6. out' = [h EXCEPT !.file = file, !.pos = pos, !.rec = rec]
    BY <1>1, <1>7, Zenon DEF h, rec, over, file, pos, g, n
  <2> HIDE DEF file, pos
  <2>7. /\ ShapeOut(out)' /\ out'.rec = rec /\ out'.hashed = h.hashed
        /\ out'.taken = h.taken /\ out'.file = file /\ out'.pos = pos
    BY <1>1, <1>4, <2>4, <2>5, <2>6, Zenon DEF ShapeOut
  <2>8. stop' \in BOOLEAN /\ (stop => stop') /\ (n > job.limit => stop')
        /\ upsets' = upsets /\ upsets'.failed \in BOOLEAN
    BY <1>3, <1>7, Zenon DEF over, Shape
  <2> QED
    BY <1>4, <1>5, <2>4, <2>7, <2>8, Zenon DEF n, g, pos
<1> QED
  BY <1>6, <1>7, Zenon DEF ReadRecorded

\* Reading a chunk that is recorded and relayed keeps the invariant.
LEMMA ReadRecordedKept == ASSUME Whole, NEW s \in Streams, ReadRecorded(s) PROVE Whole'
<1> USE DEF Whole
<1> DEFINE n == out.hashed[s] + 1
<1> DEFINE fatal == job.fatal \/ n > job.limit
<1>1. /\ job.phase = "loop" /\ job.pending = 0 /\ ~job.eof /\ s \in RecordedStreams
      /\ out.rec[s] /\ out.taken[s] < proc.wrote[s]
  BY DEF ReadRecorded, CanRead, InLoop, Readable
<1>2. /\ out.taken \in [Streams -> Nat] /\ out.hashed \in [Streams -> Nat]
      /\ out.rec \in [Streams -> BOOLEAN] /\ out.file \in [Streams -> Seq(Nat)]
      /\ out.pos \in Nat /\ job.limit \in Nat /\ proc.wrote \in [Streams -> Nat]
  BY Zenon DEF Shape, ShapeOut, ShapeJob, ShapeProc
<1>3. n \in Nat /\ fatal \in BOOLEAN /\ job' = [job EXCEPT !.fatal = fatal]
  <2>1. n \in Nat
    BY <1>2
  <2>2. job' = [job EXCEPT !.fatal = fatal]
    BY Zenon DEF ReadRecorded, OverLimit
  <2> QED
    BY <2>1, <2>2, Zenon
<1>4. /\ ShapeOut(out)' /\ stop' \in BOOLEAN /\ upsets'.failed \in BOOLEAN
      /\ stop => stop'
      /\ out'.hashed[s] = n /\ out'.taken[s] = out.taken[s] + 1
      /\ \A r \in Streams \ {s} :
           /\ out'.hashed[r] = out.hashed[r] /\ out'.taken[r] = out.taken[r]
           /\ out'.file[r] = out.file[r] /\ out'.rec[r] = out.rec[r]
      /\ out'.rec[s] => n <= job.limit
      /\ n > job.limit => stop'
      /\ upsets.failed => upsets'.failed
      /\ \/ /\ stop' /\ upsets'.failed
            /\ out'.file = out.file /\ out'.pos = out.pos
         \/ /\ upsets' = upsets /\ out'.file[s] = Recorded(s, n)
            /\ out'.pos = IF s = "stdout" THEN out.pos + 1 ELSE out.pos
  BY ReadRecordedOut, Zenon
<1>5. n > job.limit => fatal
  OBVIOUS
<1>6. job.fatal => fatal
  OBVIOUS
<1> HIDE DEF fatal
<1>7. ShapeJob(job)'
  BY <1>3, Zenon DEF Shape, ShapeJob
<1>8. /\ job'.phase = job.phase /\ job'.pending = job.pending /\ job'.mode = job.mode
      /\ job'.base = job.base /\ job'.limit = job.limit /\ job'.eof = job.eof
      /\ job'.attached = job.attached /\ job'.fatal = fatal
      /\ job'.result = job.result
  BY <1>3, Zenon DEF Shape, ShapeJob
<1>9. /\ Streaming' = Streaming /\ RecordedStreams' = RecordedStreams
      /\ Sent' = Sent /\ Alive' = Alive /\ (Streaming => s = "stderr")
  BY <1>1, <1>8 DEF Streaming, RecordedStreams, Sent, Alive, ReadRecorded
<1>10. Stage'
  BY <1>1, <1>8, <1>9 DEF Stage, ReadRecorded, placeVars, Early
<1>11. /\ n <= job.limit + 1
       /\ out'.rec[s] => n <= job.limit
       /\ n > job.limit => stop' /\ fatal
  <2>1. out.hashed[s] <= job.limit
    BY <1>1, Zenon DEF Record
  <2>2. n <= job.limit + 1
    BY <1>2, <2>1
  <2> HIDE DEF n
  <2>3. (out'.rec[s] => n <= job.limit) /\ (n > job.limit => stop' /\ fatal)
    BY <1>4, <1>5, Zenon
  <2> QED
    BY <2>2, <2>3
<1>12. /\ Len(out'.file[s]) <= n
       /\ ~(stop' /\ upsets'.failed) => out'.file[s] = [i \in 1 .. n |-> i]
       /\ out'.pos <= Len(out'.file["stdout"])
       /\ ~(stop' /\ upsets'.failed) => out'.pos = Len(out'.file["stdout"])
  <2> DEFINE f == out.file[s]
  <2>1. /\ f \in Seq(Nat) /\ Len(f) \in Nat /\ Len(f) <= out.hashed[s]
        /\ ~(stop /\ upsets.failed) => f = [i \in 1 .. out.hashed[s] |-> i]
        /\ out.hashed[s] \in Nat
    BY <1>1, <1>2 DEF Record
  <2>2. /\ out.pos <= Len(out.file["stdout"])
        /\ ~(stop /\ upsets.failed) => out.pos = Len(out.file["stdout"])
    BY DEF Record
  <2>3. Len(out.file["stdout"]) \in Nat /\ "stdout" \in Streams
    BY <1>2 DEF Streams
  <2>4. CASE stop' /\ upsets'.failed /\ out'.file = out.file /\ out'.pos = out.pos
    BY <2>1, <2>2, <2>4
  <2>5. CASE /\ upsets' = upsets /\ out'.file[s] = Recorded(s, n)
             /\ out'.pos = IF s = "stdout" THEN out.pos + 1 ELSE out.pos
    <3> DEFINE at == IF s = "stdout" THEN out.pos ELSE Len(f)
    <3> DEFINE g == Recorded(s, n)
    <3>1. at \in Nat /\ at <= Len(f) /\ (~(stop /\ upsets.failed) => at = Len(f))
      BY <1>2, <2>1, <2>2
    <3>2. g = IF at = Len(f) THEN Append(f, n) ELSE [f EXCEPT ![at + 1] = n]
      BY Zenon DEF Recorded
    <3>3. (s = "stdout" => at = out.pos) /\ (s # "stdout" => at = Len(f))
      BY Zenon
    <3>4. out'.file[s] = g
      BY <2>5
    <3> HIDE DEF at, g, f, n
    <3>5. /\ g \in Seq(Nat)
          /\ at = Len(f) => Len(g) = Len(f) + 1 /\ g[Len(f) + 1] = n
                            /\ \A i \in 1 .. Len(f) : g[i] = f[i]
          /\ at # Len(f) => Len(g) = Len(f)
      BY <1>3, <2>1, <3>1, <3>2, RecordedShape
    <3>6. ~(stop' /\ upsets'.failed) => ~(stop /\ upsets.failed)
      BY <1>4, <2>5
    <3>7. Len(g) <= n
      BY <2>1, <3>5 DEF n
    <3>8. ASSUME ~(stop' /\ upsets'.failed) PROVE g = [i \in 1 .. n |-> i]
      <4>1. at = Len(f) /\ f = [i \in 1 .. out.hashed[s] |-> i] /\ Len(f) = out.hashed[s]
        BY <2>1, <3>1, <3>6, <3>8, SMTT(30)
      <4>2. Len(g) = n /\ g[n] = n /\ \A i \in 1 .. out.hashed[s] : g[i] = i
        BY <3>5, <4>1, Zenon DEF n
      <4> HIDE <3>2
      <4>3. \A i \in 1 .. n : g[i] = i
        BY <2>1, <4>2 DEF n
      <4> QED
        BY <1>3, <3>5, <4>2, <4>3, SMTT(30)
    <3>9. CASE s = "stdout"
      <4>1. out'.pos = at + 1
        BY <2>5, <3>3, <3>9
      <4>2. out'.pos <= Len(g)
        BY <2>1, <3>1, <3>5, <4>1, SMTT(30)
      <4>3. ~(stop' /\ upsets'.failed) => out'.pos = Len(g)
        BY <2>1, <3>1, <3>5, <3>6, <4>1
      <4> QED
        BY <3>4, <3>7, <3>8, <3>9, <4>2, <4>3
    <3>10. CASE s # "stdout"
      <4>1. out'.pos = out.pos /\ out'.file["stdout"] = out.file["stdout"]
        BY <1>4, <2>3, <2>5, <3>10
      <4> QED
        BY <2>2, <3>4, <3>6, <3>7, <3>8, <4>1
    <3> QED
      BY <3>9, <3>10
  <2> QED
    BY <1>4, <2>4, <2>5, SMTT(30)
<1>13. \A r \in Streams : out'.taken[r] <= proc'.wrote[r]
  <2>1. proc'.wrote = proc.wrote /\ \A r \in Streams : out.taken[r] <= proc.wrote[r]
    BY DEF Record, ReadRecorded
  <2> SUFFICES ASSUME NEW r \in Streams PROVE out'.taken[r] <= proc.wrote[r]
    BY <2>1
  <2>2. CASE r = s
    <3>1. out'.taken[r] = out.taken[r] + 1 /\ out.taken[r] < proc.wrote[r]
      BY <1>1, <1>4, <2>2, Zenon
    <3> QED
      BY <1>2, <3>1
  <2>3. CASE r # s
    BY <1>4, <2>1, <2>3
  <2> QED
    BY <2>2, <2>3
<1>14. ASSUME NEW r \in Streams, r \in RecordedStreams
       PROVE  /\ out'.hashed[r] <= job.limit + 1
              /\ out'.rec[r] => out'.hashed[r] <= job.limit
              /\ out'.hashed[r] > job.limit => stop' /\ fatal
              /\ Len(out'.file[r]) <= out'.hashed[r]
              /\ ~(stop' /\ upsets'.failed) => out'.file[r] = [i \in 1 .. out'.hashed[r] |-> i]
  <2>1. CASE r = s
    BY <1>4, <1>11, <1>12, <2>1, Zenon
  <2>2. CASE r # s
    <3>1. /\ out'.hashed[r] = out.hashed[r] /\ out'.file[r] = out.file[r]
          /\ out'.rec[r] = out.rec[r]
      BY <1>4, <2>2
    <3>2. ~(stop' /\ upsets'.failed) => ~(stop /\ upsets.failed)
      BY <1>4
    <3> QED
      BY <1>4, <1>6, <1>14, <3>1, <3>2 DEF Record
  <2> QED
    BY <2>1, <2>2, SMTT(30)
<1>15. Streaming => /\ out'.rec["stdout"] /\ out'.file["stdout"] = <<>>
                    /\ out'.taken["stdout"] = out'.hashed["stdout"]
  BY <1>4, <1>9, SMTT(30) DEF Record, Streams
<1>16. Record'
  BY <1>1, <1>8, <1>9, <1>12, <1>13, <1>14, <1>15 DEF Record
<1>17. Fed'
  <2>1. feed' = feed
    BY DEF ReadRecorded
  <2>2. Streaming => out'.hashed["stdout"] = out.hashed["stdout"]
    BY <1>4, <1>9 DEF Streams
  <2> QED
    BY <1>1, <1>4, <1>8, <1>9, <2>1, <2>2, Zenon DEF Fed
<1>18. Attended' /\ ShapeMux(mux)'
  <2>1. CASE mux.recv = {}
    <3>1. Attended'
      BY <1>4, <1>8, <2>1, IdleAttended, SMTT(30) DEF ReadRecorded
    <3> QED
      BY <2>1, <3>1 DEF ReadRecorded, Shape
  <2>2. CASE mux.recv # {}
    <3> DEFINE msg == Data(s, n)
    <3>1. msg \in Message /\ msg.kind = s /\ msg.val = n /\ s # "size"
      BY <1>3 DEF Data, Message, Streams
    <3>2. mux' = Relayed(mux, msg)
      BY <2>2 DEF ReadRecorded
    <3> HIDE DEF msg
    <3>3. "stdout" \in Streams /\ out'.hashed["stdout"] \in Nat
      BY <1>2, <1>3, <1>4, SMTT(30) DEF Streams
    <3>4. IF msg.kind = "stdout"
          THEN /\ msg.val = out.hashed["stdout"] + 1
               /\ out'.hashed["stdout"] = out.hashed["stdout"] + 1
          ELSE out'.hashed["stdout"] = out.hashed["stdout"]
      BY <1>4, <3>1, <3>3
    <3> QED
      BY <1>4, <1>8, <3>1, <3>2, <3>3, <3>4, RelayAttended DEF ReadRecorded, Announces
  <2> QED
    BY <2>1, <2>2
<1>19. Shape'
  BY <1>4, <1>7, <1>18, SMTT(30) DEF Shape, ReadRecorded, placeVars
<1> QED
  BY <1>10, <1>16, <1>17, <1>18, <1>19

(***************************************************************************)
(* The stream and its consumer.                                            *)
(***************************************************************************)

\* A step of the streaming task alone.
LEMMA FeedKept ==
    ASSUME Whole, ShapeFeed(feed)', Fed', feed'.offered = feed.offered, stop => stop',
           (stop \in BOOLEAN)', (upsets.failed \in BOOLEAN)',
           upsets.failed => upsets'.failed,
           UNCHANGED <<placeVars, proc, out, job, mux, tty>>
    PROVE  Whole'
<1> USE DEF Whole
<1>1. Shape'
  BY SMTT(30) DEF Shape, placeVars
<1>2. Stage'
  BY StageFrame DEF placeVars, JobSame, LeaderSame, Stage
<1>3. Record'
  BY RecordFrame DEF ProcSame
<1>4. Attended'
  BY AttendedFrame
<1> QED
  BY <1>1, <1>2, <1>3, <1>4

\* Taking a chunk from the buffer keeps the invariant.
LEMMA TakeChunkKept == Whole /\ TakeChunk => Whole'
<1> SUFFICES ASSUME Whole, TakeChunk PROVE Whole'
  OBVIOUS
<1>1. /\ feed.chan \in Seq(Nat) /\ feed.chan # <<>> /\ feed.sending = 0
      /\ feed.socket \in Clients /\ Len(feed.got) \in Nat
  BY DEF TakeChunk, Serving, Whole, Shape, ShapeFeed
<1>2. feed.chan = <<Len(feed.got) + 1>> /\ Sent = Len(feed.got)
  BY <1>1 DEF Whole, Fed, Sent
<1> DEFINE h == Head(feed.chan)
<1> DEFINE e == <<>>
<1>3. h = Len(feed.got) + 1 /\ h \in Nat /\ e \in Seq(Nat)
  BY <1>1, <1>2
<1>4. feed' = [feed EXCEPT !.sending = h, !.chan = e]
  BY Zenon DEF TakeChunk
<1> HIDE DEF h, e
<1>5. ShapeFeed(feed)' /\ feed'.chan = e /\ feed'.socket = feed.socket
      /\ feed'.sending = h /\ feed'.got = feed.got /\ feed'.offered = feed.offered
  BY <1>3, <1>4, Zenon DEF Whole, Shape, ShapeFeed
<1>6. /\ feed'.sending = Len(feed.got) + 1 /\ feed'.sending # 0
      /\ Sent' = Sent + 1 /\ Len(feed'.chan) = 0 /\ Len(feed.chan) = 1
  <2>1. feed'.sending = Len(feed.got) + 1 /\ feed'.sending # 0
    BY <1>1, <1>3, <1>5
  <2>2. Sent' = Sent + 1
    BY <1>1, <1>2, <1>5, <2>1 DEF Sent
  <2>3. Len(feed'.chan) = 0 /\ Len(feed.chan) = 1
    BY <1>2, <1>5 DEF e
  <2> QED
    BY <2>1, <2>2, <2>3
<1>7. feed.socket \notin {"none", "gone", "closed"}
  BY <1>1, JobRunnerAssumption
<1>8. Streaming' = Streaming /\ Streaming
  BY <1>1 DEF Whole, Fed, Streaming, TakeChunk
<1>9. \A h0, p0 \in Nat :
        h0 = Sent + Len(feed.chan) + p0 => h0 = Sent' + Len(feed'.chan) + p0
  BY <1>1, <1>2, <1>6
<1>10. out.hashed["stdout"] \in Nat /\ (IF job.pending = 0 THEN 0 ELSE 1) \in Nat
  BY DEF Whole, Shape, ShapeOut, Streams
<1>11. feed'.chan = <<>> /\ out' = out /\ job' = job /\ stop' = stop
  BY <1>5 DEF e, TakeChunk
<1>12. Fed'
  BY <1>1, <1>5, <1>6, <1>7, <1>8, <1>9, <1>10, <1>11 DEF Whole, Fed
<1> QED
  BY <1>5, <1>12, FeedKept DEF TakeChunk, Whole, Shape

\* Sending a chunk keeps the invariant.
LEMMA ChunkSentKept == Whole /\ ChunkSent => Whole'
<1> SUFFICES ASSUME Whole, ChunkSent PROVE Whole'
  OBVIOUS
<1>1. /\ feed.got \in Seq(Nat) /\ feed.sending = Len(feed.got) + 1
      /\ feed.sending # 0 /\ Len(feed.got) \in Nat
      /\ feed.got = [n \in 1 .. Len(feed.got) |-> n]
  BY DEF ChunkSent, Whole, Shape, ShapeFeed, Fed
<1> DEFINE g == Append(feed.got, feed.sending)
<1>2. g \in Seq(Nat) /\ Len(g) = Len(feed.got) + 1 /\ 0 \in Nat
  BY <1>1
<1>3. \A i \in 1 .. Len(g) : g[i] = i
  BY <1>1
<1>4. feed' = [feed EXCEPT !.got = g, !.sending = 0]
  BY Zenon DEF ChunkSent
<1> HIDE DEF g
<1>5. g = [n \in 1 .. Len(g) |-> n]
  BY <1>2, <1>3
<1>6. ShapeFeed(feed)' /\ feed'.chan = feed.chan /\ feed'.socket = feed.socket
      /\ feed'.sending = 0 /\ feed'.got = g /\ feed'.offered = feed.offered
  BY <1>2, <1>4, Zenon DEF Whole, Shape, ShapeFeed
<1>7. Sent' = Sent
  BY <1>1, <1>2, <1>6 DEF Sent
<1>8. Streaming' = Streaming /\ Streaming
  BY <1>1 DEF Whole, Fed, Streaming, ChunkSent
<1>9. Fed'
  BY <1>5, <1>6, <1>7, <1>8 DEF Whole, Fed, ChunkSent
<1> QED
  BY <1>6, <1>9, FeedKept DEF ChunkSent, Whole, Shape

\* A chunk that cannot be sent keeps the invariant.
LEMMA ChunkLostKept == Whole /\ ChunkLost => Whole'
<1> SUFFICES ASSUME Whole, ChunkLost PROVE Whole'
  OBVIOUS
<1> DEFINE e == <<>>
<1>1. upsets'.failed = TRUE /\ stop' = TRUE
  BY Faulty, Zenon DEF ChunkLost, Whole, Shape
<1>2. e \in Seq(Nat) /\ 0 \in Nat /\ feed.sending # 0
  BY DEF ChunkLost
<1>3. feed' = [feed EXCEPT !.sending = 0, !.chan = e, !.socket = "gone"]
  BY Zenon DEF ChunkLost
<1>4. e = <<>>
  OBVIOUS
<1> HIDE DEF e
<1>5. ShapeFeed(feed)' /\ feed'.chan = e /\ feed'.socket = "gone"
      /\ feed'.sending = 0 /\ feed'.got = feed.got /\ feed'.offered = feed.offered
  BY <1>2, <1>3, Zenon DEF Whole, Shape, ShapeFeed
<1>6. feed.socket # "none" /\ feed.socket # "closed" /\ Streaming
      /\ Streaming' = Streaming
  BY <1>2 DEF Whole, Fed, Streaming, ChunkLost
<1>7. Fed'
  BY <1>4, <1>5, <1>6 DEF Whole, Fed, ChunkLost
<1> QED
  BY <1>1, <1>5, <1>7, FeedKept, Zenon DEF ChunkLost

\* The end of the streaming task keeps the invariant.
LEMMA StreamClosedKept == Whole /\ StreamClosed => Whole'
<1> SUFFICES ASSUME Whole, StreamClosed PROVE Whole'
  OBVIOUS
<1> DEFINE e == <<>>
<1> DEFINE k == IF Serving THEN "closed" ELSE "gone"
<1>1. e \in Seq(Nat) /\ k \in {"closed", "gone"} /\ e = <<>>
  OBVIOUS
<1>2. feed' = [feed EXCEPT !.socket = k, !.chan = e]
  BY Zenon DEF StreamClosed
<1>3. /\ job.phase = "ended" /\ feed.sending = 0
      /\ k = "closed" => feed.chan = <<>> /\ feed.socket \in Clients
  BY JobRunnerAssumption DEF StreamClosed, Serving
<1> HIDE DEF e, k
<1>4. ShapeFeed(feed)' /\ feed'.chan = e /\ feed'.socket = k
      /\ feed'.sending = feed.sending /\ feed'.got = feed.got
      /\ feed'.offered = feed.offered
  BY <1>1, <1>2, Zenon DEF Whole, Shape, ShapeFeed
<1>5. /\ Sent' = Sent /\ Streaming' = Streaming
      /\ k = "closed" => feed.socket \notin {"none", "gone", "closed"}
  BY <1>3, <1>4, JobRunnerAssumption DEF Sent, Streaming, StreamClosed
<1>6. Streaming
  BY JobRunnerAssumption DEF StreamClosed, Serving, Whole, Fed
<1>7. Fed'
  BY <1>1, <1>3, <1>4, <1>5, <1>6 DEF Whole, Fed, StreamClosed
<1> QED
  BY <1>4, <1>7, FeedKept DEF StreamClosed, Whole, Shape

\* Attaching the consumer of a stream keeps the invariant.
LEMMA AttachStreamingKept == Whole /\ AttachStreaming => Whole'
<1> SUFFICES ASSUME Whole, AttachStreaming PROVE Whole'
  OBVIOUS
<1> USE DEF Whole
<1> DEFINE c == Head(feed.offered)
<1> DEFINE taken == c \notin ReadOnly /\ ~job.attached
<1> DEFINE at == job.attached \/ taken
<1> DEFINE so == IF taken THEN c ELSE feed.socket
<1> DEFINE e == <<>>
<1>1. /\ job.phase = "loop" /\ Streaming /\ feed.offered # <<>>
      /\ feed.offered \in Seq(Clients) /\ c \in Clients
  BY DEF AttachStreaming, InLoop, Shape, ShapeFeed
<1>2. at \in BOOLEAN /\ so \in Clients \cup {"none", "gone", "closed"}
      /\ e \in Seq(Clients) /\ e = <<>>
  <2>1. job.attached \in BOOLEAN /\ feed.socket \in Clients \cup {"none", "gone", "closed"}
    BY Zenon DEF Shape, ShapeJob, ShapeFeed
  <2>2. e \in Seq(Clients) /\ e = <<>>
    OBVIOUS
  <2> HIDE DEF c, e
  <2> QED
    BY <1>1, <2>1, <2>2, Zenon
<1>3. /\ job' = [job EXCEPT !.attached = at]
      /\ feed' = [feed EXCEPT !.offered = e, !.socket = so]
  BY Zenon DEF AttachStreaming
<1>4. \/ so = feed.socket /\ at = job.attached
      \/ so \in Clients /\ at = TRUE /\ job.attached = FALSE
  <2>1. job.attached \in BOOLEAN
    BY Zenon DEF Shape, ShapeJob
  <2> HIDE DEF c
  <2> QED
    BY <1>1, <2>1, Zenon
<1> HIDE DEF c, taken, at, so, e
<1>5. ShapeJob(job)'
  BY <1>2, <1>3, Zenon DEF Shape, ShapeJob
<1>6. /\ job'.phase = job.phase /\ job'.pending = job.pending /\ job'.mode = job.mode
      /\ job'.base = job.base /\ job'.limit = job.limit /\ job'.eof = job.eof
      /\ job'.attached = at /\ job'.fatal = job.fatal
      /\ job'.result = job.result
  BY <1>3, Zenon DEF Shape, ShapeJob
<1>7. ShapeFeed(feed)' /\ feed'.chan = feed.chan /\ feed'.socket = so
      /\ feed'.sending = feed.sending /\ feed'.got = feed.got /\ feed'.offered = e
  BY <1>2, <1>3, Zenon DEF Shape, ShapeFeed
<1>8. Shape'
  BY <1>5, <1>7 DEF Shape, AttachStreaming, placeVars
<1>9. Sent' = Sent /\ Streaming' = Streaming
  BY <1>6, <1>7 DEF Sent, Streaming
<1>10. Stage'
  BY <1>6, <1>9 DEF Stage, AttachStreaming, placeVars
<1>11. Record'
  BY <1>6, RecordFrame DEF AttachStreaming, ProcSame
<1>12. CASE so = feed.socket /\ at = job.attached
  BY <1>2, <1>6, <1>7, <1>8, <1>9, <1>10, <1>11, <1>12, AttendedFrame
     DEF Fed, AttachStreaming
<1>13. CASE so \in Clients /\ at = TRUE /\ job.attached = FALSE
  <2>1. so \notin {"none", "gone", "closed"}
    BY <1>13, JobRunnerAssumption
  <2>2. feed.socket = "none"
    BY <1>1, <1>13 DEF Fed
  <2>3. Fed'
    BY <1>1, <1>6, <1>7, <1>9, <1>13, <2>1, <2>2, ZenonT(30) DEF Fed, AttachStreaming
  <2>4. Attended'
    BY <1>2, <1>6, <1>7, AttendedFrame DEF AttachStreaming
  <2> QED
    BY <1>8, <1>10, <1>11, <2>3, <2>4
<1> QED
  BY <1>4, <1>12, <1>13, Zenon

\* The offer of a client keeps the invariant.
LEMMA OfferKept == ASSUME Whole, NEW c \in Clients, Offer(c) PROVE Whole'
<1> USE DEF Whole
<1> DEFINE o == <<c>>
<1>1. o \in Seq(Clients) /\ \A i \in DOMAIN o : i = 1 /\ o[i] = c
  OBVIOUS
<1>2. feed' = [feed EXCEPT !.offered = o]
  BY Zenon DEF Offer
<1> HIDE DEF o
<1>3. /\ ShapeFeed(feed)' /\ FeedSame /\ feed'.offered = o
  BY <1>1, <1>2, Zenon DEF Shape, ShapeFeed, FeedSame
<1>4. upsets'.failed = upsets.failed
  BY Upsets, Zenon DEF Offer, Shape
<1>5. Shape'
  BY <1>3, <1>4 DEF Shape, Offer, placeVars
<1>6. Stage'
  BY StageFrame DEF Offer, placeVars, JobSame, LeaderSame, Stage
<1>7. Record'
  BY <1>4, RecordFrame DEF Offer, ProcSame
<1>8. Fed'
  BY <1>3, FedFrame DEF Offer, JobSame
<1>9. WindowsAgree' /\ Streaming' = Streaming /\ \A d \in Clients : Coming(d)' = Coming(d)
  BY Zenon DEF Attended, WindowsAgree, Offer, Streaming, Coming
<1>10. \A i \in DOMAIN feed'.offered : i = 1 /\ mux'.writer[feed'.offered[i]] = "none"
  BY <1>1, <1>3, Zenon DEF Offer
<1>11. Attended'
  BY <1>9, <1>10, Zenon DEF Attended, Offer
<1> QED
  BY <1>5, <1>6, <1>7, <1>8, <1>11

(***************************************************************************)
(* The mux and the writer tasks of its clients.                            *)
(***************************************************************************)

\* A step of the mux or of the terminal alone.
LEMMA MuxKept ==
    ASSUME Whole, ShapeMux(mux)', Attended', ShapeTty(tty)',
           Len(tty'.input) <= InputCapacity, (upsets.failed \in BOOLEAN)',
           upsets.failed => upsets'.failed,
           UNCHANGED <<placeVars, proc, out, job, stop, feed>>
    PROVE  Whole'
<1> USE DEF Whole
<1>1. Shape'
  BY DEF Shape, placeVars
<1>2. Stage'
  BY DEF Stage, placeVars, Streaming
<1>3. Record'
  BY RecordFrame DEF ProcSame
<1>4. Fed'
  BY FedFrame DEF FeedSame, JobSame
<1> QED
  BY <1>1, <1>2, <1>3, <1>4, SMTT(30)

\* Attended, one client at a time.
Served(c, m, s, h, t, mode) ==
    /\ m.writer[c] # "on" => m.initial[c] = <<>> /\ m.queue[c] = <<>>
    /\ m.writer[c] = "none" =>
         m.seen[c] = NothingSeen /\ c \notin m.tokens /\ c \notin m.cancelled
    /\ m.writer[c] = "on" /\ c \notin m.cancelled => c \in m.recv
    /\ c \in m.recv => c \in m.tokens
    /\ c \in m.recv /\ c \in ReadOnly => c \in m.ro
    /\ ~s /\ c \notin m.cancelled =>
         /\ ~m.seen[c].gap
         /\ m.writer[c] = "on" => Follows(m.initial[c] \o m.queue[c], m.seen[c].chunk, h)
    /\ m.writer[c] = "on" /\ mode = "interactive" /\ t.sized =>
         LastSize(m.seen[c].size, m.initial[c] \o m.queue[c], t.size)

Typing(t) ==
    /\ \A i \in DOMAIN t.input : t.input[i] \notin ReadOnly
    /\ \A i \in DOMAIN t.typed : t.typed[i] \notin ReadOnly

\* What it means that the clients are served, client by client.
LEMMA AttendedServed ==
    ASSUME Attended
    PROVE  /\ Streaming => \A c \in Clients : mux.writer[c] = "none"
           /\ \A c \in Clients :
                Served(c, mux, stop, out.hashed["stdout"], tty, job.mode)
           /\ \A i \in DOMAIN feed.offered : i = 1 /\ mux.writer[feed.offered[i]] = "none"
           /\ Typing(tty)
<1>1. /\ Streaming => \A c \in Clients : mux.writer[c] = "none"
      /\ \A i \in DOMAIN feed.offered : i = 1 /\ mux.writer[feed.offered[i]] = "none"
      /\ Typing(tty)
  BY Zenon DEF Attended, Typing
<1>2. ASSUME NEW c \in Clients
      PROVE  Served(c, mux, stop, out.hashed["stdout"], tty, job.mode)
  BY Zenon DEF Attended, Served, WindowsAgree, Coming
<1> QED
  BY <1>1, <1>2, Zenon

\* The same, of the next state.
LEMMA AttendedServedNext ==
    ASSUME Streaming' => \A c \in Clients : mux'.writer[c] = "none",
           \A c \in Clients :
             Served(c, mux', stop', out'.hashed["stdout"], tty', job'.mode),
           \A i \in DOMAIN feed'.offered : i = 1 /\ mux'.writer[feed'.offered[i]] = "none",
           Typing(tty')
    PROVE  Attended'
<1>1. WindowsAgree'
  BY Zenon DEF Served, WindowsAgree, Coming
<1>2. ASSUME NEW c \in Clients
      PROVE  /\ mux'.writer[c] # "on" => mux'.initial[c] = <<>> /\ mux'.queue[c] = <<>>
             /\ mux'.writer[c] = "none" =>
                  mux'.seen[c] = NothingSeen /\ c \notin mux'.tokens /\ c \notin mux'.cancelled
             /\ mux'.writer[c] = "on" /\ c \notin mux'.cancelled => c \in mux'.recv
             /\ c \in mux'.recv => c \in mux'.tokens
             /\ c \in mux'.recv /\ c \in ReadOnly => c \in mux'.ro
             /\ ~stop' /\ c \notin mux'.cancelled =>
                  /\ ~mux'.seen[c].gap
                  /\ mux'.writer[c] = "on" =>
                       Follows(Coming(c)', mux'.seen[c].chunk, out'.hashed["stdout"])
  BY <1>2, Zenon DEF Served, Coming
<1> QED
  BY <1>1, <1>2, Zenon DEF Attended, Typing

\* A step that changes what the mux holds for c, and nothing else.
OthersSame(c) ==
    \A d \in Clients \ {c} :
        /\ mux'.writer[d] = mux.writer[d] /\ mux'.initial[d] = mux.initial[d]
        /\ mux'.queue[d] = mux.queue[d] /\ mux'.seen[d] = mux.seen[d]
        /\ (d \in mux'.recv) = (d \in mux.recv) /\ (d \in mux'.ro) = (d \in mux.ro)
        /\ (d \in mux'.tokens) = (d \in mux.tokens)
        /\ (d \in mux'.cancelled) = (d \in mux.cancelled)

\* A step that serves one client and leaves the others alone keeps the invariant.
LEMMA ClientKept ==
    ASSUME Whole, NEW c \in Clients, ShapeMux(mux)', OthersSame(c),
           Served(c, mux', stop, out.hashed["stdout"], tty, job.mode),
           (mux'.writer[c] = "none") = (mux.writer[c] = "none"),
           (upsets.failed \in BOOLEAN)', upsets.failed => upsets'.failed,
           UNCHANGED <<placeVars, proc, out, job, stop, feed, tty>>
    PROVE  Whole'
<1>1. /\ Streaming => \A d \in Clients : mux.writer[d] = "none"
      /\ \A d \in Clients :
           Served(d, mux, stop, out.hashed["stdout"], tty, job.mode)
      /\ \A i \in DOMAIN feed.offered : i = 1 /\ mux.writer[feed.offered[i]] = "none"
      /\ Typing(tty)
  BY AttendedServed, Zenon DEF Whole
<1>2. \A d \in Clients : (mux'.writer[d] = "none") = (mux.writer[d] = "none")
  BY Zenon DEF OthersSame
<1>3. Streaming' => \A d \in Clients : mux'.writer[d] = "none"
  <2>1. Streaming' = Streaming
    BY Zenon DEF Streaming
  <2> QED
    BY <1>1, <1>2, <2>1, Zenon
<1>4. ASSUME NEW d \in Clients
      PROVE  Served(d, mux', stop', out'.hashed["stdout"], tty', job'.mode)
  <2>1. CASE d = c
    BY <2>1, Zenon
  <2>2. CASE d # c
    <3>1. /\ mux'.writer[d] = mux.writer[d] /\ mux'.initial[d] = mux.initial[d]
          /\ mux'.queue[d] = mux.queue[d] /\ mux'.seen[d] = mux.seen[d]
          /\ (d \in mux'.recv) = (d \in mux.recv) /\ (d \in mux'.ro) = (d \in mux.ro)
          /\ (d \in mux'.tokens) = (d \in mux.tokens)
          /\ (d \in mux'.cancelled) = (d \in mux.cancelled)
      BY <2>2, Zenon DEF OthersSame
    <3>2. Served(d, mux, stop, out.hashed["stdout"], tty, job.mode)
      BY <1>1
    <3> QED
      BY <3>1, <3>2, Zenon DEF Served
  <2> QED
    BY <2>1, <2>2
<1>5. \A i \in DOMAIN feed'.offered : i = 1 /\ mux'.writer[feed'.offered[i]] = "none"
  <2>1. feed.offered \in Seq(Clients) /\ feed' = feed
    BY SMTT(30) DEF Whole, Shape, ShapeFeed
  <2>2. \A i \in DOMAIN feed.offered : feed.offered[i] \in Clients
    BY <2>1
  <2> QED
    BY <1>1, <1>2, <2>1, <2>2, Zenon
<1>6. Typing(tty')
  BY <1>1
<1>7. Attended'
  BY <1>3, <1>4, <1>5, <1>6, AttendedServedNext, Zenon
<1> QED
  BY <1>7, MuxKept, Zenon DEF Whole, Shape, Stage

\* The end of a client's writer keeps the invariant.
LEMMA WriterEndKept == ASSUME Whole, NEW c \in Clients, WriterEnd(c) PROVE Whole'
<1> DEFINE w == [mux.writer EXCEPT ![c] = "done"]
<1> DEFINE i == [mux.initial EXCEPT ![c] = <<>>]
<1> DEFINE q == [mux.queue EXCEPT ![c] = <<>>]
<1>1. ShapeMux(mux) /\ upsets.failed \in BOOLEAN
  BY DEF Whole, Shape
<1>2. /\ mux.writer \in [Clients -> {"none", "on", "done"}]
      /\ mux.initial \in [Clients -> Seq(Message)]
      /\ mux.queue \in [Clients -> Seq(Message)]
  BY <1>1, Zenon DEF ShapeMux
<1>3. <<>> \in Seq(Message)
  OBVIOUS
<1>4. /\ w \in [Clients -> {"none", "on", "done"}] /\ i \in [Clients -> Seq(Message)]
      /\ q \in [Clients -> Seq(Message)]
      /\ w[c] = "done" /\ i[c] = <<>> /\ q[c] = <<>>
      /\ \A d \in Clients \ {c} :
           w[d] = mux.writer[d] /\ i[d] = mux.initial[d] /\ q[d] = mux.queue[d]
  BY <1>2, <1>3, Zenon
<1>5. mux' = [mux EXCEPT !.writer = w, !.initial = i, !.queue = q]
  BY Zenon DEF WriterEnd
<1> HIDE DEF w, i, q
<1>6. ShapeMux(mux')
  BY <1>1, <1>4, <1>5, Zenon DEF ShapeMux
<1>7. /\ mux'.writer = w /\ mux'.initial = i /\ mux'.queue = q
      /\ mux'.recv = mux.recv /\ mux'.ro = mux.ro /\ mux'.tokens = mux.tokens
      /\ mux'.cancelled = mux.cancelled /\ mux'.seen = mux.seen
  BY <1>1, <1>5, Zenon DEF ShapeMux
<1>8. OthersSame(c)
  BY <1>4, <1>7, Zenon DEF OthersSame
<1>9. Served(c, mux, stop, out.hashed["stdout"], tty, job.mode)
  BY AttendedServed DEF Whole
<1>10. mux.writer[c] = "on"
  BY DEF WriterEnd
<1>11. Served(c, mux', stop, out.hashed["stdout"], tty, job.mode)
  BY <1>4, <1>7, <1>9, <1>10, Zenon DEF Served
<1>12. (upsets.failed \in BOOLEAN)' /\ (upsets.failed => upsets'.failed)
  BY <1>1, Faulty, Zenon DEF WriterEnd
<1> QED
  BY <1>4, <1>6, <1>7, <1>8, <1>10, <1>11, <1>12, ClientKept, Zenon DEF WriterEnd, ShapeMux

\* Removing a client keeps the invariant.
LEMMA ReapClientKept == ASSUME Whole, NEW c \in Clients, ReapClient(c) PROVE Whole'
<1>1. ShapeMux(mux) /\ upsets.failed \in BOOLEAN
  BY DEF Whole, Shape
<1>2. mux' = [mux EXCEPT !.recv = mux.recv \ {c}, !.ro = mux.ro \ {c},
                         !.tokens = mux.tokens \ {c}]
  BY Zenon DEF ReapClient
<1>3. ShapeMux(mux')
  BY <1>1, <1>2, Zenon DEF ShapeMux
<1>4. /\ mux'.writer = mux.writer /\ mux'.initial = mux.initial
      /\ mux'.queue = mux.queue /\ mux'.cancelled = mux.cancelled
      /\ mux'.seen = mux.seen /\ mux'.recv = mux.recv \ {c}
      /\ mux'.ro = mux.ro \ {c} /\ mux'.tokens = mux.tokens \ {c}
  BY <1>1, <1>2, Zenon DEF ShapeMux
<1>5. OthersSame(c)
  BY <1>4 DEF OthersSame
<1>6. Served(c, mux, stop, out.hashed["stdout"], tty, job.mode)
  BY AttendedServed DEF Whole
<1>7. Served(c, mux', stop, out.hashed["stdout"], tty, job.mode)
  BY <1>4, <1>6, Zenon DEF Served, ReapClient
<1> QED
  BY <1>1, <1>3, <1>4, <1>5, <1>7, ClientKept, Zenon DEF ReapClient, ShapeMux

\* What a message does to what a client has seen.
LEMMA SeeingShape ==
    ASSUME NEW v \in View, NEW m \in Message
    PROVE  /\ Seeing(v, m) \in View
           /\ Seeing(v, m).chunk = IF m.kind = "stdout" THEN m.val ELSE v.chunk
           /\ Seeing(v, m).size = IF m.kind = "size" THEN m.val ELSE v.size
           /\ Seeing(v, m).gap =
                IF m.kind = "stdout" THEN v.gap \/ m.val # v.chunk + 1 ELSE v.gap
<1>1. m.kind \in {"stdout", "size"} => m.val \in Nat
  BY DEF Message, Streams
<1>2. CASE m.kind = "stdout"
  <2> DEFINE n == m.val
  <2> DEFINE g == v.gap \/ m.val # v.chunk + 1
  <2>1. n \in Nat /\ g \in BOOLEAN
    BY <1>1, <1>2
  <2>2. m.kind # "size"
    BY <1>2
  <2>3. Seeing(v, m) = [v EXCEPT !.chunk = n, !.gap = g]
    BY <1>2, <2>2, Zenon DEF Seeing
  <2> HIDE DEF n, g
  <2>4. Seeing(v, m) \in View
    BY <2>1, <2>3, Zenon DEF View
  <2>5. Seeing(v, m).chunk = n /\ Seeing(v, m).size = v.size /\ Seeing(v, m).gap = g
    BY <2>3, Zenon DEF View
  <2> QED
    BY <1>2, <2>2, <2>4, <2>5, Zenon DEF n, g
<1>3. CASE m.kind = "size"
  <2> DEFINE n == m.val
  <2>1. n \in Nat
    BY <1>1, <1>3
  <2>2. m.kind # "stdout"
    BY <1>3
  <2>3. Seeing(v, m) = [v EXCEPT !.size = n]
    BY <1>3, <2>2, Zenon DEF Seeing
  <2> HIDE DEF n
  <2>4. Seeing(v, m) \in View
    BY <2>1, <2>3, Zenon DEF View
  <2>5. Seeing(v, m).chunk = v.chunk /\ Seeing(v, m).size = n /\ Seeing(v, m).gap = v.gap
    BY <2>3, Zenon DEF View
  <2> QED
    BY <1>3, <2>2, <2>4, <2>5, Zenon DEF n
<1>4. CASE m.kind # "stdout" /\ m.kind # "size"
  <2>1. Seeing(v, m) = v
    BY <1>4, Zenon DEF Seeing
  <2> QED
    BY <1>4, <2>1, Zenon
<1> QED
  BY <1>2, <1>3, <1>4, Zenon

\* What follows the first message of what is coming, once it has been sent.
LEMMA ServedNext ==
    ASSUME NEW q \in Seq(Message), NEW v \in View, NEW h \in Nat, NEW size, q # <<>>
    PROVE  /\ Head(q) \in Message
           /\ Follows(q, v.chunk, h) /\ ~v.gap =>
                /\ Follows(Tail(q), Seeing(v, Head(q)).chunk, h)
                /\ ~Seeing(v, Head(q)).gap
           /\ LastSize(v.size, q, size) => LastSize(Seeing(v, Head(q)).size, Tail(q), size)
<1> DEFINE m == Head(q)
<1>1. m \in Message
  OBVIOUS
<1>2. v.chunk \in Nat
  BY DEF View
<1>3. Follows(q, v.chunk, h) =>
        IF m.kind = "stdout"
        THEN m.val = v.chunk + 1 /\ Follows(Tail(q), m.val, h)
        ELSE Follows(Tail(q), v.chunk, h)
  BY <1>2, FollowsTail
<1>4. LastSize(v.size, q, size) =>
        LastSize(IF m.kind = "size" THEN m.val ELSE v.size, Tail(q), size)
  BY SizeTail
<1> HIDE DEF m
<1>5. /\ Seeing(v, m).chunk = IF m.kind = "stdout" THEN m.val ELSE v.chunk
      /\ Seeing(v, m).size = IF m.kind = "size" THEN m.val ELSE v.size
      /\ Seeing(v, m).gap =
           IF m.kind = "stdout" THEN v.gap \/ m.val # v.chunk + 1 ELSE v.gap
  BY <1>1, SeeingShape, Zenon
<1>6. LastSize(v.size, q, size) => LastSize(Seeing(v, m).size, Tail(q), size)
  BY <1>4, <1>5, Zenon
<1>7. ASSUME Follows(q, v.chunk, h), ~v.gap
      PROVE  Follows(Tail(q), Seeing(v, m).chunk, h) /\ ~Seeing(v, m).gap
  BY <1>3, <1>5, <1>7, Zenon
<1> QED
  BY <1>1, <1>6, <1>7, Zenon DEF m

\* Sending a client its next message keeps the invariant.
LEMMA WriterSendKept == ASSUME Whole, NEW c \in Clients, WriterSend(c) PROVE Whole'
<1> DEFINE all == mux.initial[c] \o mux.queue[c]
<1> DEFINE m == Head(all)
<1> DEFINE v == mux.seen[c]
<1> DEFINE i == [mux.initial EXCEPT ![c] = IF @ # <<>> THEN Tail(@) ELSE @]
<1> DEFINE q == [mux.queue EXCEPT ![c] = IF mux.initial[c] # <<>> THEN @ ELSE Tail(@)]
<1> DEFINE s == [mux.seen EXCEPT ![c] = Seeing(v, m)]
<1>1. ShapeMux(mux) /\ out.hashed["stdout"] \in Nat
  BY DEF Whole, Shape, ShapeOut, Streams
<1>2. /\ mux.initial \in [Clients -> Seq(Message)] /\ mux.seen \in [Clients -> View]
      /\ mux.queue \in [Clients -> Seq(Message)] /\ mux.writer[c] = "on"
  BY <1>1, Zenon DEF ShapeMux, WriterSend
<1>3. mux.initial[c] \in Seq(Message) /\ mux.queue[c] \in Seq(Message) /\ v \in View
  BY <1>2, Zenon
<1>4. mux.initial[c] # <<>> \/ (mux.initial[c] = <<>> /\ mux.queue[c] # <<>>)
  BY Zenon DEF WriterSend
<1>5. PICK any \in Message : TRUE
  <2>1. [kind |-> "close"] \in Message
    BY DEF Message
  <2> QED
    BY <2>1
<1>6. /\ all \in Seq(Message)
      /\ mux.initial[c] # <<>> => /\ all # <<>> /\ m = Head(mux.initial[c])
                                  /\ Tail(mux.initial[c]) \o mux.queue[c] = Tail(all)
      /\ mux.initial[c] = <<>> => all = mux.queue[c]
  BY <1>3, <1>5, ConcatEnds, Zenon
<1>7. all # <<>>
  BY <1>4, <1>6, Zenon
<1>8. m \in Message
  <2> HIDE DEF all
  <2> QED
    BY <1>6, <1>7
<1>9. Seeing(v, m) \in View
  BY <1>3, <1>8, SeeingShape, Zenon
<1>10. /\ mux.initial[c] # <<>> => Tail(mux.initial[c]) \in Seq(Message)
       /\ mux.queue[c] # <<>> => Tail(mux.queue[c]) \in Seq(Message)
  BY <1>3
<1>11. Tail(mux.queue[c]) = <<>> \o Tail(mux.queue[c]) \/ mux.queue[c] = <<>>
  BY <1>3
<1> HIDE DEF m
<1>12. /\ i \in [Clients -> Seq(Message)] /\ q \in [Clients -> Seq(Message)]
       /\ s \in [Clients -> View] /\ s[c] = Seeing(v, m)
       /\ \A d \in Clients \ {c} :
            i[d] = mux.initial[d] /\ q[d] = mux.queue[d] /\ s[d] = mux.seen[d]
  <2>1. (IF mux.initial[c] # <<>> THEN Tail(mux.initial[c]) ELSE mux.initial[c]) \in Seq(Message)
    BY <1>3, <1>10, Zenon
  <2>2. (IF mux.initial[c] # <<>> THEN mux.queue[c] ELSE Tail(mux.queue[c])) \in Seq(Message)
    BY <1>3, <1>4, <1>10, ZenonT(30)
  <2> QED
    BY <1>2, <1>9, <2>1, <2>2, Zenon
<1>13. i[c] \o q[c] = Tail(all)
  <2>1. CASE mux.initial[c] # <<>>
    <3>1. i[c] = Tail(mux.initial[c]) /\ q[c] = mux.queue[c]
      BY <1>2, <2>1, Zenon
    <3> QED
      BY <1>6, <2>1, <3>1, Zenon
  <2>2. CASE mux.initial[c] = <<>>
    <3>1. i[c] = <<>> /\ q[c] = Tail(mux.queue[c])
      BY <1>2, <2>2, Zenon
    <3> QED
      BY <1>4, <1>6, <1>11, <2>2, <3>1, Zenon
  <2> QED
    BY <2>1, <2>2, Zenon
<1>14. mux' = [mux EXCEPT !.seen = s, !.initial = i, !.queue = q]
  <2>1. CASE mux.initial[c] # <<>>
    <3>1. mux' = [mux EXCEPT !.seen[c] = Seeing(@, Head(mux.initial[c])),
                             !.initial[c] = Tail(@)]
      BY <2>1, Zenon DEF WriterSend
    <3>2. /\ s = [mux.seen EXCEPT ![c] = Seeing(@, Head(mux.initial[c]))]
          /\ i = [mux.initial EXCEPT ![c] = Tail(@)]
      BY <1>6, <2>1, Zenon
    <3>3. q = mux.queue
      BY <1>2, <2>1, Zenon
    <3> HIDE DEF s, i, q
    <3> QED
      BY <1>1, <3>1, <3>2, <3>3, Zenon DEF ShapeMux
  <2>2. CASE mux.initial[c] = <<>>
    <3>1. mux' = [mux EXCEPT !.seen[c] = Seeing(@, Head(mux.queue[c])),
                             !.queue[c] = Tail(@)]
      BY <2>2, Zenon DEF WriterSend
    <3>2. /\ s = [mux.seen EXCEPT ![c] = Seeing(@, Head(mux.queue[c]))]
          /\ q = [mux.queue EXCEPT ![c] = Tail(@)]
      BY <1>6, <2>2, Zenon DEF m
    <3>3. i = mux.initial
      BY <1>2, <2>2, Zenon
    <3> HIDE DEF s, i, q
    <3> QED
      BY <1>1, <3>1, <3>2, <3>3, Zenon DEF ShapeMux
  <2> QED
    BY <2>1, <2>2
<1> HIDE DEF s, i, q
<1>15. ShapeMux(mux')
  BY <1>1, <1>12, <1>14, Zenon DEF ShapeMux
<1>16. /\ mux'.writer = mux.writer /\ mux'.initial = i /\ mux'.queue = q
       /\ mux'.recv = mux.recv /\ mux'.ro = mux.ro /\ mux'.tokens = mux.tokens
       /\ mux'.cancelled = mux.cancelled /\ mux'.seen = s
  BY <1>1, <1>14, Zenon DEF ShapeMux
<1>17. OthersSame(c)
  BY <1>12, <1>16, Zenon DEF OthersSame
<1>18. Served(c, mux, stop, out.hashed["stdout"], tty, job.mode)
  BY AttendedServed DEF Whole
<1> HIDE DEF all, v
<1>19. /\ Follows(all, v.chunk, out.hashed["stdout"]) /\ ~v.gap =>
            /\ Follows(Tail(all), s[c].chunk, out.hashed["stdout"]) /\ ~s[c].gap
       /\ LastSize(v.size, all, tty.size) => LastSize(s[c].size, Tail(all), tty.size)
  BY <1>1, <1>3, <1>6, <1>7, <1>12, ServedNext, Zenon DEF m
<1>20. Served(c, mux', stop, out.hashed["stdout"], tty, job.mode)
  BY <1>2, <1>12, <1>13, <1>16, <1>18, <1>19, Zenon DEF Served, all, v
<1> QED
  BY <1>15, <1>16, <1>17, <1>20, ClientKept DEF WriterSend, Whole, Shape

\* A client that leaves is cancelled: what its writer task still sends is not
\* promised anything.
LEMMA RemovedKept ==
    ASSUME Whole, NEW c \in mux.recv, NEW ro \in {mux.ro, mux.ro \ {c}},
           mux' = [Removed(mux, c) EXCEPT !.ro = ro], (upsets.failed \in BOOLEAN)',
           upsets.failed => upsets'.failed,
           UNCHANGED <<placeVars, proc, out, job, stop, feed, tty>>
    PROVE  Whole'
<1>1. ShapeMux(mux) /\ c \in Clients
  BY DEF Whole, Shape, ShapeMux
<1>2. Served(c, mux, stop, out.hashed["stdout"], tty, job.mode)
  BY <1>1, AttendedServed DEF Whole
<1>3. c \in mux.tokens /\ mux.writer[c] # "none"
  BY <1>2, Zenon DEF Served
<1> DEFINE left == mux.cancelled \cup {c}
<1>4. mux' = [mux EXCEPT !.recv = mux.recv \ {c}, !.ro = ro, !.tokens = mux.tokens \ {c},
                         !.cancelled = left]
  <2>1. Removed(mux, c) =
          [mux EXCEPT !.recv = mux.recv \ {c}, !.ro = mux.ro \ {c},
                      !.tokens = mux.tokens \ {c}, !.cancelled = left]
    BY <1>3, Zenon DEF Removed
  <2> HIDE DEF left
  <2> QED
    BY <1>1, <2>1, Zenon DEF ShapeMux
<1>5. left \in SUBSET Clients /\ ro \in SUBSET Clients
  BY <1>1 DEF ShapeMux
<1> HIDE DEF left
<1>6. ShapeMux(mux')
  BY <1>1, <1>4, <1>5, Zenon DEF ShapeMux
<1>7. /\ mux'.writer = mux.writer /\ mux'.initial = mux.initial
      /\ mux'.queue = mux.queue /\ mux'.cancelled = left
      /\ mux'.seen = mux.seen /\ mux'.recv = mux.recv \ {c}
      /\ mux'.ro = ro /\ mux'.tokens = mux.tokens \ {c}
  BY <1>1, <1>4, Zenon DEF ShapeMux
<1>8. OthersSame(c)
  BY <1>7 DEF OthersSame, left
<1>9. Served(c, mux', stop, out.hashed["stdout"], tty, job.mode)
  <2>1. c \in left
    BY DEF left
  <2> QED
    BY <1>2, <1>3, <1>7, <2>1, Zenon DEF Served
<1> QED
  BY <1>1, <1>6, <1>7, <1>8, <1>9, ClientKept

\* The terminal's input and what has been typed change; its size does not.
LEMMA InputKept ==
    ASSUME Whole, NEW i \in Seq(Clients), NEW t \in Seq(Clients),
           tty' = [tty EXCEPT !.input = i, !.typed = t], Len(i) <= InputCapacity,
           \A n \in DOMAIN i : i[n] \notin ReadOnly,
           \A n \in DOMAIN t : t[n] \notin ReadOnly,
           (upsets.failed \in BOOLEAN)', upsets.failed => upsets'.failed,
           UNCHANGED <<placeVars, proc, out, job, stop, feed, mux>>
    PROVE  Whole'
<1>1. ShapeTty(tty) /\ ShapeMux(mux)
  BY DEF Whole, Shape
<1>2. /\ ShapeTty(tty') /\ tty'.input = i /\ tty'.typed = t
      /\ tty'.size = tty.size /\ tty'.sized = tty.sized
  BY <1>1, Zenon DEF ShapeTty
<1>3. /\ Streaming => \A d \in Clients : mux.writer[d] = "none"
      /\ \A d \in Clients :
           Served(d, mux, stop, out.hashed["stdout"], tty, job.mode)
      /\ \A j \in DOMAIN feed.offered : j = 1 /\ mux.writer[feed.offered[j]] = "none"
  BY AttendedServed DEF Whole
<1>4. Streaming' = Streaming
  BY Zenon DEF Streaming
<1>5. Typing(tty')
  BY <1>2, Zenon DEF Typing
<1>6. \A d \in Clients : Served(d, mux', stop', out'.hashed["stdout"], tty', job'.mode)
  BY <1>2, <1>3, Zenon DEF Served
<1>7. Attended'
  BY <1>3, <1>4, <1>5, <1>6, AttendedServedNext, Zenon
<1> QED
  BY <1>1, <1>2, <1>7, MuxKept

\* Relaying input to the job keeps the invariant.
LEMMA RelayInputKept == Whole /\ RelayInput => Whole'
<1> SUFFICES ASSUME Whole, RelayInput PROVE Whole'
  OBVIOUS
<1> DEFINE i == Tail(tty.input)
<1> DEFINE t == Append(tty.typed, Head(tty.input))
<1>1. /\ tty.input \in Seq(Clients) /\ tty.typed \in Seq(Clients) /\ tty.input # <<>>
      /\ InputCapacity \in Nat /\ Len(tty.input) <= InputCapacity
  BY JobRunnerAssumption DEF Whole, Shape, ShapeTty, RelayInput, Stage
<1>2. Typing(tty)
  BY AttendedServed DEF Whole
<1>3. i \in Seq(Clients) /\ t \in Seq(Clients) /\ Len(i) <= InputCapacity
  BY <1>1
<1>4. \A n \in DOMAIN i : i[n] \notin ReadOnly
  <2>1. \A n \in DOMAIN i : n + 1 \in DOMAIN tty.input /\ i[n] = tty.input[n + 1]
    BY <1>1
  <2> QED
    BY <1>2, <2>1 DEF Typing
<1>5. \A n \in DOMAIN t : t[n] \notin ReadOnly
  <2>1. 1 \in DOMAIN tty.input /\ Head(tty.input) = tty.input[1]
    BY <1>1
  <2>2. \A n \in DOMAIN t : \/ n \in DOMAIN tty.typed /\ t[n] = tty.typed[n]
                            \/ t[n] = Head(tty.input)
    BY <1>1
  <2> QED
    BY <1>2, <2>1, <2>2, Zenon DEF Typing
<1>6. tty' = [tty EXCEPT !.input = i, !.typed = t]
  BY Zenon DEF RelayInput
<1> HIDE DEF i, t
<1> QED
  BY <1>3, <1>4, <1>5, <1>6, InputKept, Zenon DEF RelayInput, Whole, Shape

\* A message of a client keeps the invariant.
LEMMA ClientMessageKept ==
    ASSUME Whole, NEW c \in Clients, NEW kind \in ClientKinds, ClientMessage(c, kind)
    PROVE  Whole'
<1>1. /\ upsets.failed \in BOOLEAN /\ ShapeMux(mux) /\ ShapeTty(tty)
      /\ out.hashed["stdout"] \in Nat
  BY DEF Whole, Shape, ShapeOut, Streams
<1>2. (upsets.failed \in BOOLEAN)' /\ (upsets.failed => upsets'.failed)
  BY <1>1, Upsets, Zenon DEF ClientMessage
<1>3. /\ c \in mux.recv
      /\ UNCHANGED <<placeVars, proc, out, job, stop, feed>>
  BY Zenon DEF ClientMessage
<1>4. CASE kind = "close"
  <2>1. mux' = Removed(mux, c) /\ UNCHANGED tty
    BY <1>4 DEF ClientMessage
  <2>2. Removed(mux, c) = [Removed(mux, c) EXCEPT !.ro = mux.ro \ {c}]
    BY <1>1, Zenon DEF Removed, ShapeMux
  <2> QED
    BY <1>2, <1>3, <2>1, <2>2, RemovedKept
<1>5. CASE kind = "gone"
  <2>1. mux' = [Removed(mux, c) EXCEPT !.ro = mux.ro] /\ UNCHANGED tty
    BY <1>5 DEF ClientMessage
  <2> QED
    BY <1>2, <1>3, <2>1, RemovedKept, Zenon
<1>6. CASE kind = "data"
  <2> DEFINE i == IF c \notin mux.ro THEN WriteInput(c) ELSE tty.input
  <2>1. tty' = [tty EXCEPT !.input = i] /\ UNCHANGED mux
    BY <1>6 DEF ClientMessage
  <2>2. /\ tty.input \in Seq(Clients) /\ tty.typed \in Seq(Clients)
        /\ InputCapacity \in Nat /\ Len(tty.input) <= InputCapacity
    BY <1>1, JobRunnerAssumption, SMTT(30) DEF Whole, ShapeTty, Stage
  <2>3. Typing(tty) /\ Served(c, mux, stop, out.hashed["stdout"], tty, job.mode)
    BY AttendedServed DEF Whole
  <2>4. c \notin mux.ro => c \notin ReadOnly
    BY <1>3, <2>3, Zenon DEF Served
  <2>5. i \in Seq(Clients) /\ Len(i) <= InputCapacity
    BY <2>2 DEF WriteInput
  <2>6. \A n \in DOMAIN i : i[n] \notin ReadOnly
    <3>1. i = tty.input \/ (i = Append(tty.input, c) /\ c \notin ReadOnly)
      BY <2>4, Zenon DEF WriteInput
    <3>2. \A n \in DOMAIN Append(tty.input, c) :
             \/ n \in DOMAIN tty.input /\ Append(tty.input, c)[n] = tty.input[n]
             \/ Append(tty.input, c)[n] = c
      BY <2>2
    <3> HIDE DEF i
    <3> QED
      BY <2>3, <3>1, <3>2, Zenon DEF Typing
  <2> HIDE DEF i
  <2>7. tty' = [tty EXCEPT !.input = i, !.typed = tty.typed]
    BY <1>1, <2>1, Zenon DEF ShapeTty
  <2> QED
    BY <1>2, <1>3, <2>1, <2>2, <2>3, <2>5, <2>6, <2>7, InputKept, Zenon DEF Typing
<1>7. CASE kind = "size" /\ c \in mux.ro
  <2>1. UNCHANGED <<tty, mux>>
    BY <1>7 DEF ClientMessage
  <2>2. Attended'
    BY <1>3, <2>1, AttendedFrame, SMTT(30) DEF Whole
  <2> QED
    BY <1>1, <1>2, <1>3, <2>1, <2>2, MuxKept, Zenon DEF Whole, Stage
<1>8. CASE kind = "size" /\ c \notin mux.ro
  <2>1. PICK size \in Sizes : /\ tty' = [tty EXCEPT !.size = size]
                              /\ mux' = Relayed(mux, WindowChange(size))
    BY <1>8 DEF ClientMessage
  <2>2. size \in Nat
    BY <2>1 DEF Sizes
  <2>3. ShapeTty(tty') /\ tty'.input = tty.input /\ tty'.typed = tty.typed
        /\ tty'.size = size /\ tty'.sized = tty.sized
    BY <1>1, <2>1, <2>2, Zenon DEF ShapeTty
  <2> DEFINE m == WindowChange(size)
  <2>4. m \in Message /\ m.kind = "size" /\ m.val = size /\ m.kind # "stdout"
    BY <2>2 DEF WindowChange, Message
  <2> HIDE DEF m
  <2>5. mux' = Relayed(mux, m)
    BY <2>1, Zenon DEF m
  <2>6. Attended' /\ ShapeMux(mux)'
    BY <1>1, <1>3, <2>3, <2>4, <2>5, RelayAttended DEF Announces
  <2> QED
    BY <1>2, <1>3, <2>3, <2>6, MuxKept, Zenon DEF Whole, Stage
<1> QED
  BY <1>4, <1>5, <1>6, <1>7, <1>8, Zenon DEF ClientKinds

\* A size that cannot be set keeps the invariant.
LEMMA ResizeFailsKept == ASSUME Whole, NEW c \in Clients, ResizeFails(c) PROVE Whole'
<1>1. /\ upsets.failed \in BOOLEAN /\ ShapeMux(mux) /\ ShapeTty(tty)
      /\ out.hashed["stdout"] \in Nat
  BY DEF Whole, Shape, ShapeOut, Streams
<1>2. upsets'.failed = TRUE
  BY <1>1, Faulty, Zenon DEF ResizeFails
<1>3. UNCHANGED <<placeVars, proc, out, job, stop, feed>>
  BY Zenon DEF ResizeFails
<1>4. PICK size \in Sizes : mux' = Relayed(mux, WindowChange(size))
  BY Zenon DEF ResizeFails
<1>5. /\ ShapeTty(tty') /\ tty'.input = tty.input /\ tty'.typed = tty.typed
      /\ tty'.sized = FALSE
  BY <1>1, Zenon DEF ShapeTty, ResizeFails
<1> DEFINE m == WindowChange(size)
<1>6. m \in Message /\ m.kind = "size" /\ m.kind # "stdout"
  BY <1>4 DEF WindowChange, Message, Sizes
<1> HIDE DEF m
<1>7. mux' = Relayed(mux, m)
  BY <1>4, Zenon DEF m
<1>8. Attended' /\ ShapeMux(mux)'
  BY <1>1, <1>3, <1>5, <1>6, <1>7, RelayAttended DEF Announces
<1> QED
  BY <1>2, <1>3, <1>5, <1>8, MuxKept, Zenon DEF Whole, Stage

(***************************************************************************)
(* A client attaches: it is sent the window size, then the end of the      *)
(* recorded output, and from then on what the loop relays.                 *)
(***************************************************************************)

\* The last chunks of a file are its tail.
LEMMA LastOfFacts ==
    ASSUME NEW f \in Seq(Nat), NEW k \in Nat \ {0}
    PROVE  /\ LastOf(f, k) \in Seq(Nat) /\ Len(LastOf(f, k)) <= Len(f)
           /\ \A i \in 1 .. Len(LastOf(f, k)) :
                LastOf(f, k)[i] = f[Len(f) - Len(LastOf(f, k)) + i]
<1> DEFINE a == IF Len(f) > k THEN Len(f) - k + 1 ELSE 1
<1> DEFINE r == SubSeq(f, a, Len(f))
<1>1. LastOf(f, k) = r
  BY Zenon DEF LastOf
<1>2. Len(f) \in Nat /\ a \in Nat /\ 1 <= a /\ a <= Len(f) + 1
  OBVIOUS
<1> HIDE DEF a
<1>3. /\ r \in Seq(Nat) /\ Len(r) = Len(f) - a + 1
      /\ \A i \in 1 .. Len(r) : r[i] = f[a + i - 1]
  BY <1>2
<1> HIDE DEF r
<1>4. Len(r) \in Nat /\ Len(r) <= Len(f)
  BY <1>2, <1>3
<1>5. ASSUME NEW i \in 1 .. Len(r)
      PROVE  r[i] = f[Len(f) - Len(r) + i]
  <2>1. a + i - 1 = Len(f) - Len(r) + i
    BY <1>2, <1>3, <1>4
  <2> QED BY <1>3, <2>1
<1> QED BY <1>1, <1>3, <1>4, <1>5, Zenon

\* The playback is the tail of the file, as messages (Mux::playback_buffer).
LEMMA PlaybackFacts ==
    ASSUME NEW f \in Seq(Nat)
    PROVE  /\ PlaybackBuffer(f) \in Seq(Message)
           /\ Len(PlaybackBuffer(f)) \in Nat /\ Len(PlaybackBuffer(f)) <= Len(f)
           /\ \A i \in 1 .. Len(PlaybackBuffer(f)) :
                /\ PlaybackBuffer(f)[i].kind = "stdout"
                /\ PlaybackBuffer(f)[i].val = f[Len(f) - Len(PlaybackBuffer(f)) + i]
<1> DEFINE l == LastOf(f, Playback)
<1> DEFINE p == [i \in 1 .. Len(l) |-> Data("stdout", l[i])]
<1>1. PlaybackBuffer(f) = p
  BY Zenon DEF PlaybackBuffer
<1>2. Playback \in Nat \ {0}
  BY JobRunnerAssumption
<1>3. /\ l \in Seq(Nat) /\ Len(l) <= Len(f)
      /\ \A i \in 1 .. Len(l) : l[i] = f[Len(f) - Len(l) + i]
  BY <1>2, LastOfFacts, SMTT(30)
<1> HIDE DEF l
<1>4. Len(l) \in Nat /\ \A i \in 1 .. Len(l) : l[i] \in Nat
  BY <1>3
<1>5. ASSUME NEW n \in Nat
      PROVE  /\ Data("stdout", n) \in Message /\ Data("stdout", n).kind = "stdout"
             /\ Data("stdout", n).val = n
  BY DEF Data, Message, Streams
<1>6. \A i \in 1 .. Len(l) : p[i] \in Message
  BY <1>4, <1>5, Zenon
<1>7. p \in Seq(Message) /\ Len(p) = Len(l)
  <2> DEFINE g(i) == Data("stdout", l[i])
  <2>1. \A i \in 1 .. Len(l) : g(i) \in Message
    BY <1>4, <1>5, Zenon
  <2>2. p = [i \in 1 .. Len(l) |-> g(i)]
    OBVIOUS
  <2> HIDE DEF g, p
  <2> QED
    BY <1>4, <2>1, <2>2
<1>8. \A i \in 1 .. Len(l) : p[i].kind = "stdout" /\ p[i].val = l[i]
  BY <1>4, <1>5, Zenon
<1> HIDE DEF p
<1> QED
  BY <1>1, <1>3, <1>4, <1>7, <1>8

\* Chunks h - Len(p) + 1 to h, after messages that are not output.
LEMMA AddedFollows ==
    ASSUME NEW i \in Seq(Message), NEW p \in Seq(Message), NEW h \in Nat, Len(p) <= h,
           \A n \in 1 .. Len(i) : i[n].kind # "stdout",
           \A n \in 1 .. Len(p) : p[n].kind = "stdout" /\ p[n].val = h - Len(p) + n
    PROVE  Follows(i \o p, h - Len(p), h)
<1> DEFINE q == i \o p
<1> DEFINE f == [n \in 0 .. Len(q) |-> IF n <= Len(i) THEN h - Len(p)
                                       ELSE h - Len(p) + n - Len(i)]
<1>1. Len(i) \in Nat /\ Len(p) \in Nat
  OBVIOUS
<1>2. /\ Len(q) = Len(i) + Len(p)
      /\ \A n \in 1 .. Len(i) : q[n] = i[n]
      /\ \A n \in Len(i) + 1 .. Len(q) : q[n] = p[n - Len(i)]
  OBVIOUS
<1> HIDE DEF q
<1>3. f \in [0 .. Len(q) -> 0 .. h] /\ f[0] = h - Len(p) /\ f[Len(q)] = h
  BY <1>1, <1>2
<1>4. ASSUME NEW n \in 1 .. Len(q), n <= Len(i)
      PROVE  f[n] = h - Len(p) /\ f[n - 1] = h - Len(p) /\ q[n].kind # "stdout"
  BY <1>1, <1>2, <1>4, SMTT(30)
<1>5. ASSUME NEW n \in 1 .. Len(q), n > Len(i)
      PROVE  /\ f[n] = h - Len(p) + n - Len(i) /\ f[n - 1] = f[n] - 1 /\ f[n] \in Nat
             /\ q[n].kind = "stdout" /\ q[n].val = f[n]
  <2>1. n - Len(i) \in 1 .. Len(p) /\ q[n] = p[n - Len(i)]
    BY <1>1, <1>2, <1>5
  <2>2. q[n].kind = "stdout" /\ q[n].val = h - Len(p) + (n - Len(i))
    BY <2>1
  <2>3. f[n] = h - Len(p) + n - Len(i) /\ f[n - 1] = h - Len(p) + (n - 1) - Len(i)
    <3>1. n \in 0 .. Len(q) /\ n - 1 \in 0 .. Len(q) /\ n \in Int /\ Len(i) <= n - 1
      BY <1>1, <1>2, <1>5
    <3>2. f[n] = h - Len(p) + n - Len(i)
      BY <1>1, <1>5, <3>1
    <3>3. f[n - 1] = IF n - 1 <= Len(i) THEN h - Len(p) ELSE h - Len(p) + (n - 1) - Len(i)
      BY <3>1, Zenon
    <3>4. f[n - 1] = h - Len(p) + (n - 1) - Len(i)
      <4>1. CASE n - 1 = Len(i)
        <5>1. f[n - 1] = h - Len(p)
          BY <1>1, <3>3, <4>1
        <5>2. h - Len(p) = h - Len(p) + (n - 1) - Len(i)
          BY <1>1, <3>1, <4>1
        <5> QED
          BY <5>1, <5>2, Zenon
      <4>2. CASE n - 1 # Len(i)
        <5>1. ~(n - 1 <= Len(i))
          BY <1>1, <3>1, <4>2, SMTT(30)
        <5> QED
          BY <3>3, <5>1, Zenon
      <4> QED
        BY <4>1, <4>2
    <3> QED
      BY <3>2, <3>4
  <2> QED
    BY <1>1, <1>5, <2>2, <2>3, SMTT(30)
<1> HIDE DEF f
<1>6. ASSUME NEW n \in 1 .. Len(q)
      PROVE  /\ f[n] = IF q[n].kind = "stdout" THEN q[n].val ELSE f[n - 1]
             /\ q[n].kind = "stdout" => q[n].val = f[n - 1] + 1
  <2>1. n <= Len(i) \/ n > Len(i)
    BY <1>1, <1>2
  <2> QED
    BY <1>4, <1>5, <2>1
<1>7. Follows(q, h - Len(p), h)
  BY <1>3, <1>6, SMTT(30) DEF Follows
<1> QED
  BY <1>7 DEF q

\* A size in front of a playback is the last size of the queue.
LEMMA AddedSize ==
    ASSUME NEW m \in Message, m.kind = "size", NEW p \in Seq(Message), NEW v,
           \A n \in 1 .. Len(p) : p[n].kind = "stdout"
    PROVE  LastSize(v, <<m>> \o p, m.val)
<1> DEFINE q == <<m>> \o p
<1>1. /\ DOMAIN q = 1 .. Len(p) + 1 /\ q[1] = m /\ Len(p) \in Nat
      /\ \A n \in 2 .. Len(p) + 1 : q[n] = p[n - 1] /\ n - 1 \in 1 .. Len(p)
  OBVIOUS
<1> HIDE DEF q
<1>2. \A n \in DOMAIN q : n = 1 \/ q[n].kind = "stdout"
  BY <1>1
<1>3. LastSize(v, q, m.val)
  <2>1. 1 \in DOMAIN q
    BY <1>1
  <2>2. "stdout" # "size"
    OBVIOUS
  <2> QED
    BY <1>1, <1>2, <2>1, <2>2, Zenon DEF LastSize
<1> QED
  BY <1>3 DEF q

\* What WebSocketMux::add leaves a new client with.
LEMMA AddedServed ==
    ASSUME Whole, ~Streaming, NEW c \in Clients, mux.writer[c] = "none",
           NEW p \in {<<>>, PlaybackBuffer(out.file["stdout"])},
           NEW i \in {<<>>, InitialSize}, mux' = Added(c, i, p),
           NEW t, (t = tty /\ i = InitialSize) \/ t.sized = FALSE
    PROVE  /\ ShapeMux(mux)' /\ OthersSame(c)
           /\ Served(c, mux', stop, out.hashed["stdout"], t, job.mode)
<1> DEFINE h == out.hashed["stdout"]
<1> DEFINE ch == h - Len(p)
<1> DEFINE se == [mux.seen EXCEPT ![c] = [mux.seen[c] EXCEPT !.chunk = ch]]
<1> DEFINE w == [mux.writer EXCEPT ![c] = "on"]
<1> DEFINE in == [mux.initial EXCEPT ![c] = i \o p]
<1>1. ShapeMux(mux) /\ h \in Nat /\ tty.size \in Nat /\ out.file["stdout"] \in Seq(Nat)
  BY DEF Whole, Shape, ShapeOut, Streams, ShapeTty
<1>2. /\ Len(out.file["stdout"]) <= h
      /\ ~stop => out.file["stdout"] = [n \in 1 .. h |-> n]
  BY DEF Whole, Record, RecordedStreams, Streams
<1>3. /\ mux.writer \in [Clients -> {"none", "on", "done"}]
      /\ mux.initial \in [Clients -> Seq(Message)] /\ mux.seen \in [Clients -> View]
      /\ mux.queue[c] \in Seq(Message)
  BY <1>1, Zenon DEF ShapeMux
<1>4. Served(c, mux, stop, h, tty, job.mode)
  BY AttendedServed DEF Whole
<1>5. /\ mux.seen[c] = NothingSeen /\ c \notin mux.cancelled /\ mux.queue[c] = <<>>
  BY <1>4, Zenon DEF Served
<1>6. /\ i \in Seq(Message) /\ \A n \in 1 .. Len(i) : i[n].kind # "stdout"
      /\ job.mode = "interactive" /\ t.sized => i = <<WindowChange(t.size)>> /\ t = tty
      /\ WindowChange(tty.size) \in Message /\ WindowChange(tty.size).kind = "size"
      /\ WindowChange(tty.size).val = tty.size
  <2>1. /\ WindowChange(tty.size) \in Message /\ WindowChange(tty.size).kind = "size"
        /\ WindowChange(tty.size).val = tty.size
    BY <1>1 DEF WindowChange, Message
  <2>2. i = <<>> \/ i = <<WindowChange(tty.size)>>
    BY Zenon DEF InitialSize
  <2>3. job.mode = "interactive" /\ t.sized => i = <<WindowChange(t.size)>> /\ t = tty
    BY Zenon DEF InitialSize
  <2> DEFINE m == WindowChange(tty.size)
  <2> HIDE DEF m
  <2>4. m \in Message /\ m.kind = "size" /\ i \in {<<>>, <<m>>}
    BY <2>1, <2>2 DEF m
  <2>5. i \in Seq(Message) /\ \A n \in 1 .. Len(i) : i[n].kind # "stdout"
    <3>1. CASE i = <<>>
      BY <3>1
    <3>2. CASE i = <<m>>
      <4>1. <<m>> \in Seq(Message) /\ Len(<<m>>) = 1 /\ <<m>>[1] = m
        BY <2>4
      <4>2. \A n \in 1 .. 1 : n = 1
        OBVIOUS
      <4>3. "size" # "stdout"
        OBVIOUS
      <4> QED
        BY <2>4, <3>2, <4>1, <4>2, <4>3, Zenon
    <3> QED
      BY <2>4, <3>1, <3>2
  <2> QED
    BY <2>1, <2>3, <2>5, SMTT(30)
<1>7. /\ p \in Seq(Message) /\ Len(p) \in Nat /\ Len(p) <= h
      /\ \A n \in 1 .. Len(p) : p[n].kind = "stdout"
      /\ ~stop => \A n \in 1 .. Len(p) : p[n].val = h - Len(p) + n
  <2>1. CASE p = <<>>
    BY <1>1, <2>1
  <2>2. CASE p = PlaybackBuffer(out.file["stdout"])
    <3> DEFINE f == out.file["stdout"]
    <3>1. /\ p \in Seq(Message) /\ Len(p) \in Nat /\ Len(p) <= Len(f)
          /\ \A n \in 1 .. Len(p) :
                p[n].kind = "stdout" /\ p[n].val = f[Len(f) - Len(p) + n]
      BY <1>1, <2>2, PlaybackFacts, Zenon
    <3> HIDE DEF f, h
    <3>2. Len(f) \in Nat /\ Len(f) <= h
      BY <1>1, <1>2 DEF f
    <3>3. ASSUME ~stop, NEW n \in 1 .. Len(p) PROVE p[n].val = h - Len(p) + n
      <4>1. f = [k \in 1 .. h |-> k]
        BY <1>2, <3>3, Zenon DEF f
      <4>2. Len(f) = h
        BY <1>1, <4>1
      <4>3. h - Len(p) + n \in 1 .. h
        BY <1>1, <3>1, <3>2, <4>2
      <4>4. f[h - Len(p) + n] = h - Len(p) + n
        BY <4>1, <4>3, Zenon
      <4> QED
        BY <3>1, <4>2, <4>4
    <3> QED
      BY <1>1, <3>1, <3>2, <3>3
  <2> QED
    BY <2>1, <2>2, Zenon
<1>8. ch \in Nat
  BY <1>1, <1>7
<1>9. i \o p \in Seq(Message) /\ (i \o p) \o <<>> = i \o p
  BY <1>6, <1>7
<1>10. ~stop => Follows(i \o p, ch, h)
  <2> HIDE DEF h
  <2> QED
    BY <1>1, <1>6, <1>7, AddedFollows DEF ch
<1>11. ASSUME job.mode = "interactive", t.sized PROVE LastSize(0, i \o p, t.size)
  <2> DEFINE m == WindowChange(t.size)
  <2> HIDE DEF m
  <2>1. m \in Message /\ m.kind = "size" /\ m.val = t.size /\ i = <<m>>
    BY <1>6, <1>11, Zenon DEF m
  <2>2. LastSize(0, <<m>> \o p, m.val)
    BY <1>7, <2>1, AddedSize, Zenon
  <2> QED
    BY <2>1, <2>2, Zenon
<1> HIDE DEF ch, h
<1>12. /\ [mux.seen[c] EXCEPT !.chunk = ch] \in View
       /\ [mux.seen[c] EXCEPT !.chunk = ch].chunk = ch
       /\ [mux.seen[c] EXCEPT !.chunk = ch].size = 0
       /\ [mux.seen[c] EXCEPT !.chunk = ch].gap = FALSE
  <2>1. NothingSeen \in View /\ NothingSeen.size = 0 /\ NothingSeen.gap = FALSE
    BY DEF View, NothingSeen
  <2> QED
    BY <1>5, <1>8, <2>1, Zenon DEF View
<1>13. /\ w \in [Clients -> {"none", "on", "done"}] /\ in \in [Clients -> Seq(Message)]
       /\ se \in [Clients -> View]
       /\ w[c] = "on" /\ in[c] = i \o p
       /\ se[c].chunk = ch /\ se[c].size = 0 /\ se[c].gap = FALSE
       /\ \A d \in Clients \ {c} :
            w[d] = mux.writer[d] /\ in[d] = mux.initial[d] /\ se[d] = mux.seen[d]
  BY <1>3, <1>9, <1>12, Zenon
<1> DEFINE re == mux.recv \cup {c}
<1> DEFINE to == mux.tokens \cup {c}
<1> DEFINE ro == mux.ro \cup ({c} \cap ReadOnly)
<1>14. mux' = [mux EXCEPT !.recv = re, !.tokens = to, !.ro = ro,
                          !.writer = w, !.initial = in, !.seen = se]
  BY Zenon DEF Added, ch, h
<1>15. /\ re \in SUBSET Clients /\ to \in SUBSET Clients /\ ro \in SUBSET Clients
       /\ c \in re /\ c \in to /\ (c \in ReadOnly => c \in ro)
  BY <1>1 DEF ShapeMux
<1>16. \A d \in Clients \ {c} :
         /\ (d \in re) = (d \in mux.recv) /\ (d \in ro) = (d \in mux.ro)
         /\ (d \in to) = (d \in mux.tokens)
  OBVIOUS
<1> HIDE DEF w, in, se, re, to, ro
<1>17. ShapeMux(mux')
  BY <1>1, <1>13, <1>14, <1>15, Zenon DEF ShapeMux
<1>18. /\ mux'.recv = re /\ mux'.tokens = to /\ mux'.ro = ro /\ mux'.writer = w
       /\ mux'.initial = in /\ mux'.seen = se
       /\ mux'.queue = mux.queue /\ mux'.cancelled = mux.cancelled
  BY <1>1, <1>14, Zenon DEF ShapeMux
<1>19. OthersSame(c)
  BY <1>13, <1>16, <1>18, Zenon DEF OthersSame
<1>20. mux'.initial[c] \o mux'.queue[c] = i \o p
  BY <1>5, <1>9, <1>13, <1>18, Zenon
<1>21. Served(c, mux', stop, h, t, job.mode)
  BY <1>5, <1>10, <1>11, <1>13, <1>15, <1>18, <1>20, Zenon DEF Served
<1> QED
  BY <1>17, <1>19, <1>21, SMTT(30) DEF h

\* Attaching a client keeps the invariant.
LEMMA AttachClientKept == Whole /\ AttachClient => Whole'
<1> SUFFICES ASSUME Whole, AttachClient PROVE Whole'
  OBVIOUS
<1> DEFINE c == Head(feed.offered)
<1>1. /\ feed.offered \in Seq(Clients) /\ feed.offered # <<>> /\ ~Streaming
      /\ upsets.failed \in BOOLEAN /\ ShapeFeed(feed) /\ ShapeOut(out) /\ stop \in BOOLEAN
  BY DEF AttachClient, Whole, Shape, ShapeFeed
<1>2. c \in Clients /\ 1 \in DOMAIN feed.offered /\ c = feed.offered[1]
  BY <1>1
<1>3. /\ Streaming => \A d \in Clients : mux.writer[d] = "none"
      /\ \A d \in Clients :
           Served(d, mux, stop, out.hashed["stdout"], tty, job.mode)
      /\ mux.writer[c] = "none" /\ Typing(tty)
  BY <1>2, AttendedServed DEF Whole
<1> HIDE DEF c
<1>4. /\ \E p \in {<<>>, PlaybackBuffer(out.file["stdout"])}, i \in {<<>>, InitialSize} :
            /\ mux' = Added(c, i, p)
            /\ \/ tty' = tty /\ i = InitialSize
               \/ tty' = [tty EXCEPT !.sized = FALSE]
      /\ \/ out' = out /\ stop' = stop
         \/ /\ \E p \in 0 .. Len(out.file["stdout"]) : out' = [out EXCEPT !.pos = p]
            /\ stop' = TRUE /\ Fault("seek")
      /\ UNCHANGED upsets \/ \E kind \in {"playback", "seek", "size"} : Fault(kind)
      /\ feed' = [feed EXCEPT !.offered = <<>>]
      /\ UNCHANGED <<placeVars, proc, job>>
  BY Zenon DEF AttachClient, c
<1>5. (upsets.failed \in BOOLEAN)' /\ (upsets.failed => upsets'.failed)
  BY <1>1, <1>4, Faulty, Zenon
<1>6. /\ ShapeOut(out)' /\ out'.hashed = out.hashed /\ out'.taken = out.taken
      /\ out'.rec = out.rec /\ out'.file = out.file
      /\ \/ out'.pos = out.pos /\ stop' = stop
         \/ out'.pos \in 0 .. Len(out.file["stdout"]) /\ stop' = TRUE /\ upsets'.failed = TRUE
      /\ (stop => stop') /\ (stop \in BOOLEAN)'
  <2>1. CASE out' = out /\ stop' = stop
    BY <1>1, <2>1
  <2>2. CASE stop' = TRUE /\ Fault("seek")
               /\ \E p \in 0 .. Len(out.file["stdout"]) : out' = [out EXCEPT !.pos = p]
    <3>1. PICK p \in 0 .. Len(out.file["stdout"]) : out' = [out EXCEPT !.pos = p]
      BY <2>2
    <3>2. p \in Nat
      BY <3>1
    <3>3. ShapeOut(out') /\ out'.hashed = out.hashed /\ out'.taken = out.taken
          /\ out'.rec = out.rec /\ out'.file = out.file /\ out'.pos = p
      BY <1>1, <3>1, <3>2, Zenon DEF ShapeOut
    <3>4. upsets'.failed = TRUE
      BY <1>1, <2>2, Faulty, Zenon
    <3> QED
      BY <2>2, <3>1, <3>3, <3>4, Zenon
  <2> QED
    BY <1>4, <2>1, <2>2, Zenon
<1>7. ShapeFeed(feed)' /\ FeedSame /\ feed'.offered = <<>>
  <2>1. <<>> \in Seq(Clients)
    OBVIOUS
  <2> QED
    BY <1>1, <1>4, <2>1, Zenon DEF ShapeFeed, FeedSame
<1>15. /\ ShapeTty(tty)' /\ tty'.input = tty.input /\ tty'.typed = tty.typed
       /\ tty'.size = tty.size /\ (tty'.sized => tty' = tty)
  <2>1. ShapeTty(tty)
    BY DEF Whole, Shape
  <2>2. CASE tty' = tty
    BY <2>1, <2>2, Zenon
  <2>3. CASE tty' = [tty EXCEPT !.sized = FALSE]
    BY <2>1, <2>3, Zenon DEF ShapeTty
  <2> QED
    BY <1>4, <2>2, <2>3, Zenon
<1>8. /\ ShapeMux(mux)' /\ OthersSame(c)
      /\ Served(c, mux', stop, out.hashed["stdout"], tty', job.mode)
  <2>1. ShapeTty(tty)
    BY DEF Whole, Shape
  <2>2. tty' = [tty EXCEPT !.sized = FALSE] => tty'.sized = FALSE
    BY <2>1, Zenon DEF ShapeTty
  <2>3. PICK p \in {<<>>, PlaybackBuffer(out.file["stdout"])}, i \in {<<>>, InitialSize} :
          mux' = Added(c, i, p) /\ ((tty' = tty /\ i = InitialSize) \/ tty'.sized = FALSE)
    BY <1>4, <2>2, Zenon
  <2> QED
    BY <1>1, <1>2, <1>3, <2>3, AddedServed
<1>9. ASSUME NEW d \in Clients
      PROVE  Served(d, mux', stop', out'.hashed["stdout"], tty', job'.mode)
  <2>1. Served(d, mux', stop, out.hashed["stdout"], tty', job.mode)
    <3>1. CASE d = c
      BY <1>8, <3>1, Zenon
    <3>2. CASE d # c
      <4>1. /\ mux'.writer[d] = mux.writer[d] /\ mux'.initial[d] = mux.initial[d]
            /\ mux'.queue[d] = mux.queue[d] /\ mux'.seen[d] = mux.seen[d]
            /\ (d \in mux'.recv) = (d \in mux.recv) /\ (d \in mux'.ro) = (d \in mux.ro)
            /\ (d \in mux'.tokens) = (d \in mux.tokens)
            /\ (d \in mux'.cancelled) = (d \in mux.cancelled)
        BY <1>8, <3>2, Zenon DEF OthersSame
      <4>2. Served(d, mux, stop, out.hashed["stdout"], tty, job.mode)
        BY <1>3
      <4> QED
        BY <1>15, <4>1, <4>2, Zenon DEF Served
    <3> QED
      BY <3>1, <3>2
  <2> QED
    BY <1>4, <1>6, <2>1, Zenon DEF Served
<1>10. Attended'
  <2>1. ~Streaming' /\ Typing(tty')
    BY <1>1, <1>3, <1>4, <1>15, Zenon DEF Streaming, Typing
  <2>2. DOMAIN feed'.offered = {}
    BY <1>7
  <2> QED
    BY <1>9, <2>1, <2>2, AttendedServedNext, Zenon
<1>11. Shape'
  BY <1>4, <1>5, <1>6, <1>7, <1>8, <1>15 DEF Whole, Shape, placeVars
<1>12. Stage'
  BY <1>4, <1>6, <1>15, StageFrame, SMTT(30) DEF Whole, placeVars, JobSame, LeaderSame, Stage
<1>13. Record'
  <2>1. RecordedStreams' = RecordedStreams /\ Streaming' = Streaming /\ Alive' = Alive
    BY <1>4 DEF RecordedStreams, Streaming, Alive
  <2>2. out'.pos <= Len(out'.file["stdout"])
    BY <1>6, SMTT(30) DEF Whole, Record
  <2>3. ~(stop' /\ upsets'.failed) =>
          ~(stop /\ upsets.failed) /\ out'.pos = out.pos
    BY <1>5, <1>6
  <2> QED
    BY <1>4, <1>5, <1>6, <2>1, <2>2, <2>3 DEF Whole, Record
<1>14. Fed'
  BY <1>4, <1>6, <1>7, FedFrame DEF Whole, JobSame
<1> QED
  BY <1>10, <1>11, <1>12, <1>13, <1>14 DEF Whole

\* Reaping the job keeps the invariant.
LEMMA ReapKept == Whole /\ Reap => Whole'
<1> SUFFICES ASSUME Whole, Reap PROVE Whole'
  OBVIOUS
<1> DEFINE gone == mux.cancelled \cup mux.tokens
<1>1. /\ ShapeJob(job) /\ ShapeMux(mux) /\ ShapeFeed(feed) /\ ShapeProc(proc)
      /\ job.phase \in {"reap", "wait"} /\ proc.state["leader"] \in {"zombie", "reaped"}
  BY DEF Whole, Shape, Reap
<1>2. ShapeProc(proc)' /\ ProcSame /\ proc'.exit = proc.exit
  BY <1>1, ReapedShape DEF Reap
<1>3. proc.exit \in {"code", "signal"}
  <2>1. proc.exit \in {"none", "code", "signal"} /\ proc.exit # "none"
    BY <1>1 DEF ShapeProc, Whole, Stage
  <2> QED
    BY <2>1
<1>4. Result \in {"limit", "code", "signal"} /\ (job.fatal => Result = "limit")
  BY <1>3, Zenon DEF Result
<1>5. /\ ShapeJob(job)' /\ job'.phase = "ended" /\ job'.result = Result
      /\ job'.mode = job.mode /\ job'.base = job.base /\ job'.limit = job.limit
      /\ job'.eof = job.eof /\ job'.pending = job.pending
      /\ job'.attached = job.attached /\ job'.fatal = job.fatal
  <2>1. "ended" \in Late /\ Result \in {"none", "limit", "code", "signal"}
    BY <1>4 DEF Late
  <2>2. job' = [job EXCEPT !.phase = "ended", !.result = Result]
    BY Zenon DEF Reap
  <2> QED
    BY <1>1, <2>1, <2>2, Zenon DEF ShapeJob
<1>6. ShapeFeed(feed)' /\ FeedSame /\ feed'.offered = <<>>
  <2>1. <<>> \in Seq(Clients) /\ feed' = [feed EXCEPT !.offered = <<>>]
    BY DEF Reap
  <2> QED
    BY <1>1, <2>1, Zenon DEF ShapeFeed, FeedSame
<1>7. /\ ShapeMux(mux)' /\ mux'.cancelled = gone /\ mux'.writer = mux.writer
      /\ mux'.recv = mux.recv /\ mux'.ro = mux.ro /\ mux'.tokens = mux.tokens
      /\ mux'.initial = mux.initial /\ mux'.queue = mux.queue /\ mux'.seen = mux.seen
  <2>1. gone \in SUBSET Clients
    BY <1>1 DEF ShapeMux
  <2>2. mux' = [mux EXCEPT !.cancelled = gone]
    BY Zenon DEF Reap
  <2> HIDE DEF gone
  <2> QED
    BY <1>1, <2>1, <2>2, Zenon DEF ShapeMux
<1>8. UNCHANGED <<placeVars, out, stop, tty, upsets>>
  BY Zenon DEF Reap
<1>9. Attended'
  <2>1. /\ Streaming => \A c \in Clients : mux.writer[c] = "none"
        /\ \A c \in Clients :
             Served(c, mux, stop, out.hashed["stdout"], tty, job.mode)
        /\ Typing(tty)
    BY AttendedServed DEF Whole
  <2>2. Streaming' = Streaming
    BY <1>5 DEF Streaming
  <2>3. DOMAIN feed'.offered = {}
    BY <1>6
  <2>4. ASSUME NEW c \in Clients
        PROVE  Served(c, mux', stop', out'.hashed["stdout"], tty', job'.mode)
    BY <1>5, <1>7, <1>8, <2>1, Zenon DEF Served
  <2> QED
    BY <1>7, <1>8, <2>1, <2>2, <2>3, <2>4, AttendedServedNext, Zenon
<1>10. Shape'
  BY <1>2, <1>5, <1>6, <1>7, <1>8 DEF Whole, Shape, placeVars
<1>11. Stage'
  <2>1. LeaderSame
    BY <1>2, <1>3, SMTT(30) DEF LeaderSame
  <2> QED
    BY <1>1, <1>4, <1>5, <1>8, <2>1 DEF Whole, Stage, LeaderSame, placeVars, Streaming, Early
<1>12. Record'
  BY <1>2, <1>5, <1>8, RecordFrame DEF Whole
<1>13. Fed'
  <2>1. Sent' = Sent /\ Streaming' = Streaming
    BY <1>5, <1>6 DEF Sent, FeedSame, Streaming
  <2> QED
    BY <1>1, <1>5, <1>6, <1>8, <2>1 DEF Whole, Fed, FeedSame, Late
<1> QED
  BY <1>9, <1>10, <1>11, <1>12, <1>13 DEF Whole

(***************************************************************************)
(* Whole holds in every reachable state.                                   *)
(***************************************************************************)

\* The invariant holds at first.
LEMMA InitWhole == Init => Whole
<1> SUFFICES ASSUME Init PROVE Whole
  BY SMTT(30)
<1>1. PICK m \in Modes :
        job = [mode |-> m, phase |-> "validate", base |-> NoBase, limit |-> 0,
               killed |-> FALSE, kills |-> 0, dead |-> FALSE, eof |-> FALSE,
               pending |-> 0, attached |-> FALSE, fatal |-> FALSE,
               lost |-> {}, result |-> "none"]
  BY Zenon DEF Init
<1>2. ShapeJob(job)
  BY <1>1, JobRunnerAssumption DEF ShapeJob, Early
<1>3. /\ job.phase = "validate" /\ job.base = NoBase /\ job.limit = 0 /\ job.eof = FALSE
      /\ job.pending = 0 /\ job.attached = FALSE /\ job.fatal = FALSE
      /\ job.result = "none"
  BY <1>1, SMTT(30)
<1>4. /\ files \in [Files -> Bases \cup {NoBase}] /\ \A f \in Files : files[f] = NoBase
      /\ dirs.current \in Bases
  <2>1. dirs = OutputDirs(First) /\ First \in Bases
    BY JobRunnerAssumption, Zenon DEF Init
  <2>2. dirs.current = First
    BY <2>1, SMTT(30) DEF OutputDirs
  <2> QED
    BY <2>1, <2>2, SMTT(30) DEF Init, Files
<1>5. /\ ShapeProc(proc) /\ proc.state["leader"] = "none"
      /\ \A s \in Streams : proc.wrote[s] = 0
  <2>1. proc = [state |-> [p \in {"leader", "near", "far"} |-> "none"],
                wrote |-> [s \in Streams |-> 0], held |-> TRUE, exit |-> "none"]
    BY Zenon DEF Init
  <2> QED BY <2>1 DEF ShapeProc, People
<1>6. /\ ShapeOut(out) /\ out.pos = 0
      /\ \A s \in Streams : /\ out.taken[s] = 0 /\ out.hashed[s] = 0 /\ out.rec[s] = TRUE
                            /\ out.file[s] = <<>>
  <2>1. out = [taken |-> [s \in Streams |-> 0], hashed |-> [s \in Streams |-> 0],
               rec |-> [s \in Streams |-> TRUE],
               file |-> [s \in Streams |-> <<>>], pos |-> 0]
    BY Zenon DEF Init
  <2> QED BY <2>1 DEF ShapeOut
<1>7. /\ ShapeFeed(feed) /\ feed.chan = <<>> /\ feed.socket = "none" /\ feed.sending = 0
      /\ feed.got = <<>> /\ feed.offered = <<>>
  <2>1. feed = [chan |-> <<>>, socket |-> "none", sending |-> 0, got |-> <<>>,
                offered |-> <<>>]
    BY Zenon DEF Init
  <2> QED BY <2>1 DEF ShapeFeed
<1>8. ShapeTty(tty) /\ tty.input = <<>> /\ tty.typed = <<>>
  <2>1. tty = [input |-> <<>>, typed |-> <<>>, size |-> 1, sized |-> TRUE]
    BY Zenon DEF Init
  <2> QED BY <2>1 DEF ShapeTty
<1>9. stop = FALSE /\ upsets.failed = FALSE /\ mux = NoMux
  BY SMTT(30) DEF Init
<1>10. /\ ShapeMux(mux)
       /\ \A c \in Clients : /\ mux.writer[c] = "none" /\ mux.seen[c] = NothingSeen
                             /\ mux.initial[c] = <<>> /\ mux.queue[c] = <<>>
       /\ mux.recv = {} /\ mux.tokens = {} /\ mux.cancelled = {}
  <2>1. NothingSeen \in View /\ <<>> \in Seq(Message)
    BY DEF NothingSeen, View
  <2> DEFINE w == [c \in Clients |-> "none"]
  <2> DEFINE e == [c \in Clients |-> <<>>]
  <2> DEFINE v == [c \in Clients |-> NothingSeen]
  <2>2. /\ w \in [Clients -> {"none", "on", "done"}] /\ e \in [Clients -> Seq(Message)]
        /\ v \in [Clients -> View]
        /\ \A c \in Clients : w[c] = "none" /\ e[c] = <<>> /\ v[c] = NothingSeen
    BY <2>1, Zenon
  <2>3. mux = [recv |-> {}, ro |-> {}, tokens |-> {}, cancelled |-> {},
               writer |-> w, initial |-> e, queue |-> e, seen |-> v]
    BY <1>9, Zenon DEF NoMux
  <2> HIDE DEF w, e, v
  <2> QED
    BY <2>2, <2>3, Zenon DEF ShapeMux
<1>11. NothingSeen.gap = FALSE
  BY DEF NothingSeen
<1>12. Shape
  BY <1>2, <1>4, <1>5, <1>6, <1>7, <1>8, <1>9, <1>10, Zenon DEF Shape
<1>13. Stage
  <2>1. 0 <= InputCapacity /\ Len(tty.input) = 0
    BY <1>8, JobRunnerAssumption, SMTT(30)
  <2> QED
    BY <1>3, <1>4, <1>5, <1>6, <2>1 DEF Stage, Files
<1>14. Record
  <2>1. <<>> = [n \in 1 .. 0 |-> n] /\ Len(<<>>) = 0
    OBVIOUS
  <2> QED
    BY <1>3, <1>5, <1>6, <1>9, <2>1 DEF Record, Streams
<1>15. Fed
  <2>1. <<>> = [n \in 1 .. 0 |-> n] /\ Len(<<>>) = 0
    OBVIOUS
  <2> QED
    BY <1>3, <1>6, <1>7, <1>9, <2>1 DEF Fed, Sent, Streams
<1>16. Attended
  <2>1. WindowsAgree
    BY <1>10 DEF WindowsAgree
  <2>2. DOMAIN feed.offered = {} /\ DOMAIN tty.input = {} /\ DOMAIN tty.typed = {}
    BY <1>7, <1>8, SMTT(30)
  <2> QED
    BY <1>10, <1>11, <2>1, <2>2, Zenon DEF Attended
<1> QED
  BY <1>12, <1>13, <1>14, <1>15, <1>16 DEF Whole

\* A step that changes nothing keeps the invariant.
LEMMA StutterKept == Whole /\ UNCHANGED vars => Whole'
<1> SUFFICES ASSUME Whole, UNCHANGED vars PROVE Whole'
  OBVIOUS
<1>1. Shape'
  BY DEF Whole, Shape, vars
<1>2. ShapeMux(mux)' /\ Attended'
  BY AttendedFrame DEF Whole, Shape, vars
<1> QED
  BY <1>2, MuxKept, Zenon DEF Whole, Shape, Stage, vars, placeVars

\* Every step keeps the invariant.
LEMMA WholeStep == Whole /\ [Next]_vars => Whole'
<1> SUFFICES ASSUME Whole, [Next]_vars PROVE Whole'
  OBVIOUS
<1>1. CASE Setup
  <2>1. DOMAIN files = Files
    BY DEF Whole, Shape
  <2> QED
    BY <1>1, <2>1, JobSpawnKept, OpenIoKept, SpawnJobKept, CreateFileKept DEF Setup
<1>2. CASE Output
  BY <1>2, StreamDoneKept, ReadStreamedKept, ReadEofKept, ReadErrorKept, SendPendingKept,
     FlushKept, ReadRecordedKept, ReadDroppedKept DEF Output
<1>3. CASE Signals
  BY <1>3, TerminateKept, KillTimeoutKept, WaitKept, ReapKept, ReapKillKept DEF Signals
<1>4. CASE Timers
  BY <1>4, TimersKept
<1>5. CASE ClientSide
  <2>1. CASE AttachStreaming \/ AttachClient \/ RelayInput
    BY <2>1, AttachStreamingKept, AttachClientKept, RelayInputKept
  <2>2. ASSUME NEW c \in Clients,
               \/ Offer(c) \/ ReapClient(c) \/ WriterSend(c) \/ WriterEnd(c) \/ ResizeFails(c)
               \/ \E kind \in ClientKinds : ClientMessage(c, kind)
        PROVE  Whole'
    BY <2>2, OfferKept, ReapClientKept, WriterSendKept, WriterEndKept, ResizeFailsKept,
       ClientMessageKept
  <2> QED
    BY <1>5, <2>1, <2>2 DEF ClientSide
<1>6. CASE Stream
  BY <1>6, TakeChunkKept, ChunkSentKept, ChunkLostKept, StreamClosedKept DEF Stream
<1>7. CASE Processes
  BY <1>7, WriteKept, ForkKept, ExitKept DEF Processes, People
<1>8. CASE Cancel \/ MoveDirs
  BY <1>8, CancelKept, MoveDirsKept
<1>9. CASE UNCHANGED vars
  BY <1>9, StutterKept
<1> QED
  BY <1>1, <1>2, <1>3, <1>4, <1>5, <1>6, <1>7, <1>8, <1>9 DEF Next

\* The invariant always holds.
LEMMA WholeAlways == Spec => []Whole
  BY InitWhole, WholeStep, PTL DEF Spec

(***************************************************************************)
(* What Whole gives.                                                       *)
(***************************************************************************)

\* What a file holds is what was written to it, or all but the end of that.
LEMMA HeldShape ==
    ASSUME ShapeOut(out), NEW s \in Streams
    PROVE  Len(Held(s)) \in Nat /\ Len(Held(s)) <= Len(out.file[s])
<1>1. out.file[s] \in Seq(Nat)
  BY DEF ShapeOut
<1> DEFINE f == out.file[s]
<1> HIDE DEF f
<1>2. f \in Seq(Nat)
  BY <1>1 DEF f
<1>3. Len(SubSeq(f, 1, Len(f) - 1)) \in Nat /\ Len(SubSeq(f, 1, Len(f) - 1)) <= Len(f)
  BY <1>2
<1>4. Held(s) \in {f, SubSeq(f, 1, Len(f) - 1)}
  BY Zenon DEF Held, f
<1> QED
  BY <1>2, <1>3, <1>4 DEF f

\* Ranges that clients are given lie within the file.
LEMMA WholeRanges == Shape => RangesWithinFile
<1> SUFFICES ASSUME Shape PROVE RangesWithinFile
  OBVIOUS
<1> DEFINE len == Len(Held("stdout"))
<1>1. len \in Nat
  BY HeldShape DEF Shape, Streams
<1> HIDE DEF len
<1>2. ASSUME NEW start \in 0 .. len + 1, NEW end \in {LastByte} \cup 0 .. len + 1,
             RangeLength(len, start, end) # Refused
      PROVE  LET asked == start .. (IF end = LastByte THEN len - 1 ELSE end)
             IN  /\ RangeLength(len, start, end) = Cardinality(asked)
                 /\ RangeLength(len, start, end) > 0 /\ asked \subseteq 0 .. len - 1
  <2> DEFINE last == IF end = LastByte THEN len - 1 ELSE end
  <2>1. last \in Int /\ start \in Int
    BY <1>1
  <2>2. /\ RangeLength(len, start, end) = last - start + 1
        /\ start <= last /\ last <= len - 1
    <3>1. CASE end = LastByte
      BY <1>1, <1>2, <3>1 DEF RangeLength
    <3>2. CASE end # LastByte
      <4>1. end \in 0 .. len + 1 /\ last = end
        BY <3>2
      <4>2. end < len /\ end >= start /\ RangeLength(len, start, end) = end - start + 1
        BY <1>1, <1>2, <3>2, <4>1 DEF RangeLength
      <4> QED
        BY <1>1, <4>1, <4>2
    <3> QED
      BY <3>1, <3>2
  <2> HIDE DEF last
  <2>3. Cardinality(start .. last) = last - start + 1
    BY <2>1, <2>2, FS_Interval
  <2>4. start .. last \subseteq 0 .. len - 1
    BY <1>1, <2>1, <2>2
  <2> QED
    BY <2>1, <2>2, <2>3, <2>4 DEF last
<1> QED
  BY <1>2 DEF RangesWithinFile, len

\* The invariant implies the one that the run checks.
LEMMA WholeInv == Whole => JobInv
<1> SUFFICES ASSUME Whole PROVE JobInv
  OBVIOUS
<1> USE DEF Whole
<1>1. JobTypeOK
  <2>1. ShapeJob(job) /\ DOMAIN files = Files /\ \A f \in Files : files[f] \in Bases \cup {NoBase}
    BY DEF Shape
  <2>2. /\ job.mode \in Modes /\ job.kills \in 0 .. KillAttempts
        /\ job.phase \in Early \cup {"loop", "failed"} \cup Late
        /\ job.result \in {"none", "limit", "code", "signal"}
    BY <2>1, Zenon DEF ShapeJob
  <2>3. /\ (job.phase = "ended") = (job.result # "none") /\ Len(tty.input) <= InputCapacity
    BY DEF Stage
  <2>4. Len(feed.chan) <= 1
    <3>1. feed.chan \in {<<>>, <<Sent + 1>>}
      BY Zenon DEF Fed
    <3>2. Len(<<>>) <= 1 /\ Len(<<Sent + 1>>) <= 1
      OBVIOUS
    <3> QED
      BY <3>1, <3>2, Zenon
  <2> QED
    BY <2>1, <2>2, <2>3, <2>4, SMTT(30) DEF JobTypeOK, Early, Late
<1>2. RecordMatchesHash
  BY Zenon DEF Record, RecordMatchesHash, RecordedStreams, Streams, Held
<1>3. OneBaseWithinLimit
  <2>1. DOMAIN files = Files
    BY DEF Shape
  <2>2. \A f \in Files : files[f] # NoBase =>
           files[f] = job.base /\ job.limit = FsizeOf[files[f]]
    BY DEF Stage
  <2>3. ASSUME NEW f \in Streams, files[f] # NoBase
        PROVE  Len(Held(f)) <= job.limit + 1
    <3>1. f \in RecordedStreams
      BY <2>3 DEF Stage, RecordedStreams, Streams
    <3>2. out.hashed[f] <= job.limit + 1 /\ Len(out.file[f]) <= out.hashed[f]
      BY <3>1, Zenon DEF Record
    <3>3. /\ out.hashed[f] \in Nat /\ job.limit \in Nat /\ Len(out.file[f]) \in Nat
      BY DEF Shape, ShapeOut, ShapeJob
    <3>4. Len(Held(f)) \in Nat /\ Len(Held(f)) <= Len(out.file[f])
      BY HeldShape DEF Shape
    <3> QED
      BY <3>2, <3>3, <3>4
  <2> QED
    BY <2>1, <2>2, <2>3, Zenon DEF OneBaseWithinLimit
<1>4. OverLimitReported
  BY DEF Record, Stage, OverLimitReported, RecordedStreams, Streams
<1>5. RangesWithinFile
  BY WholeRanges, SMTT(30)
<1>6. WindowsAgree /\ ReadOnlyNeverTypes
  BY DEF Attended, ReadOnlyNeverTypes
<1> QED
  BY <1>1, <1>2, <1>3, <1>4, <1>5, <1>6 DEF JobInv

\* The invariant implies that no client sees a gap.
LEMMA WholeNoGap == Whole => ClientSeesNoGap
  BY DEF Whole, Attended, ClientSeesNoGap

\* The invariant implies that the stream is complete.
LEMMA WholeStreamed == Whole => StreamComplete
<1> SUFFICES ASSUME Whole PROVE StreamComplete
  OBVIOUS
<1>1. feed.got = [n \in 1 .. Len(feed.got) |-> n]
  BY DEF Whole, Fed
<1>2. ASSUME feed.socket = "closed", job.eof, ~stop, ~upsets.failed
      PROVE  Len(feed.got) = proc.wrote["stdout"]
  <2>1. /\ feed.chan = <<>> /\ feed.sending = 0 /\ job.phase = "ended"
    BY <1>2 DEF Whole, Fed
  <2>2. Streaming
    BY <1>2 DEF Whole, Stage
  <2>3. job.pending = 0
    BY <2>1 DEF Whole, Fed
  <2>4. out.hashed["stdout"] = Sent + Len(feed.chan) + 0
    BY <1>2, <2>1, <2>2, <2>3 DEF Whole, Fed
  <2>5. Len(feed.got) \in Nat /\ Len(feed.chan) = 0
    BY <2>1 DEF Whole, Shape, ShapeFeed
  <2>6. out.hashed["stdout"] = Len(feed.got)
    BY <2>1, <2>4, <2>5, SMTT(30) DEF Sent
  <2>7. /\ out.taken["stdout"] = out.hashed["stdout"]
        /\ out.taken["stdout"] = proc.wrote["stdout"]
    BY <1>2, <2>2 DEF Whole, Record
  <2> QED
    BY <2>6, <2>7, SMTT(30)
<1> QED
  BY <1>1, <1>2 DEF StreamComplete

\* For any number of clients and chunks, any limits and any I/O failures, job()
\* keeps JobInv: what a stream's hash covers is what its file holds unless a
\* failed write or seek has stopped the job or the flush of that file failed; a
\* job's files are under one base and within its limit; a job over the limit is
\* stopped and reports it; a range of recorded output is within the file; every
\* terminal client is shown the terminal's size while the calls that read and set
\* it succeed; and nothing that a read-only client sends reaches the terminal.
THEOREM JobInvariant == Spec => []JobInv
  BY WholeAlways, WholeInv, PTL

\* No client of the mux sees a gap or a repeat in the standard output, from the
\* playback of what was recorded to what the loop relays, until it is
\* disconnected or the job is told to stop.
THEOREM NoGapSeen == Spec => []ClientSeesNoGap
  BY WholeAlways, WholeNoGap, PTL

\* stream_output's consumer gets the chunks in order, and all that the job wrote
\* when the stream reached its end and was closed with nothing given up.
THEOREM StreamDelivered == Spec => []StreamComplete
  BY WholeAlways, WholeStreamed, PTL
=============================================================================
