----------------------------- MODULE JobRunner -------------------------------
(***************************************************************************)
(* One job on one sled, from its spawn to its result: the set-up of its    *)
(* files and I/O (server/src/executor.rs job_spawn, io.rs, spawn.rs), the  *)
(* select loop that records and relays its output and escalates its        *)
(* signals (job.rs), the task that streams output to its one consumer, and *)
(* the WebSocket mux of attached clients (mux.rs).                         *)
(*                                                                         *)
(* Output is counted in chunks, the unit of one read: chunk n of a stream  *)
(* is the number n.  Timers are armed by the flags that the loop tests.    *)
(* Those that progress resets fire only when nothing is ready to be read   *)
(* or passed on, which takes far less than the second of the shortest      *)
(* timer; the others fire whatever is ready.                               *)
(***************************************************************************)
EXTENDS JobOutput

CONSTANTS
    Modes,         \* the modes of the jobs to run
    Clients,       \* clients that may attach
    ReadOnly,      \* those with Access::ReadOnly
    First, Later,  \* the base that the server starts with, and may move to
    Descendants,   \* what the leader may fork: near ones, far ones
    FsizeOf,       \* the output limit that goes with each base
    Capacity,      \* MUX_CLIENT_CHANNEL_CAPACITY
    InputCapacity, \* INPUT_CHANNEL_CAPACITY
    Playback,      \* INTERACTIVE_JOB_BUFFER_SIZE, in chunks
    KillAttempts,  \* KILL_ATTEMPTS
    Contract,      \* whether a job has a process contract (illumos)
    Faults,        \* the kinds of I/O failure that may happen
    MaxUpsets, MaxWrites  \* bounds

ASSUME JobRunnerAssumption ==
    /\ Descendants \subseteq {"near", "far"}
    /\ Modes \subseteq {"batch", "interactive", "stream-input", "stream-output"}
    /\ ReadOnly \subseteq Clients /\ Clients \cap {"none", "gone", "closed"} = {}
    /\ {First, Later} \subseteq Bases /\ FsizeOf \in [Bases -> Nat]
    /\ {Capacity, InputCapacity, Playback, KillAttempts} \subseteq Nat \ {0}

Streams == {"stdout", "stderr"}
NoBase == "no base"
Sizes == 1 .. 2

VARIABLES
    dirs,   \* OutputDirs, shared by the server
    files,  \* where this job's files are: [file -> base or NoBase]
    proc,   \* the processes of the job and what they have written
    out,    \* what the loop has read, hashed and recorded
    job,    \* the locals of job()
    stop,   \* the job's CancellationToken
    feed,   \* stream_output: its channels and its client
    mux,    \* WebSocketMux and the writer task of each client
    tty,    \* the pseudoterminal: input on its way in, its window size, and
            \* whether every call that reads or sets the size has succeeded
    upsets  \* how often the run was disturbed, and whether I/O has failed

placeVars == <<dirs, files>>
vars == <<dirs, files, proc, out, job, stop, feed, mux, tty, upsets>>

Streaming == job.mode = "stream-output"
RecordedStreams == IF Streaming THEN {"stderr"} ELSE Streams

\* Failures, attachments, messages, forks, moves and stops share one bound.
Upset(failed) ==
    /\ upsets.count < MaxUpsets
    /\ upsets' = [count |-> upsets.count + 1, failed |-> upsets.failed \/ failed]
Fault(kind) == kind \in Faults /\ Upset(TRUE)

\* The processes that hold the write ends of the job's pipes or terminal.
Alive == {p \in {"leader", "near", "far"} : proc.state[p] = "alive"}

\* What a client has been sent: the last chunk of standard output, the last
\* window size, and whether some chunk did not follow the one before.
NothingSeen == [chunk |-> 0, size |-> 0, gap |-> FALSE]
Seeing(v, msg) ==
    CASE msg.kind = "stdout" ->
           [v EXCEPT !.chunk = msg.val,
                     !.gap = @ \/ msg.val # v.chunk + 1]
      [] msg.kind = "size" -> [v EXCEPT !.size = msg.val]
      [] OTHER -> v

NoMux == [recv |-> {}, ro |-> {}, tokens |-> {}, cancelled |-> {},
          writer |-> [c \in Clients |-> "none"],
          initial |-> [c \in Clients |-> <<>>],
          queue |-> [c \in Clients |-> <<>>],
          seen |-> [c \in Clients |-> NothingSeen]]

Init ==
    /\ dirs = OutputDirs(First)
    /\ files = [f \in {"stdout", "stderr", "request"} |-> NoBase]
    /\ proc = [state |-> [p \in {"leader", "near", "far"} |-> "none"],
               wrote |-> [s \in Streams |-> 0], held |-> TRUE, exit |-> "none"]
    /\ out = [taken |-> [s \in Streams |-> 0], hashed |-> [s \in Streams |-> 0],
              rec |-> [s \in Streams |-> TRUE],
              file |-> [s \in Streams |-> <<>>], pos |-> 0]
    /\ \E m \in Modes :
         job = [mode |-> m, phase |-> "validate", base |-> NoBase, limit |-> 0,
                killed |-> FALSE, kills |-> 0, dead |-> FALSE, eof |-> FALSE,
                pending |-> 0, attached |-> FALSE, fatal |-> FALSE,
                lost |-> {}, result |-> "none"]
    /\ stop = FALSE
    /\ feed = [chan |-> <<>>, socket |-> "none", sending |-> 0, got |-> <<>>,
               offered |-> <<>>]
    /\ mux = NoMux
    /\ tty = [input |-> <<>>, typed |-> <<>>, size |-> 1, sized |-> TRUE]
    /\ upsets = [count |-> 0, failed |-> FALSE]

(***************************************************************************)
(* job_spawn: each step may fail, and then the job ends with an error.     *)
(***************************************************************************)

\* The embedding process moves the output directories; what is checked here is
\* what a move can do to a job whose files are being created.
MoveDirs ==
    /\ job.phase \in {"validate", "stdout", "stderr", "request"}
    /\ dirs.current # Later
    /\ dirs' = MovedTo(dirs, Later)
    /\ Upset(FALSE)
    /\ UNCHANGED <<files, proc, out, job, stop, feed, mux, tty>>

Fails == job' = [job EXCEPT !.phase = "failed"]

\* clamp, the snapshot of the directories, and the jobs that are refused: those
\* that stream their input, or stream their output from more than one sled.
JobSpawn ==
    /\ job.phase = "validate"
    /\ \/ Fault("setup") /\ Fails
       \/ job.mode \in {"stream-input", "stream-output"} /\ Fails /\ UNCHANGED upsets
       \/ /\ job.mode # "stream-input"
          /\ job' = [job EXCEPT !.phase = "stdout", !.base = dirs.current,
                                !.limit = FsizeOf[dirs.current]]
          /\ UNCHANGED upsets
    /\ UNCHANGED <<placeVars, proc, out, stop, feed, mux, tty>>

PlaceOfCurrent(f) ==
    IF f = "stdout" /\ Streaming THEN NoBase ELSE dirs.current

\* Under which base the file named f is created.
PlaceOf(f) == IF f = "stdout" /\ Streaming THEN NoBase ELSE job.base

After(f) == CASE f = "stdout" -> "stderr" [] f = "stderr" -> "request"
              [] f = "request" -> "spawn"

CreateFile(f) ==
    /\ job.phase = f
    /\ \/ /\ files' = [files EXCEPT ![f] = PlaceOf(f)]
          /\ job' = [job EXCEPT !.phase = After(f)]
          /\ UNCHANGED upsets
       \/ Fault("create") /\ Fails /\ UNCHANGED files
    /\ UNCHANGED <<dirs, proc, out, stop, feed, mux, tty>>

\* JobIo::open and the first set_window_size: our copies of the child's ends stay
\* open until the spawn.
OpenIo ==
    /\ job.phase = "spawn"
    /\ \/ /\ job' = [job EXCEPT !.phase = "opened"]
          /\ proc' = [proc EXCEPT !.held = TRUE]
          /\ UNCHANGED upsets
       \/ Fault("setup") /\ Fails /\ UNCHANGED proc
    /\ UNCHANGED <<placeVars, out, stop, feed, mux, tty>>

\* PosixSpawn::spawn takes the child's ends and drops them as it returns.
SpawnJob ==
    /\ job.phase = "opened"
    /\ \/ /\ proc' = [proc EXCEPT !.state["leader"] = "alive", !.held = FALSE]
          /\ job' = [job EXCEPT !.phase = "loop"]
          /\ UNCHANGED upsets
       \/ Fault("spawn") /\ Fails /\ UNCHANGED proc
    /\ UNCHANGED <<placeVars, out, stop, feed, mux, tty>>

(***************************************************************************)
(* The processes of the job: the leader and the descendants it forks, near *)
(* ones in its process group and far ones outside it.                      *)
(***************************************************************************)

Write(s) ==
    /\ Alive # {}
    /\ job.mode = "interactive" => s = "stdout"
    /\ proc.wrote["stdout"] + proc.wrote["stderr"] < MaxWrites
    /\ proc' = [proc EXCEPT !.wrote[s] = @ + 1]
    /\ UNCHANGED <<placeVars, out, job, stop, feed, mux, tty, upsets>>

Fork(p) ==
    /\ p \in Descendants
    /\ proc.state["leader"] = "alive"
    /\ \A q \in {"near", "far"} : proc.state[q] = "none"
    /\ proc' = [proc EXCEPT !.state[p] = "alive"]
    /\ Upset(FALSE)
    /\ UNCHANGED <<placeVars, out, job, stop, feed, mux, tty>>

Died(state, ps) ==
    [p \in DOMAIN state |->
        IF p \notin ps \/ state[p] # "alive" THEN state[p]
        ELSE IF p = "leader" THEN "zombie" ELSE "dead"]

Exit(p) ==
    /\ p \in Alive
    /\ proc' = [proc EXCEPT !.state = Died(@, {p}),
                            !.exit = IF p = "leader" THEN "code" ELSE @]
    /\ UNCHANGED <<placeVars, out, job, stop, feed, mux, tty, upsets>>

\* The processes that JobChild::kill reaches.
Reached == IF Contract THEN Alive ELSE Alive \ {"far"}

Killing(ps) ==
    proc' = [proc EXCEPT !.state = Died(@, ps),
                         !.exit = IF "leader" \in ps THEN "signal" ELSE @]

\* A process may outlive SIGTERM; SIGKILL ends all it reaches, if it is sent.
KillJob(signal) ==
    \/ \E ps \in IF signal = "TERM" THEN SUBSET Reached ELSE {Reached} :
         Killing(ps) /\ UNCHANGED upsets
    \/ Fault("kill") /\ UNCHANGED proc

(***************************************************************************)
(* The select loop of job().                                               *)
(***************************************************************************)

Drained == job.eof /\ job.attached /\ job.pending = 0
InLoop == job.phase = "loop" /\ ~Drained

\* Leaving the loop: a chunk in hand goes out only if the channel has room.
Break(j) == [j EXCEPT !.phase = "flush", !.pending = 0]
LastSend(n) == IF n # 0 /\ feed.chan = <<>> /\ feed.socket # "gone"
               THEN [feed EXCEPT !.chan = <<n>>] ELSE feed

StreamDone ==
    /\ job.phase = "loop" /\ Drained
    /\ job' = Break(job)
    /\ UNCHANGED <<placeVars, proc, out, stop, feed, mux, tty, upsets>>

Readable(s) == out.taken[s] < proc.wrote[s]
AtEof == \A s \in Streams : ~Readable(s) /\ Alive = {} /\ ~proc.held
CanRead == InLoop /\ job.pending = 0 /\ ~job.eof
Ready ==
    \/ CanRead /\ (AtEof \/ \E s \in Streams : Readable(s))
    \/ InLoop /\ job.pending # 0 /\ (feed.socket = "gone" \/ feed.chan = <<>>)

LastOf(f, k) == SubSeq(f, IF Len(f) > k THEN Len(f) - k + 1 ELSE 1, Len(f))

RelayedDropping(m, msg) ==
    [m EXCEPT !.queue = [c \in Clients |->
        IF m.writer[c] = "on"
        THEN LastOf(Append(@[c], msg), Capacity) ELSE @[c]]]

\* broadcast::Sender::send reaches every writer task that is subscribed.
Relayed(m, msg) ==
    [m EXCEPT !.queue = [c \in Clients |-> IF m.writer[c] = "on"
                                           THEN Append(@[c], msg) ELSE @[c]]]

Data(s, n) == [kind |-> s, val |-> n]
WindowChange(size) == [kind |-> "size", val |-> size]

\* write_all at the file's position; only a failed playback moves it.
Recorded(s, n) ==
    LET f == out.file[s]
        at == IF s = "stdout" THEN out.pos ELSE Len(f)
    IN  IF at = Len(f) THEN Append(f, n) ELSE [f EXCEPT ![at + 1] = n]

\* The hash and the count cover a chunk that is streamed or recorded.
Hashed(s) == [out EXCEPT !.taken[s] = @ + 1, !.hashed[s] = @ + 1]
OverLimit(s) == out.hashed[s] + 1 > job.limit

ReadStreamed ==
    /\ CanRead /\ Streaming /\ Readable("stdout")
    /\ out' = Hashed("stdout")
    /\ job' = [job EXCEPT !.pending = out.hashed["stdout"] + 1]
    /\ UNCHANGED <<placeVars, proc, stop, feed, mux, tty, upsets>>

ReadRecorded(s) ==
    /\ CanRead /\ Readable(s) /\ out.rec[s] /\ s \in RecordedStreams
    /\ \/ /\ out' = [Hashed(s) EXCEPT !.file[s] = Recorded(s, out.hashed[s] + 1),
                       !.pos = IF s = "stdout" THEN @ + 1 ELSE @,
                       !.rec[s] = ~OverLimit(s)]
          /\ stop' = (stop \/ OverLimit(s))
          /\ UNCHANGED upsets
       \/ /\ Fault("write")
          /\ out' = [Hashed(s) EXCEPT !.rec[s] = ~OverLimit(s)]
          /\ stop' = TRUE
    /\ job' = [job EXCEPT !.fatal = @ \/ OverLimit(s)]
    /\ mux' = IF mux.recv = {} THEN mux ELSE Relayed(mux, Data(s, out.hashed[s] + 1))
    /\ UNCHANGED <<placeVars, proc, feed, tty>>

\* stop_recording: StreamState::read drops what it reads from then on.
ReadDropped(s) ==
    /\ CanRead /\ Readable(s) /\ ~out.rec[s]
    /\ out' = [out EXCEPT !.taken[s] = @ + 1]
    /\ UNCHANGED <<placeVars, proc, job, stop, feed, mux, tty, upsets>>

ReadEof ==
    /\ CanRead /\ AtEof
    /\ job' = IF Streaming THEN [job EXCEPT !.eof = TRUE] ELSE Break(job)
    /\ UNCHANGED <<placeVars, proc, out, stop, feed, mux, tty, upsets>>

ReadError ==
    /\ CanRead /\ Fault("read")
    /\ IF Streaming
       THEN job' = [job EXCEPT !.eof = TRUE] /\ UNCHANGED mux
       ELSE job' = Break(job) /\ mux' = Relayed(mux, [kind |-> "close"])
    /\ UNCHANGED <<placeVars, proc, out, stop, feed, tty>>

SendPendingTry ==
    /\ InLoop /\ job.pending # 0
    /\ feed' = LastSend(job.pending)
    /\ job' = [job EXCEPT !.pending = 0]
    /\ UNCHANGED <<placeVars, proc, out, stop, mux, tty, upsets>>

\* tx_output.reserve
SendPending ==
    /\ InLoop /\ job.pending # 0
    /\ feed.socket = "gone" \/ feed.chan = <<>>
    /\ feed' = LastSend(job.pending)
    /\ job' = [job EXCEPT !.pending = 0]
    /\ UNCHANGED <<placeVars, proc, out, stop, mux, tty, upsets>>

\* server.rs job_attach: try_send on the attachment point.
Offer(c) ==
    /\ job.phase \in {"loop", "flush", "reap", "wait"}
    /\ feed.offered = <<>> /\ mux.writer[c] = "none" /\ feed.socket # c
    /\ feed' = [feed EXCEPT !.offered = <<c>>]
    /\ Upset(FALSE)
    /\ UNCHANGED <<placeVars, proc, out, job, stop, mux, tty>>

AttachStreaming ==
    /\ InLoop /\ Streaming /\ feed.offered # <<>>
    /\ LET c == Head(feed.offered)
           taken == c \notin ReadOnly /\ ~job.attached
       IN  /\ job' = [job EXCEPT !.attached = @ \/ taken]
           /\ feed' = [feed EXCEPT !.offered = <<>>,
                                   !.socket = IF taken THEN c ELSE @]
    /\ UNCHANGED <<placeVars, proc, out, stop, mux, tty, upsets>>

\* playback_buffer, and what is done about the file position if it fails.
PlaybackBuffer(f) == [i \in 1 .. Len(LastOf(f, Playback)) |->
                        Data("stdout", LastOf(f, Playback)[i])]

\* The window size that a new client is sent first.
InitialSize == IF job.mode = "interactive" THEN <<WindowChange(tty.size)>> ELSE <<>>

\* WebSocketMux::add, with the writer task it spawns.
Added(c, initial, playback) ==
    [mux EXCEPT !.recv = @ \cup {c}, !.tokens = @ \cup {c},
                !.ro = @ \cup ({c} \cap ReadOnly),
                !.writer[c] = "on", !.initial[c] = initial \o playback,
                !.seen[c].chunk = out.hashed["stdout"] - Len(playback)]

AttachClient ==
    /\ InLoop /\ ~Streaming /\ ~job.dead /\ feed.offered # <<>>
    /\ LET c == Head(feed.offered)
           f == out.file["stdout"]
       IN  \/ /\ mux' = Added(c, InitialSize, PlaybackBuffer(f))
              /\ UNCHANGED <<out, stop, tty, upsets>>
           \/ /\ Fault("playback")  \* and the seek back to the end succeeds
              /\ mux' = Added(c, InitialSize, <<>>)
              /\ UNCHANGED <<out, stop, tty>>
           \/ /\ Fault("seek")
              /\ \E p \in 0 .. Len(f) : out' = [out EXCEPT !.pos = p]
              /\ mux' = Added(c, InitialSize, <<>>)
              /\ stop' = TRUE
              /\ UNCHANGED tty
           \/ /\ Fault("size")  \* get_window_size
              /\ mux' = Added(c, <<>>, PlaybackBuffer(f))
              /\ tty' = [tty EXCEPT !.sized = FALSE]
              /\ UNCHANGED <<out, stop>>
    /\ feed' = [feed EXCEPT !.offered = <<>>]
    /\ UNCHANGED <<placeVars, proc, job>>

\* WebSocketMux::remove
Removed(m, c) ==
    [m EXCEPT !.recv = @ \ {c}, !.ro = @ \ {c}, !.tokens = @ \ {c},
              !.cancelled = IF c \in m.tokens THEN @ \cup {c} ELSE @]

\* write_input: dropped for a batch job, and when the channel is full.
WriteInput(c) ==
    IF job.mode = "interactive" /\ Len(tty.input) < InputCapacity
    THEN Append(tty.input, c) ELSE tty.input

\* A message from client c, or the end of its connection.
ClientMessage(c, kind) ==
    /\ InLoop /\ ~job.dead /\ c \in mux.recv
    /\ CASE kind = "close" ->  \* or an error, or a message that does not decode
              mux' = Removed(mux, c) /\ UNCHANGED tty
         [] kind = "gone" ->
              /\ mux' = [Removed(mux, c) EXCEPT !.ro = mux.ro]
              /\ UNCHANGED tty
         [] kind = "data" ->
              /\ tty' = [tty EXCEPT !.input = IF c \notin mux.ro THEN WriteInput(c) ELSE @]
              /\ UNCHANGED mux
         [] kind = "size" ->
              IF c \notin mux.ro
              THEN \E size \in Sizes :
                     /\ tty' = [tty EXCEPT !.size = size]
                     /\ mux' = Relayed(mux, WindowChange(size))
              ELSE UNCHANGED <<tty, mux>>
    /\ Upset(FALSE)
    /\ UNCHANGED <<placeVars, proc, out, job, stop, feed>>

\* set_window_size fails, and the size is relayed all the same.
ResizeFails(c) ==
    /\ InLoop /\ ~job.dead /\ c \in mux.recv \ mux.ro
    /\ Fault("size")
    /\ \E size \in Sizes : mux' = Relayed(mux, WindowChange(size))
    /\ tty' = [tty EXCEPT !.sized = FALSE]
    /\ UNCHANGED <<placeVars, proc, out, job, stop, feed>>

\* WebSocketMux::poll_next drops the clients whose writer task has ended.
ReapClient(c) ==
    /\ InLoop /\ ~job.dead /\ mux.recv # {}
    /\ mux.writer[c] = "done" /\ c \in mux.recv \cup mux.ro \cup mux.tokens
    /\ mux' = [mux EXCEPT !.recv = @ \ {c}, !.ro = @ \ {c}, !.tokens = @ \ {c}]
    /\ UNCHANGED <<placeVars, proc, out, job, stop, feed, tty, upsets>>

\* The writer task of c: it sends what is queued, in order.
Lagged(c) == Len(mux.queue[c]) > Capacity
Cancelled(c) == stop \/ c \in mux.cancelled

WriterSend(c) ==
    /\ mux.writer[c] = "on"
    /\ \/ /\ mux.initial[c] # <<>>
          /\ mux' = [mux EXCEPT !.seen[c] = Seeing(@, Head(mux.initial[c])),
                                !.initial[c] = Tail(@)]
       \/ /\ mux.initial[c] = <<>> /\ mux.queue[c] # <<>> /\ ~Lagged(c)
          /\ mux' = [mux EXCEPT !.seen[c] = Seeing(@, Head(mux.queue[c])),
                                !.queue[c] = Tail(@)]
    /\ UNCHANGED <<placeVars, proc, out, job, stop, feed, tty, upsets>>

\* It closes the socket when it lags, when it is told to, when the mux is
\* dropped, or when a send fails.
Dismissed(c) == Cancelled(c) \/ (mux.initial[c] = <<>> /\ Lagged(c))

WriterEnd(c) ==
    /\ mux.writer[c] = "on"
    /\ IF Dismissed(c) THEN UNCHANGED upsets ELSE Fault("send")
    /\ mux' = [mux EXCEPT !.writer[c] = "done",
                          !.initial[c] = <<>>, !.queue[c] = <<>>]
    /\ UNCHANGED <<placeVars, proc, out, job, stop, feed, tty>>

\* relay_input, between the input channel and the terminal.
RelayInput ==
    /\ tty.input # <<>> /\ ~stop
    /\ tty' = [tty EXCEPT !.input = Tail(@), !.typed = Append(@, Head(tty.input))]
    /\ UNCHANGED <<placeVars, proc, out, job, stop, feed, mux, upsets>>

\* JobManager stops the job, or the server shuts down.
Cancel ==
    /\ job.phase # "ended" /\ ~stop
    /\ stop' = TRUE
    /\ Upset(FALSE)
    /\ UNCHANGED <<placeVars, proc, out, job, feed, mux, tty>>

Terminate ==
    /\ InLoop /\ stop /\ ~job.killed
    /\ KillJob("TERM")
    /\ job' = [job EXCEPT !.killed = TRUE]
    /\ UNCHANGED <<placeVars, out, stop, feed, mux, tty>>

KillTimeout ==
    /\ InLoop /\ job.killed /\ job.kills < KillAttempts
    /\ KillJob("KILL")
    /\ job' = [job EXCEPT !.kills = @ + 1]
    /\ UNCHANGED <<placeVars, out, stop, feed, mux, tty>>

\* JobChild::wait reaps the leader once.
Wait ==
    /\ InLoop /\ ~job.dead /\ proc.state["leader"] = "zombie"
    /\ job' = [job EXCEPT !.dead = TRUE]
    /\ proc' = [proc EXCEPT !.state["leader"] = "reaped"]
    /\ UNCHANGED <<placeVars, out, stop, feed, mux, tty, upsets>>

\* The timers that end the loop, some of them giving up on the job.
GiveUp(giving) ==
    /\ InLoop
    /\ job' = Break(job)
    /\ feed' = LastSend(job.pending)
    /\ stop' = (stop \/ giving)
    /\ UNCHANGED <<placeVars, proc, out, mux, tty, upsets>>

DrainTimeoutStreaming == Streaming /\ job.dead /\ ~job.eof /\ ~Ready /\ GiveUp(FALSE)

\* Only a streaming job's reads and sends put the timeout off.
DrainTimeout == job.dead /\ ~job.eof /\ (Streaming => ~Ready) /\ GiveUp(FALSE)

DrainLimit == Streaming /\ job.dead /\ ~job.eof /\ GiveUp(FALSE)

AttachDeadline == Streaming /\ ~job.attached /\ ~job.eof /\ GiveUp(TRUE)

Linger == job.eof /\ ~Ready /\ GiveUp(TRUE)

(***************************************************************************)
(* After the loop: the process is reaped and the result is decided.        *)
(***************************************************************************)

\* The files are flushed.  A write that fails only now is not told of: the end of
\* what the file was given is lost.
Flush ==
    /\ job.phase = "flush"
    /\ \/ job' = [job EXCEPT !.phase = "reap"] /\ UNCHANGED upsets
       \/ /\ Fault("flush")
          /\ \E lost \in SUBSET RecordedStreams :
               job' = [job EXCEPT !.phase = "reap", !.lost = lost]
    /\ UNCHANGED <<placeVars, proc, out, stop, feed, mux, tty>>

\* What the file of stream s holds.
Held(s) ==
    IF s \in job.lost THEN SubSeq(out.file[s], 1, Len(out.file[s]) - 1) ELSE out.file[s]

Result == IF job.fatal THEN "limit" ELSE proc.exit

Reap ==
    /\ job.phase \in {"reap", "wait"}
    /\ proc.state["leader"] \in {"zombie", "reaped"}
    /\ proc' = [proc EXCEPT !.state["leader"] = "reaped"]
    /\ job' = [job EXCEPT !.phase = "ended",
                          !.result = Result]
    /\ mux' = [mux EXCEPT !.cancelled = @ \cup mux.tokens]  \* the mux is dropped
    /\ feed' = [feed EXCEPT !.offered = <<>>]
    /\ UNCHANGED <<placeVars, out, stop, tty, upsets>>

ReapKill ==
    /\ job.phase = "reap"
    /\ (stop /\ ~job.killed) \/ (job.killed /\ ~job.dead)
    /\ KillJob("KILL")
    /\ job' = [job EXCEPT !.phase = "wait"]
    /\ UNCHANGED <<placeVars, out, stop, feed, mux, tty>>

(***************************************************************************)
(* stream_output: chunks to the one consumer, then Close.                  *)
(***************************************************************************)

Serving == feed.socket \in Clients

TakeChunk ==
    /\ Serving /\ feed.sending = 0 /\ feed.chan # <<>>
    /\ feed' = [feed EXCEPT !.sending = Head(feed.chan), !.chan = <<>>]
    /\ UNCHANGED <<placeVars, proc, out, job, stop, mux, tty, upsets>>

ChunkSent ==
    /\ feed.sending # 0
    /\ feed' = [feed EXCEPT !.got = Append(@, feed.sending), !.sending = 0]
    /\ UNCHANGED <<placeVars, proc, out, job, stop, mux, tty, upsets>>

\* The send fails, or outlasts STREAMING_SEND_TIMEOUT.
ChunkLost ==
    /\ feed.sending # 0 /\ Fault("send")
    /\ stop' = TRUE
    /\ feed' = [feed EXCEPT !.sending = 0, !.chan = <<>>, !.socket = "gone"]
    /\ UNCHANGED <<placeVars, proc, out, job, mux, tty>>

StreamClosed ==
    /\ job.phase = "ended" /\ feed.sending = 0
    /\ (Serving /\ feed.chan = <<>>) \/ (Streaming /\ feed.socket = "none")
    /\ feed' = [feed EXCEPT !.socket = IF Serving THEN "closed" ELSE "gone",
                            !.chan = <<>>]
    /\ UNCHANGED <<placeVars, proc, out, job, stop, mux, tty, upsets>>

-----------------------------------------------------------------------------

Setup ==
    \/ JobSpawn \/ OpenIo \/ SpawnJob
    \/ \E f \in DOMAIN files : CreateFile(f)

Output ==
    \/ StreamDone \/ ReadStreamed \/ ReadEof \/ ReadError \/ SendPending \/ Flush
    \/ \E s \in Streams : ReadRecorded(s) \/ ReadDropped(s)

Signals == Terminate \/ KillTimeout \/ Wait \/ Reap \/ ReapKill

Timers == DrainTimeout \/ DrainLimit \/ AttachDeadline \/ Linger

ClientKinds == {"close", "gone", "data", "size"}

ClientSide ==
    \/ AttachStreaming \/ AttachClient \/ RelayInput
    \/ \E c \in Clients :
         \/ Offer(c) \/ ReapClient(c) \/ WriterSend(c) \/ WriterEnd(c) \/ ResizeFails(c)
         \/ \E kind \in ClientKinds : ClientMessage(c, kind)

Stream == TakeChunk \/ ChunkSent \/ ChunkLost \/ StreamClosed

Processes ==
    \/ \E s \in Streams : Write(s)
    \/ \E p \in {"leader", "near", "far"} : Fork(p) \/ Exit(p)

Next == Setup \/ Output \/ Signals \/ Timers \/ ClientSide \/ Stream
        \/ Processes \/ Cancel \/ MoveDirs

Spec == Init /\ [][Next]_vars

\* The runtime polls the loop and its tasks, timers expire, and a SIGKILL
\* that is sent takes effect; the job's processes owe nothing.
Fairness ==
    /\ WF_vars(Output) /\ WF_vars(Signals) /\ WF_vars(DrainTimeout \/ Linger)
    /\ WF_vars(Setup)

FairSpec == Spec /\ Fairness

-----------------------------------------------------------------------------

\* The types of the job's locals, of its tasks' state and of its files.
JobTypeOK ==
    /\ job.mode \in Modes /\ job.kills \in 0 .. KillAttempts
    /\ job.phase \in {"validate", "stdout", "stderr", "request", "spawn", "opened",
                      "loop", "flush", "reap", "wait", "ended", "failed"}
    /\ job.result \in {"none", "limit", "code", "signal"}
    /\ (job.phase = "ended") = (job.result # "none")
    /\ Len(feed.chan) <= 1 /\ Len(tty.input) <= InputCapacity
    /\ \A f \in DOMAIN files : files[f] \in Bases \cup {NoBase}

\* What the hash of a stream covers (JobOutputState is built "directly from the
\* hashers; no need to hit the file system") is what its file holds, in order;
\* where the two differ, a write or a seek has failed and the job is told to stop,
\* or else the flush of that very file has failed, which job() only logs.
RecordMatchesHash ==
    \A s \in RecordedStreams :
        \/ Held(s) = [n \in 1 .. out.hashed[s] |-> n]
        \/ stop /\ upsets.failed
        \/ s \in job.lost

\* A job's output, its error output and its request are created under one base,
\* and no stream outgrows that base's limit by more than the read that crossed
\* it, however the directories move while job_spawn awaits.
OneBaseWithinLimit ==
    \A f, g \in DOMAIN files :
        files[f] # NoBase /\ files[g] # NoBase =>
            /\ files[f] = files[g]
            /\ f \in Streams => Len(Held(f)) <= FsizeOf[files[f]] + 1

\* A job that crossed its limit is stopped and its result is the limit error,
\* whether it then exits by itself, is killed, or was already being stopped.
OverLimitReported ==
    \A s \in RecordedStreams : out.hashed[s] > job.limit =>
        /\ stop
        /\ job.phase = "ended" => job.result = "limit"

\* Recorded output stays readable while its base is in force or among the last
\* MAX_PREVIOUS_DIRS that were, through every history of moves, back and forth.
OutputFindable == job.phase = "validate" =>
    \A hist \in UNION {[1 .. n -> Bases] : n \in 1 .. MaxPrevious + 3} :
        \A b \in Recent(hist) :
            \A older \in SUBSET (Bases \ Recent(hist)) :
                FindJobOutput(DirsAfter(hist), {b} \cup older) = b

\* A range of recorded output holds exactly the positions from its start through
\* its end, all of them in the file as it is now, or it is refused.
RangesWithinFile ==
    LET len == Len(Held("stdout"))
    IN  \A start \in 0 .. len + 1, end \in {LastByte} \cup 0 .. len + 1 :
          LET n == RangeLength(len, start, end)
              asked == start .. (IF end = LastByte THEN len - 1 ELSE end)
          IN  n # Refused => /\ n = Cardinality(asked) /\ n > 0
                             /\ asked \subseteq 0 .. len - 1

\* An attached client sees the end of the output so far and then every later
\* chunk, with none missing or repeated, until it is disconnected: a client that
\* lags is closed rather than skipped ahead. A writer that has been told to end
\* may still send once more, when the select! of its task takes the other branch.
ClientSeesNoGap == ~stop => \A c \in Clients \ mux.cancelled : ~mux.seen[c].gap

\* What the writer task of c has still to send, and the size that is shown once
\* the messages of q have reached one who was shown the size v.
Coming(c) == mux.initial[c] \o mux.queue[c]
LastSize(v, q, size) ==
    LET IsSize(i) == q[i].kind = "size"
    IN  /\ (\A i \in DOMAIN q : ~IsSize(i)) => v = size
        /\ \A i \in DOMAIN q :
              IsSize(i) /\ (\A j \in i + 1 .. Len(q) : ~IsSize(j)) => q[i].val = size

\* Unless reading or setting it has failed, which is only logged, every client that
\* is attached to a terminal has been sent, or is about to be sent, the size that
\* the terminal has now.
WindowsAgree ==
    \A c \in Clients :
        mux.writer[c] = "on" /\ job.mode = "interactive" /\ tty.sized =>
            LastSize(mux.seen[c].size, Coming(c), tty.size)

\* Nothing that a read-only client sends reaches the terminal, whatever order
\* its messages, its disconnection and the end of its writer task come in.
ReadOnlyNeverTypes == \A i \in DOMAIN tty.typed : tty.typed[i] \notin ReadOnly

\* What holds at every turn of job()'s loop: its files match its hashes, keep
\* their limits or report them, and can be read back, and its terminal and the
\* clients attached to it agree.
JobInv ==
    /\ JobTypeOK
    /\ RecordMatchesHash /\ OneBaseWithinLimit /\ OverLimitReported /\ RangesWithinFile
    /\ WindowsAgree /\ ReadOnlyNeverTypes

\* A streaming consumer gets the chunks in order, and all of them if the output
\* reached its end and nobody gave up on the job: "a finished stream is done once
\* its consumer has taken every chunk".
StreamComplete ==
    /\ feed.got = [n \in 1 .. Len(feed.got) |-> n]
    /\ feed.socket = "closed" /\ job.eof /\ ~stop /\ ~upsets.failed
       => Len(feed.got) = proc.wrote["stdout"]

\* A job that is stopped, or whose leader has exited, ends: stubborn processes,
\* descendants that hold its pipes and absent consumers do not keep it, only a
\* leader that KILL_ATTEMPTS in the loop, or the one after it, failed to signal.
JobEnds ==
    stop \/ proc.state["leader"] \in {"zombie", "reaped"} ~>
        \/ job.phase \in {"ended", "failed"}
        \/ /\ job.phase = "wait" \/ job.kills = KillAttempts
           /\ proc.state["leader"] = "alive"

==============================================================================
