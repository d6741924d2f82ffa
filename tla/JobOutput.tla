------------------------------ MODULE JobOutput ------------------------------
(***************************************************************************)
(* Where a job's output is kept and how it is fetched                      *)
(* (server/src/output.rs).  The base directory moves while the server      *)
(* runs; the last few bases are remembered so that older output can still  *)
(* be read.                                                                *)
(***************************************************************************)
EXTENDS Integers, Sequences, FiniteSets

CONSTANTS
    Bases,        \* base directories
    MaxPrevious,  \* MAX_PREVIOUS_DIRS
    Threshold     \* OUTPUT_THRESHOLD, in the units of the files

OutputDirs(current) == [current |-> current, previous |-> <<>>]

\* previous.truncate(MAX_PREVIOUS_DIRS)
Truncated(s) == SubSeq(s, 1, IF Len(s) < MaxPrevious THEN Len(s) ELSE MaxPrevious)

MovedToRepeating(dirs, base) ==
    [current |-> base, previous |-> Truncated(<<dirs.current>> \o dirs.previous)]

MovedTo(dirs, base) ==
    LET Kept == SelectSeq(dirs.previous, LAMBDA b : b # base)
        Left == IF base = dirs.current THEN <<>> ELSE <<dirs.current>>
    IN  [current |-> base, previous |-> Truncated(Left \o Kept)]

BasesOf(dirs) == <<dirs.current>> \o dirs.previous

\* The base a reader opens, given the bases where the file is not missing: those
\* that hold it, and those where looking for it fails.
FindJobOutput(dirs, holding) ==
    LET found == SelectSeq(BasesOf(dirs), LAMBDA b : b \in holding)
    IN  IF found = <<>> THEN dirs.current ELSE Head(found)

LastByte == -1
Refused == -1

\* The length of a requested range; HTTP ranges include both their ends.
RangeLength(len, start, end) ==
    LET n == IF end = LastByte THEN len - start ELSE end - start + 1
    IN  IF \/ start >= len
           \/ end # LastByte /\ (end >= len \/ end < start)
           \/ n > len \/ n > Threshold
        THEN Refused ELSE n

-----------------------------------------------------------------------------

\* The server's directories after it has moved through each base of hist.
DirsAfter(hist) ==
    LET after[i \in DOMAIN hist] ==
          IF i = 1 THEN OutputDirs(hist[1]) ELSE MovedTo(after[i - 1], hist[i])
    IN  after[Len(hist)]

\* The distinct bases most recently in force, at most MaxPrevious + 1 of them.
Recent(hist) == {hist[i] : i \in {i \in DOMAIN hist :
    Cardinality({hist[j] : j \in i .. Len(hist)}) <= MaxPrevious + 1}}
==============================================================================
