---------------------------- MODULE MCJobRunner ------------------------------
(* Two clients, one of them read-only, and jobs of two chunks. *)
EXTENDS JobRunner

AllModes == {"batch", "interactive", "stream-input", "stream-output"}

\* A base with room for two chunks, and one whose limit is less than a chunk.
LargeThenSmall == [b \in {"ramdisk", "dataset", "spare"} |-> IF b = "ramdisk" THEN 2 ELSE 0]
==============================================================================
