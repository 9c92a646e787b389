---------------------------- MODULE MCIngestRuns ----------------------------
(* IngestRuns for TLC: one-video and two-video manifests of two chunks.     *)
EXTENDS IngestRuns, TLC

OneVideo == [c \in Chunks |-> c - 1]    \* chunk_index 0, 1 of the same video
TwoVideos == [c \in Chunks |-> 0]       \* chunk_index 0 of each of two videos

Perms == Permutations(Ingestors)        \* the processes run the same code
=============================================================================
