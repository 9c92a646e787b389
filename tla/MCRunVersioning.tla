--------------------------- MODULE MCRunVersioning --------------------------
(* RunVersioning for TLC: a manifest of one or two chunks of one video.      *)
EXTENDS RunVersioning, TLC

Perms == Permutations(Ingestors)
OneVideo == [c \in Chunks |-> c - 1]
=============================================================================
