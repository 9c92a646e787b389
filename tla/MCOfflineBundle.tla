-------------------------- MODULE MCOfflineBundle ---------------------------
(* OfflineBundle for TLC: exporters, directories and commits are alike.      *)
EXTENDS OfflineBundle, TLC

Perms == Permutations(Exporters) \cup Permutations(Dirs) \cup Permutations(Shas)
=============================================================================
