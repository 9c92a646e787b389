------------------------- MODULE MCLegacyMigration --------------------------
(* LegacyMigration for TLC: one video, one of its segments not in the vector *)
(* tables at first.                                                          *)
EXTENDS LegacyMigration

OneVideo == [c \in Chunks |-> c - 1]
FirstSegment == {<<1, 1>>}
=============================================================================
