--------------------------- MODULE MCVideoWindows ---------------------------
(* VideoWindows for TLC: short videos and every small combination of chunk,   *)
(* window and stride lengths.                                                 *)
EXTENDS VideoWindows

SmallVideos ==
  UNION {[duration : {d}, frames : {F \cup {0} : F \in SUBSET (1..d - 1)}] : d \in {1, 5, 7}}

SmallSettings ==
  [chunk : {1, 2, 3, 9}, stride : 1..3, window : {2, 4}, count : {1, 2},
   policy : {"drop_partial", "pad_last"}]
=============================================================================
