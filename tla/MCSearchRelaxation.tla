------------------------- MODULE MCSearchRelaxation -------------------------
(* SearchRelaxation for TLC: three segments, a keyword field, a count field  *)
(* and a telemetry field, and every request that combines one filter of each *)
(* kind with every ladder option.                                            *)
EXTENDS SearchRelaxation

Corpus == 1..3
AvailableFields ==
  [k \in Kinds |-> IF k = "legacy" THEN {"video_id", "person_count", "altitude_m"}
                   ELSE {"video_id", "person_count"}]

Sure(f, eq, m) == [field |-> f, eq |-> eq, match |-> m, source |-> "rules_parser", sure |-> TRUE]
Guess(f, eq, m) == [field |-> f, eq |-> eq, match |-> m, source |-> "llm_parser", sure |-> FALSE]

ParseResults ==
  {<<Guess("video_id", TRUE, {1}), Sure("person_count", FALSE, {1, 2})>>,
   <<Guess("person_count", FALSE, {1}), [Guess("video_id", TRUE, {1, 3}) EXCEPT !.sure = TRUE]>>,
   <<Guess("video_id", TRUE, {2}), Guess("video_id", TRUE, {3}), Guess("altitude_m", FALSE, {3})>>}

ManualVideo == {NoFilter, [f \in {"video_id"} |-> {2, 3}]}
ManualTelemetry ==
  {NoFilter, [f \in {"altitude_m"} |-> {1, 2}], [f \in {"person_count"} |-> Corpus]}

AllRequests ==
  [kind : Kinds, pushdown : BOOLEAN, metadata : ManualVideo, telemetry : ManualTelemetry,
   mode : {"off", "diagnose_only", "auto_soft"}, min : 0..3, budget : 1..5,
   fallback : BOOLEAN]
=============================================================================
