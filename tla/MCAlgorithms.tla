---------------------------- MODULE MCAlgorithms ----------------------------
(* The algorithms that keep no state, for TLC: a behaviour asks one question *)
(* after another, and each invariant judges the answers to its questions.    *)
EXTENDS QueryPlanning, TelemetryAlignment

VARIABLE question

Nothing == [kind |-> "none"]

FewFields == [video_id |-> "keyword", is_night |-> "boolean", person_count |-> "integer",
              vehicle_count |-> "integer", bus_count |-> "integer",
              altitude_m |-> "float", compass_heading |-> "circular_deg",
              median_visible |-> "float"]

Small == 0..3
Options(S) == {{}} \cup {{x} : x \in S}
RawValues ==
  {Raw("nothing", {}, {}, FALSE)}
  \cup {Raw("scalar", {x}, {x}, FALSE) : x \in Small}
  \cup [form : {"pair"}, min : Options(Small), max : Options(Small), wrap : {FALSE}]
  \cup [form : {"mapping"}, min : Options(0..4), max : Options(0..4), wrap : BOOLEAN]

RawFor(f) == IF FieldType[f] \in {"keyword", "boolean"}
             THEN {r \in RawValues : r.form \in {"nothing", "scalar"}} ELSE RawValues

Only(f, raw) == [g \in {f} |-> raw]
TelemetryValues == {Raw("nothing", {}, {}, FALSE), Raw("scalar", {2}, {2}, FALSE),
                    Raw("pair", {0}, {2}, FALSE), Raw("pair", {}, {0}, FALSE)}
Filters == {<<>>} \cup UNION {[{f} -> TelemetryValues] : f \in Fields}
RecordsOf(f) == {[g \in Fields |-> IF g = f THEN v ELSE w] : v \in Options(Small), w \in {{}, {2}}}

\* Before a migration, a segment without telemetry may also lack the row for it.
AskFilter ==
  \E f \in Fields : \E raw \in RawFor(f), telemetry \in Filters, rec \in RecordsOf(f),
     hasRow \in BOOLEAN :
    /\ ~hasRow => \A g \in Unversioned : rec[g] = {}
    /\ question' = [kind |-> "filter", rec |-> rec, hasRow |-> hasRow,
                    meta |-> Only(f, raw), telemetry |-> telemetry]

\* The concepts of ontology.py.
Concepts ==
  [vehicle |-> [family |-> "vehicle", field |-> "vehicle_count", specificity |-> 1],
   bus     |-> [family |-> "vehicle", field |-> "bus_count", specificity |-> 2],
   truck   |-> [family |-> "vehicle", field |-> "vehicle_count", specificity |-> 2],
   person  |-> [family |-> "person", field |-> "person_count", specificity |-> 1],
   night   |-> [family |-> "lighting", field |-> "is_night", specificity |-> 1]]

Phrases == [minimum : {0, 2}, concepts : {{"bus"}, {"vehicle"}, {"truck", "bus"}}]
Overrides == {<<>>} \cup {<<a>> : a \in Phrases} \cup {<<a, b>> : a, b \in Phrases}
Coverages == {Fields, {"vehicle_count", "person_count"}, {"bus_count", "altitude_m"}}
Counted == {"vehicle_count", "bus_count"}
CountRecords == {[g \in Fields |-> IF g \in Counted THEN v[g] ELSE w] :
                   v \in [Counted -> {{}, {1}, {2}}], w \in {{}, {1}}}

AskRules ==
  \E matched \in SUBSET DOMAIN Ontology, overrides \in Overrides,
     available \in Coverages, rec \in CountRecords :
    question' = [kind |-> "rules", matched |-> matched, overrides |-> overrides,
                 available |-> available, rec |-> rec]

LlmValues == {Number(x) : x \in {0, 2}} \cup {Value("text", {}, {})}
             \cup {Value("pair", {1}, {2}), Value("pair", {1}, {})}
LlmConstraints == {Constraint(f, op, v) :
  f \in {Nowhere, "video_id", "is_night", "altitude_m", "compass_heading"},
  op \in {"eq", "gte", "lte", "range", "other"}, v \in LlmValues}
GoodConstraints == {Constraint(f, op, Number(x)) : f \in {"altitude_m", "bus_count"},
                                                  op \in {"gte", "lte"}, x \in {0, 2}}

AskLlm ==
  \E json \in BOOLEAN, dubious \in {{}, {2}}, c \in LlmConstraints, d \in GoodConstraints,
     available \in Coverages, rec \in {[g \in Fields |-> v] : v \in Options(Small)} :
    question' = [kind |-> "llm", rec |-> rec, available |-> available,
                 completion |-> [json |-> json, constraints |-> <<c, d>>, dubious |-> dubious]]

\* Up to three samples in a stretch of six time steps, and windows in it that may
\* have samples on either side; headings in quarters, other values in units.
Moments == 0..5
Heights == {0, Unit, 3 * Unit}
Samples == [time : Moments, value : Options(Heights)]
SeriesOf(n) == {s \in [1..n -> Samples] : Monotonic(s)}
Types == {"continuous", "integer", "categorical", "boolean", "circular_deg"}
Series == UNION {SeriesOf(n) : n \in 0..3}

AskTelemetry ==
  \E type \in Types, samples \in Series, w \in {<<1, 4>>, <<1, 2>>, <<3, 4>>} :
    /\ type = "boolean" => \A i \in DOMAIN samples : samples[i].value \subseteq {0, Unit}
    /\ question' = [kind |-> "telemetry", type |-> type, samples |-> samples,
                    start |-> w[1], end |-> w[2]]

Pairs == [start : Options({7}), creation : Options({5, 7}), filename : Options({6})]
AnchorSources == {"container_creation_time", "filename", "manifest_csv", "none"}

\* A manifest with an absolute clock and no source of the anchor does not load.
AskAnchor ==
  \E from \in AnchorSources, pair \in Pairs, t \in 0..9, absolute \in BOOLEAN, offset \in -1..1 :
    /\ absolute => from # "none"
    /\ question' = [kind |-> "anchor", from |-> from, pair |-> pair, time |-> t,
                    absolute |-> absolute, offset |-> offset]

Init == question = Nothing
Next == question = Nothing /\ (AskFilter \/ AskRules \/ AskLlm \/ AskTelemetry \/ AskAnchor)
Spec == Init /\ [][Next]_question

-----------------------------------------------------------------------------
(* Properties of filters.                                                  *)

IsFilter == question.kind = "filter"
AllFilters == Merged(question.meta, question.telemetry)

\* Whatever a request filters by, ClickHouse and Qdrant return the segments that
\* PostgreSQL would name, although each translation is written on its own and each
\* store was filled on its own.
BackendsAgree == IsFilter => Agree(question.rec, AllFilters)

\* The check of the hydrated rows never denies a row the backend's filter returned.
AnswersPassCheck == IsFilter => PassesCheck(question.rec, AllFilters)

\* A heading range means the arc from its minimum clockwise to its maximum.
HeadingsOnArc == IsFilter => SelectsArc(question.rec, AllFilters)

\* A segment passes the filter of an unversioned dataset if and only if it passes
\* the same filter after the migration, unless its two dictionaries share a key; only
\* a segment without a row of telemetry may pass for the first time, and only by a
\* telemetry dictionary that asks nothing.
MigrationKeepsFilters == IsFilter =>
  SameUnversioned(question.rec, question.hasRow, question.meta, question.telemetry)

-----------------------------------------------------------------------------
(* Properties of query plans.                                              *)

Plan == IF question.kind = "rules"
        THEN RulesPlan(question.matched, question.overrides, question.available)
        ELSE LlmPlan(question.completion, question.available)

IsPlan == question.kind \in {"rules", "llm"}

\* The dictionary built from a plan selects the segments on which all of its
\* constraints hold, however often they name the same field.
PlanIsConjunction == IsPlan => IsConjunction(Plan.constraints, question.rec)

\* A rules plan selects what the query mentions, no more and no less.
RulesPlanMeansQuery == question.kind = "rules" =>
  MeansQuery(Plan, question.matched, question.overrides, question.available, question.rec)

-----------------------------------------------------------------------------
(* Properties of telemetry.                                                *)

IsTelemetry == question.kind = "telemetry"

\* What a window is given depends only on samples within max_gap_s of it: telemetry
\* from before or after an outage never leaks into it.
TelemetryIsLocal == IsTelemetry =>
  Local(question.samples, question.type, question.start, question.end)

\* Nothing is extrapolated: a window is given what was sampled inside it or what lies
\* between two neighbouring samples, on headings along the shorter arc, and its
\* stored value is within those.
TelemetryIsSupported == IsTelemetry =>
  /\ Supported(question.samples, question.type, question.start, question.end)
  /\ WithinSamples(question.samples, question.type, question.start, question.end)

\* Preflight and ingest resolve a video's anchor on their own: preflight puts no sample
\* anywhere else than ingest, and only one of the two fails in exactly two cases.
PreflightAlignsLikeIngest == question.kind = "anchor" =>
  AlignsLikeIngest(question.from, question.pair, question.time, question.absolute, question.offset)
=============================================================================
