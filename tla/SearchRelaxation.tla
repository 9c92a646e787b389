-------------------------- MODULE SearchRelaxation --------------------------
(***************************************************************************)
(* One search request with a query parser: plan_query turns the text into  *)
(* soft constraints, engine.search merges them with the filters the user   *)
(* gave, runs the search, and when too little comes back walks the         *)
(* relaxation ladder, one probe search per pass, before it answers.        *)
(*                                                                         *)
(* A predicate is the set of segments that satisfy it, and a filter maps   *)
(* some fields to predicates.  Segments are numbered by their similarity   *)
(* to the query, best first, so a search (exact strategy) returns the      *)
(* smallest numbers among the segments its filters let through.            *)
(***************************************************************************)
EXTENDS Naturals, Sequences, FiniteSets

CONSTANTS
  Segments,          \* the corpus, a set of ranks
  Fields,            \* canonical filter fields
  TopK,              \* request.top_k
  CandidateLimit,    \* settings.legacy_candidate_limit
  LegacyColumns,     \* fields filter_segment_ids reads from metadata_filters
  LegacyTelemetry,   \* fields it reads from telemetry_filters
  Available,         \* dataset kind -> fields the coverage gate accepts
  Parses,            \* constraint sequences the query parser may produce
  Requests           \* the requests considered

\* How the dataset came to be: loaded before run versioning; migrated into a
\* run, without registered telemetry fields; or ingested from a manifest.
Kinds == {"legacy", "migrated", "manifest"}

Filters == UNION {[F -> SUBSET Segments] : F \in SUBSET Fields}

Constraint == [field : Fields, eq : BOOLEAN, match : SUBSET Segments,
               source : {"rules_parser", "llm_parser"}, sure : BOOLEAN]

Request == [kind : Kinds, pushdown : BOOLEAN, metadata : Filters, telemetry : Filters,
            mode : {"off", "diagnose_only", "auto_soft"}, min : Nat, budget : 1..5,
            fallback : BOOLEAN]

ASSUME RelaxationAssumption ==
  /\ Segments \subseteq Nat /\ TopK \in Nat /\ CandidateLimit \in Nat
  /\ Available \in [Kinds -> SUBSET Fields]
  /\ Parses \subseteq Seq(Constraint) /\ Requests \subseteq Request

VARIABLES
  req,       \* the request
  pc,        \* "plan", "primary", "ladder", "select", "done" or "error"
  soft,      \* soft constraints still active
  passes,    \* the segments each pass of the ladder returned, the primary first
  response   \* the results of the answer

vars == <<req, pc, soft, passes, response>>

Init ==
  /\ req \in Requests
  /\ pc = "plan" /\ soft = <<>> /\ passes = <<>> /\ response = {}

-----------------------------------------------------------------------------
(* Filters.                                                                *)

\* {**d, **e}: the entries of e win.
Override(d, e) ==
  [f \in DOMAIN d \cup DOMAIN e |-> IF f \in DOMAIN e THEN e[f] ELSE d[f]]

NoFilter == [f \in {} |-> {}]

On(cs, f, eq) == {i \in DOMAIN cs : cs[i].field = f /\ cs[i].eq = eq}

\* constraints_to_filter_dict: the bounds on a field are intersected and hide
\* its equalities, of which the last one wins.
FilterDict(cs) ==
  [f \in {cs[i].field : i \in DOMAIN cs} |->
     {s \in Segments :
        IF On(cs, f, FALSE) # {}
        THEN \A i \in On(cs, f, FALSE) : s \in cs[i].match
        ELSE \E i \in On(cs, f, TRUE) :
               s \in cs[i].match /\ \A k \in On(cs, f, TRUE) : k <= i}]

\* filter_segment_ids, for a dataset without an active run, looks only at the
\* fields it knows; every other path applies the two filters as one.
Allowed(metadata, telemetry) ==
  LET both == Override(metadata, telemetry)
  IN {s \in Segments :
        IF req.kind = "legacy"
        THEN /\ \A f \in DOMAIN metadata \cap LegacyColumns : s \in metadata[f]
             /\ \A f \in DOMAIN telemetry \cap LegacyTelemetry : s \in telemetry[f]
        ELSE \A f \in DOMAIN both : s \in both[f]}

Best(S) == {s \in S : Cardinality({q \in S : q < s}) < TopK}

\* _one_run refuses a candidate list that is too long, except in pushdown mode,
\* which only a dataset with an active run has.
Refused(S) ==
  (req.kind = "legacy" \/ ~req.pushdown) /\ Cardinality(S) > CandidateLimit

\* What the user asked for explicitly.
Manual == Override(req.metadata, req.telemetry)
Honouring == {s \in Segments : \A f \in DOMAIN Manual : s \in Manual[f]}

-----------------------------------------------------------------------------
(* Planning and the primary search.                                        *)

\* plan_query: what the parser found, or nothing when it failed, without the
\* constraints on fields the dataset does not have.
PlanQuery ==
  /\ pc = "plan" /\ req.kind # "manifest"
  /\ \E cs \in Parses \cup {<<>>} :
       soft' = SelectSeq(cs, LAMBDA c : c.field \in Available[req.kind])
  /\ pc' = "primary"
  /\ UNCHANGED <<req, passes, response>>

\* available_field_names: fields_for_run returns dicts and the comprehension
\* reads an attribute of them, so a run with registered fields cannot plan.
PlanningBreaks ==
  /\ pc = "plan" /\ req.kind = "manifest"
  /\ pc' = "error"
  /\ UNCHANGED <<req, soft, passes, response>>

\* _merge_planned_filters: one dict for metadata and telemetry.
MergedFilters == Override(FilterDict(soft), Manual)

Enough(S) == Cardinality(S) >= req.min

Primary ==
  LET found == Allowed(MergedFilters, NoFilter)
  IN  /\ pc = "primary" /\ ~Refused(found)
      /\ passes' = <<Best(found)>>
      /\ response' = Best(found)
      /\ pc' = IF req.mode = "off" \/ Enough(Best(found)) THEN "done" ELSE "ladder"
      /\ UNCHANGED <<req, soft>>

PrimaryRefused ==
  /\ pc = "primary" /\ Refused(Allowed(MergedFilters, NoFilter))
  /\ pc' = "error"
  /\ UNCHANGED <<req, soft, passes, response>>

-----------------------------------------------------------------------------
(* The ladder.  Pass 2 drops detector-derived constraints; no parser makes *)
(* any.  Nor does one make hard constraints, so pass 5 drops nothing more. *)

Dropped(n, c) ==
  CASE n = 2 -> FALSE
    [] n = 3 -> ~c.sure
    [] OTHER -> TRUE

Keep(n) == SelectSeq(soft, LAMBDA c : ~Dropped(n, c))

\* search_fn: the request's metadata filters are applied again, and its
\* telemetry filters, which the merge has moved into the other dict, are not.
Probe(cs) == Allowed(Override(FilterDict(cs), req.metadata), NoFilter)

NextPass(n) == pc = "ladder" /\ n = Len(passes) + 1 /\ n <= req.budget

\* Mutant of Satisfied: the ladder goes on although enough came back.
SatisfiedNever(S) == FALSE

Satisfied(S) == Enough(S)

LastPass == IF req.fallback THEN 5 ELSE 4

RelaxPass(n) ==
  LET found == Probe(Keep(n))
  IN  /\ NextPass(n) /\ ~Refused(found)
      /\ soft' = Keep(n)
      /\ passes' = Append(passes, Best(found))
      /\ pc' = IF Satisfied(Best(found)) \/ n = LastPass THEN "select" ELSE "ladder"
      /\ UNCHANGED <<req, response>>

\* A probe with too many candidates raises out of the ladder and of the
\* request, also in diagnose_only mode.
ProbeRefused(n) ==
  /\ NextPass(n) /\ Refused(Probe(Keep(n)))
  /\ pc' = "error"
  /\ UNCHANGED <<req, soft, passes, response>>

\* The budget of passes, or of time, is used up.
LadderStops ==
  /\ pc = "ladder"
  /\ pc' = "select"
  /\ UNCHANGED <<req, soft, passes, response>>

-----------------------------------------------------------------------------
\* Mutants of Final: the relaxed search forgets the user's telemetry filters, or
\* the metadata filters.
FinalProbe == Probe(soft)
FinalWithoutMetadata == Allowed(FilterDict(soft), req.telemetry)

\* The relaxed search of auto_soft, with both filters of the request.
Final == Allowed(Override(FilterDict(soft), req.metadata), req.telemetry)

\* Mutant of Reruns: diagnose_only answers with the relaxed results as well.
RerunsAlways == Len(passes) > 1

Reruns == req.mode = "auto_soft" /\ Len(passes) > 1

Answer ==
  /\ pc = "select" /\ ~(Reruns /\ Refused(Final))
  /\ response' = IF Reruns THEN Best(Final) ELSE response
  /\ pc' = "done"
  /\ UNCHANGED <<req, soft, passes>>

\* A telemetry filter may be wider than the soft constraint it replaces, so the
\* relaxed search can have more candidates than the probe that was selected.
AnswerRefused ==
  /\ pc = "select" /\ Reruns /\ Refused(Final)
  /\ pc' = "error"
  /\ UNCHANGED <<req, soft, passes, response>>

Next ==
  \/ PlanQuery \/ PlanningBreaks \/ Primary \/ PrimaryRefused
  \/ \E n \in 2..5 : RelaxPass(n) \/ ProbeRefused(n)
  \/ LadderStops \/ Answer \/ AnswerRefused

Spec == Init /\ [][Next]_vars

-----------------------------------------------------------------------------
(* Properties.                                                             *)

\* On a dataset with an active run, whatever the parser inferred and however
\* far the ladder went, the answer holds only segments that satisfy the user's
\* own metadata and telemetry filters.
AnswerHonoursManual == req.kind # "legacy" => response \subseteq Honouring

\* Without telemetry filters the diagnostics tell the truth: the count of the
\* selected pass is the number of results in an auto_soft answer.
CountMatchesAnswer ==
  pc = "done" /\ req.mode = "auto_soft" /\ req.telemetry = NoFilter =>
    response = passes[Len(passes)]

\* A constraint is dropped only after a search with it has come back short.
RelaxedOnlyWhenShort == \A i \in 1..Len(passes) - 1 : ~Enough(passes[i])

\* diagnose_only and off answer with the results of the primary search.
AnswerUnchanged ==
  pc = "done" /\ req.mode # "auto_soft" => response = passes[1]
=============================================================================
