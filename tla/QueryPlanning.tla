--------------------------- MODULE QueryPlanning ----------------------------
(***************************************************************************)
(* planner.plan_query: a query becomes structured constraints, by the      *)
(* ontology (rules.parse) or by the completion of a language model         *)
(* (llm._parse_llm_response); those on fields the dataset has become the   *)
(* filter dictionary that pushdown.normalize_filters reads.  Text is       *)
(* abstracted to the concepts it mentions.  A list of constraints is a     *)
(* function: from the concepts it was made for, or from positions in the   *)
(* completion, in their order, which is the order of the list.             *)
(***************************************************************************)
EXTENDS FilterTranslation, Sequences, FiniteSetsExt

CONSTANTS
  Ontology,   \* concept -> [family, field, specificity]
  Nowhere     \* a field name outside the canonical ones

ASSUME PlanningAssumption ==
  /\ \A c \in DOMAIN Ontology : Ontology[c].field \in Fields /\ Ontology[c].specificity \in Nat
  /\ Nowhere \notin Fields

\* The value of a constraint: a number, a pair of numbers, or neither.
Constraint(f, op, v) == [field |-> f, operator |-> op, value |-> v]
Value(shape, lo, hi) == [shape |-> shape, lo |-> lo, hi |-> hi]
Number(x) == Value("number", {x}, {x})

-----------------------------------------------------------------------------
(* rules.parse: matched is the set of concepts one of whose synonyms is a  *)
(* word of the query; overrides are its phrases "at least <n> <word>", each*)
(* with the concepts that have a synonym inside that word.                 *)

\* Mutant of Selected: every matching concept is kept.
SelectedAll(matched) == matched

\* resolve_specificity: the most specific matches of each family survive.
Selected(matched) ==
  {c \in matched : \A d \in matched :
     Ontology[d].family = Ontology[c].family => Ontology[d].specificity <= Ontology[c].specificity}

\* The last phrase about a concept counts; without one, a single object will do.
Minimum(c, overrides) ==
  LET about == {i \in DOMAIN overrides : c \in overrides[i].concepts}
  IN  IF about = {} THEN 1 ELSE overrides[Max(about)].minimum

RulesParse(matched, overrides) ==
  [c \in Selected(matched) |->
     Constraint(Ontology[c].field, "gte", Number(Minimum(c, overrides)))]

-----------------------------------------------------------------------------
(* _parse_llm_response.                                                    *)

\* What becomes of one constraint: it is skipped or kept, or the whole completion
\* is rejected (LLMParserError) or raises another exception.
NumericVerdict(c) == IF c.value.shape = "number" THEN "keep" ELSE "raise"

\* _validate_value.
ValueVerdict(c) ==
  CASE c.operator = "range" /\ c.value.shape # "pair" -> "reject"
    [] c.operator = "range" -> IF c.value.lo = {} \/ c.value.hi = {} THEN "raise" ELSE "keep"
    [] FieldType[c.field] \in {"keyword", "boolean"} -> IF c.operator = "eq" THEN "keep" ELSE "reject"
    [] OTHER -> IF c.operator = "eq" THEN "reject" ELSE NumericVerdict(c)

Verdict(c, available) ==
  CASE c.field \notin Fields -> "reject"
    [] c.field \notin available -> "skip"
    [] c.operator \notin {"eq", "gte", "lte", "range"} -> "reject"
    [] OTHER -> ValueVerdict(c)

\* The confidence of a constraint is read after its value: one that is not a number in
\* [0,1] raises.  completion.dubious are the constraints that have such a confidence.
VerdictOn(i, completion, available) ==
  LET verdict == Verdict(completion.constraints[i], available)
  IN  IF verdict = "keep" /\ i \in completion.dubious THEN "raise" ELSE verdict

\* The first constraint that is not fine decides; text that is not JSON is <<>>
\* with json = FALSE.
LlmOutcome(completion, available) ==
  LET bad == {i \in DOMAIN completion.constraints :
                VerdictOn(i, completion, available) \in {"reject", "raise"}}
  IN  CASE ~completion.json -> "reject"
        [] bad # {} -> VerdictOn(Min(bad), completion, available)
        [] OTHER -> "keep"

LlmParse(completion, available) ==
  LET cs == completion.constraints
  IN  [i \in {i \in DOMAIN cs : Verdict(cs[i], available) = "keep"} |-> cs[i]]

-----------------------------------------------------------------------------
(* plan_query and constraints_to_filter_dict.                              *)

\* split_by_coverage.
Covered(constraints, available) ==
  [i \in {i \in DOMAIN constraints : constraints[i].field \in available \cap Fields} |->
     constraints[i]]

RulesPlan(matched, overrides, available) ==
  [outcome |-> "planned", fallback |-> FALSE,
   constraints |-> Covered(RulesParse(matched, overrides), available)]

\* A rejected completion falls back to no constraints; other exceptions escape.
LlmPlan(completion, available) ==
  CASE LlmOutcome(completion, available) = "keep" ->
         [outcome |-> "planned", fallback |-> FALSE,
          constraints |-> Covered(LlmParse(completion, available), available)]
    [] LlmOutcome(completion, available) = "reject" ->
         [outcome |-> "planned", fallback |-> TRUE, constraints |-> <<>>]
    [] OTHER -> [outcome |-> "raised", fallback |-> FALSE, constraints |-> <<>>]

Bounds(constraints, f, ops) ==
  {i \in DOMAIN constraints : constraints[i].field = f /\ constraints[i].operator \in ops}

\* Mutant of Tightest: the widest bound wins.
TightestWidest(S, T) == Raw("mapping", IF S = {} THEN {} ELSE {Min(S)},
                                       IF T = {} THEN {} ELSE {Max(T)}, FALSE)

\* "the tightest bound wins".
Tightest(S, T) == Raw("mapping", IF S = {} THEN {} ELSE {Max(S)},
                                 IF T = {} THEN {} ELSE {Min(T)}, FALSE)

\* A field with bounds loses its equality; of two equalities the last stays.
FieldFilter(cs, f) ==
  LET lows  == UNION {cs[i].value.lo : i \in Bounds(cs, f, {"gte", "range"})}
      highs == UNION {cs[i].value.hi : i \in Bounds(cs, f, {"lte", "range"})}
      equal == Bounds(cs, f, {"eq"})
  IN  IF lows \cup highs # {} THEN Tightest(lows, highs)
      ELSE Raw("scalar", cs[Max(equal)].value.lo, cs[Max(equal)].value.hi, FALSE)

FilterDict(cs) ==
  [f \in {cs[i].field : i \in DOMAIN cs} |-> FieldFilter(cs, f)]

-----------------------------------------------------------------------------
(* What a plan promises.                                                   *)

\* What one constraint says of a stored segment.
Holds(c, rec) ==
  \E x \in Stored(rec, c.field) :
    CASE c.operator = "eq"    -> c.value.lo = {x}
      [] c.operator = "gte"   -> \A lo \in c.value.lo : x >= lo
      [] c.operator = "lte"   -> \A hi \in c.value.hi : x <= hi
      [] OTHER -> (\A lo \in c.value.lo : x >= lo) /\ (\A hi \in c.value.hi : x <= hi)

\* Plans whose filter has a meaning in every backend: numbers with bounds, and
\* keywords and booleans with at most one equality.
Plain(cs) ==
  \A i \in DOMAIN cs :
    \/ FieldType[cs[i].field] \in {"integer", "float"} /\ cs[i].operator # "eq"
    \/ /\ FieldType[cs[i].field] \in {"keyword", "boolean"} /\ cs[i].operator = "eq"
       /\ cs[i].value.shape = "number"
       /\ \A j \in DOMAIN cs : cs[j].field = cs[i].field => j = i

\* A planned filter is the conjunction of its constraints.
IsConjunction(cs, rec) ==
  Plain(cs) /\ RoundingHarmless(rec, FilterDict(cs)) =>
    (PgSelects(rec, FilterDict(cs)) <=> \A i \in DOMAIN cs : Holds(cs[i], rec))

\* What rules.parse makes of a query: a segment passes if and only if it has, for
\* every concept mentioned that the dataset can count, the number asked for, or a
\* more specific concept of the same family was mentioned as well.
Outranked(c, matched) == \E d \in matched :
  Ontology[d].family = Ontology[c].family /\ Ontology[d].specificity > Ontology[c].specificity

MeansQuery(plan, matched, overrides, available, rec) ==
  (\A c \in matched : FieldType[Ontology[c].field] = "integer") =>
    (PgSelects(rec, FilterDict(plan.constraints)) <=>
       \A c \in matched :
         \/ Outranked(c, matched) \/ Ontology[c].field \notin available
         \/ \E x \in Stored(rec, Ontology[c].field) : x >= Minimum(c, overrides))
=============================================================================
