------------------------- MODULE FilterTranslation --------------------------
(***************************************************************************)
(* One filter, five readings: pushdown.normalize_filters turns the filters *)
(* of a request into predicates, and PostgreSQL, ClickHouse, Qdrant, the   *)
(* correctness check over the hydrated rows (pushdown.matches) and the     *)
(* unversioned compatibility path each evaluate them on what ingest stored.*)
(*                                                                         *)
(* A value that may be missing is a set with at most one element, so that  *)
(* a comparison with NULL, which no backend makes true, is \E over {}.     *)
(***************************************************************************)
EXTENDS Integers

CONSTANTS
  FieldType,   \* field -> "keyword", "boolean", "integer", "float", "circular_deg"
  Enrichment,  \* the detector's columns: float, neither hydrated nor in Qdrant
  Unversioned, \* the telemetry columns the compatibility path knows
  FullCircle   \* 360

Fields == DOMAIN FieldType

ASSUME FilterAssumption ==
  /\ FieldType \in [Fields -> {"keyword", "boolean", "integer", "float", "circular_deg"}]
  /\ Enrichment \cup Unversioned \subseteq {f \in Fields : FieldType[f] = "float"}
  /\ Enrichment \cap Unversioned = {}
  /\ FullCircle \in Nat \ {0}

\* A raw filter value: nothing (None, "", []), one value, a pair or a mapping.
Raw(form, lo, hi, wrap) == [form |-> form, min |-> lo, max |-> hi, wrap |-> wrap]

Predicate(f, kind, lo, hi, wrap) ==
  [field |-> f, kind |-> kind, min |-> lo, max |-> hi, wrap |-> wrap]

-----------------------------------------------------------------------------
(* normalize_filters.                                                      *)

\* {**metadata_filters, **telemetry_filters}: the telemetry filter wins.
Merged(meta, telemetry) ==
  [f \in DOMAIN meta \cup DOMAIN telemetry |->
     IF f \in DOMAIN telemetry THEN telemetry[f] ELSE meta[f]]

Given(filters) == {f \in DOMAIN filters : filters[f].form # "nothing"}

OutOfCircle(bound) == \E x \in bound : x < 0 \/ x >= FullCircle

\* The ValueError for an unknown field or a heading outside [0,360).
Rejected(filters) ==
  \E f \in Given(filters) :
    \/ f \notin Fields
    \/ /\ FieldType[f] = "circular_deg"
       /\ OutOfCircle(filters[f].min) \/ OutOfCircle(filters[f].max)

\* Mutant of Wraps: the order of the two bounds is not looked at.
WrapsIfAsked(f, raw) == raw.wrap

\* A heading range whose minimum is above its maximum goes through north.
Wraps(f, raw) ==
  \/ raw.wrap
  \/ FieldType[f] = "circular_deg" /\ \E lo \in raw.min : \E hi \in raw.max : lo > hi

\* A pair or a mapping as the value of an equality passes normalize_filters, and
\* then no driver can send it.
Malformed(filters) == \E f \in Given(filters) \cap Fields :
  FieldType[f] \in {"keyword", "boolean"} /\ filters[f].form # "scalar"

Normalized(f, raw) ==
  IF FieldType[f] \in {"keyword", "boolean"}
  THEN Predicate(f, "equals", raw.min, raw.min, FALSE)
  ELSE Predicate(f, "range", raw.min, raw.max, Wraps(f, raw))

Predicates(filters) == {Normalized(f, filters[f]) : f \in Given(filters)}

-----------------------------------------------------------------------------
(* What ingest stores of a window's telemetry, in each place.              *)

\* Counts: int(x or 0).
OrZero(v) == IF v = {} THEN {0} ELSE v

\* A 32-bit column keeps every second value of the scale the filters use.
Narrow(v) == {2 * (x \div 2) : x \in v}

\* Mutant of Stored: a window without counts has none in the vector stores.
StoredNullable(rec, f) == IF FieldType[f] = "boolean" THEN OrZero(rec[f]) ELSE rec[f]

\* _vector_rows: what the vector stores are given.
Stored(rec, f) ==
  IF FieldType[f] \in {"integer", "boolean"} THEN OrZero(rec[f]) ELSE rec[f]

\* _metadata_rows and the columns of POSTGRES_RUN_COLUMNS.
PgColumn(rec, f) ==
  CASE FieldType[f] \in {"integer", "boolean"} -> OrZero(rec[f])
    [] FieldType[f] \in {"float", "circular_deg"} -> Narrow(rec[f])
    [] OTHER -> rec[f]

ChColumn(rec, f) ==
  IF FieldType[f] \in {"float", "circular_deg"} THEN Narrow(Stored(rec, f)) ELSE Stored(rec, f)

\* The payload has no key for a missing value, and nothing of the detector.
QdrantPayload(rec, f) == IF f \in Enrichment THEN {} ELSE Stored(rec, f)

\* The shortest decimal that a 32-bit column keeps as v: every third value of the
\* scale is short, and of two values kept alike the short one comes back.
Shortest(v) == {IF (x + 1) % 3 = 0 THEN x + 1 ELSE x : x \in Narrow(v)}

\* hydrate: the columns of the run, a 32-bit value as its shortest decimal.
Hydrated(rec, f) ==
  CASE f \in Enrichment -> {}
    [] FieldType[f] \in {"float", "circular_deg"} -> Shortest(rec[f])
    [] OTHER -> Stored(rec, f)

-----------------------------------------------------------------------------
(* The translations.                                                       *)

Both(p) == p.min # {} /\ p.max # {}
AtLeast(v, bound) == \A lo \in bound : \E x \in v : x >= lo
AtMost(v, bound) == \A hi \in bound : \E x \in v : x <= hi

\* sql_predicates, evaluated by PostgreSQL; an absent bound adds no clause.
SqlClause(p, v) ==
  CASE p.kind = "equals" -> \E x \in v : p.min = {x}
    [] p.kind = "range" /\ p.wrap /\ Both(p) -> AtLeast(v, p.min) \/ AtMost(v, p.max)
    [] OTHER -> AtLeast(v, p.min) /\ AtMost(v, p.max)

PgSelects(rec, filters) ==
  \A p \in Predicates(filters) : SqlClause(p, PgColumn(rec, p.field))

\* clickhouse.search_vectors builds the clauses of its own.
ChClause(p, v) ==
  CASE p.kind = "equals" -> \E x \in v : p.min = {x}
    [] p.kind = "range" /\ p.wrap /\ Both(p) -> AtLeast(v, p.min) \/ AtMost(v, p.max)
    [] OTHER -> AtLeast(v, p.min) /\ AtMost(v, p.max)

ChSelects(rec, filters) ==
  \A p \in Predicates(filters) : ChClause(p, ChColumn(rec, p.field))

\* qdrant._filter: a Range holds only of a payload that has the key, and the value
\* of a MatchValue on a boolean field is a JSON boolean, which 0 and 1 are not.
QdrantRange(v, lo, hi) == v # {} /\ AtLeast(v, lo) /\ AtMost(v, hi)

QdrantCondition(p, v) ==
  CASE p.kind = "equals" -> FieldType[p.field] # "boolean" /\ \E x \in v : p.min = {x}
    [] p.kind = "range" /\ p.wrap /\ Both(p) -> QdrantRange(v, p.min, {}) \/ QdrantRange(v, {}, p.max)
    [] OTHER -> QdrantRange(v, p.min, p.max)

QdrantSelects(rec, filters) ==
  \A p \in Predicates(filters) : QdrantCondition(p, QdrantPayload(rec, p.field))

\* Mutant of MatchesOne: a range that wraps is an ordinary one.
MatchesOneFlat(p, v) ==
  \E x \in v :
    IF p.kind = "equals" THEN p.min = {x}
    ELSE ~(\E lo \in p.min : x < lo) /\ ~(\E hi \in p.max : x > hi)

\* matches: the rows that come back are checked once more.
MatchesOne(p, v) ==
  \E x \in v :
    CASE p.kind = "equals" -> p.min = {x}
      [] p.kind = "range" /\ p.wrap /\ Both(p) -> AtLeast({x}, p.min) \/ AtMost({x}, p.max)
      [] OTHER -> ~(\E lo \in p.min : x < lo) /\ ~(\E hi \in p.max : x > hi)

Matches(rec, filters) ==
  \A p \in Predicates(filters) : MatchesOne(p, Hydrated(rec, p.field))

\* filter_segment_ids: the unversioned tables, each filter from its own dictionary.
\* "lo, hi = bounds" fails for a number and reads the keys of a mapping; 0 is skipped.
Unpaired(telemetry) ==
  \E f \in Given(telemetry) \cap Unversioned : telemetry[f].form # "pair"

\* Not being asked for anything, a dictionary without filters joins no telemetry; any
\* other, even of empty filters, leaves out a segment without a row of telemetry.
Joins(hasRow, telemetry) == DOMAIN telemetry # {} => hasRow

\* Mutant of UnversionedSelects: "if hi" where the code has "if hi is not None".
UnversionedSelectsTruthy(rec, hasRow, meta, telemetry) ==
  /\ Joins(hasRow, telemetry)
  /\ \A f \in Given(meta) : FieldType[f] = "keyword" => \E x \in rec[f] : meta[f].min = {x}
  /\ \A f \in Given(telemetry) \cap Unversioned :
       /\ AtLeast(Narrow(rec[f]), telemetry[f].min)
       /\ AtMost(Narrow(rec[f]), telemetry[f].max \ {0})

UnversionedSelects(rec, hasRow, meta, telemetry) ==
  /\ Joins(hasRow, telemetry)
  /\ \A f \in Given(meta) : FieldType[f] = "keyword" => \E x \in rec[f] : meta[f].min = {x}
  /\ \A f \in Given(telemetry) \cap Unversioned :
       AtLeast(Narrow(rec[f]), telemetry[f].min) /\ AtMost(Narrow(rec[f]), telemetry[f].max)

-----------------------------------------------------------------------------
(* What the readings have in common.                                       *)

SameSide(x, y, bounds) == \A b \in bounds : (x >= b <=> y >= b) /\ (x <= b <=> y <= b)

\* The value itself, its 32-bit rounding and the decimal that comes back are on the
\* same side of every bound of the filters: the rounding decides nothing.
RoundingHarmless(rec, filters) ==
  \A p \in Predicates(filters) : FieldType[p.field] \in {"float", "circular_deg"} =>
    \A x \in rec[p.field], y \in Narrow(rec[p.field]) \cup Shortest(rec[p.field]) :
      SameSide(x, y, p.min \cup p.max)

\* A filter without any bound is no filter in SQL, but asks Qdrant and the
\* correctness check for a value.
Bounded(filters) == \A p \in Predicates(filters) : p.min # {} \/ p.max # {}

Comparable(rec, filters) ==
  /\ ~Rejected(filters) /\ ~Malformed(filters) /\ Bounded(filters)
  /\ RoundingHarmless(rec, filters)

\* The pushdown of each backend returns the segments PostgreSQL would name.
Agree(rec, filters) ==
  Comparable(rec, filters) =>
    /\ ChSelects(rec, filters) <=> PgSelects(rec, filters)
    /\ (\A p \in Predicates(filters) :
          FieldType[p.field] # "boolean" /\ p.field \notin Enrichment)
       => (QdrantSelects(rec, filters) <=> PgSelects(rec, filters))

\* filter_correctness is true of every row the filter let through.
PassesCheck(rec, filters) ==
  /\ Comparable(rec, filters) /\ \A p \in Predicates(filters) : p.field \notin Enrichment
  /\ ChSelects(rec, filters)
  => Matches(rec, filters)

\* The headings from lo clockwise to hi.
Arc(lo, hi) == {(lo + k) % FullCircle : k \in 0..(hi - lo) % FullCircle}

\* A heading filter selects exactly the headings of its arc, also through north.
SelectsArc(rec, filters) ==
  \A f \in Given(filters) :
    /\ Comparable(rec, filters) /\ Given(filters) = {f}
    /\ FieldType[f] = "circular_deg" /\ ~filters[f].wrap
    => \A lo \in filters[f].min, hi \in filters[f].max :
         PgSelects(rec, filters) <=> rec[f] # {} /\ rec[f] \subseteq Arc(lo, hi)

\* A migrated dataset answers a filter as it did before, if no telemetry filter, not
\* even an empty one, has the name of a metadata filter; but filters that ask nothing
\* of the telemetry no longer leave out the segments without a row of it.
SameUnversioned(rec, hasRow, meta, telemetry) ==
  LET before == UnversionedSelects(rec, hasRow, meta, telemetry)
      after  == PgSelects(rec, Merged(meta, telemetry))
      both   == Merged(meta, telemetry)
  IN  /\ ~Rejected(both) /\ ~Malformed(both) /\ Bounded(both)
      /\ ~Unpaired(telemetry) /\ Given(telemetry) \subseteq Unversioned
      /\ Given(meta) \cap DOMAIN telemetry = {}
      /\ \A f \in Given(meta) : FieldType[f] = "keyword"
      /\ ~hasRow => \A f \in Unversioned : rec[f] = {}
      => /\ before => after
         /\ after /\ ~before =>
              ~hasRow /\ DOMAIN telemetry # {} /\ Given(telemetry) = {}
=============================================================================
