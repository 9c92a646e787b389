-------------------------- MODULE AlgorithmsProofs --------------------------
(***************************************************************************)
(* Theorems about the algorithms without state, for every schema of fields,*)
(* value and circle: the translations of a filter agree with each other    *)
(* and with its meaning, and the filter of a plan with its constraints; a  *)
(* window's telemetry depends on what is near it, and nothing in it is     *)
(* extrapolated.                                                           *)
(***************************************************************************)
EXTENDS MCAlgorithms, FiniteSetTheorems, TLAPS

\* A value that may be missing.
Maybe(S) == {v \in SUBSET S : \A x, y \in v : x = y}

\* A segment has one value or none in every field.
Record == [Fields -> Maybe(Int)]

\* Only a mapping can ask for the wrap.
RawFilter ==
  {raw \in [form : {"nothing", "scalar", "pair", "mapping"},
            min : Maybe(Int), max : Maybe(Int), wrap : BOOLEAN] :
     raw.form # "mapping" => ~raw.wrap}

\* The filters of a request, on any fields.
IsFilters(filters) == \A f \in DOMAIN filters : filters[f] \in RawFilter

-----------------------------------------------------------------------------
(* One predicate.                                                          *)

LEMMA PredicateFacts ==
  ASSUME NEW filters, IsFilters(filters), ~Rejected(filters), NEW p \in Predicates(filters)
  PROVE  /\ p.field \in Given(filters) /\ p.field \in Fields
         /\ p = Normalized(p.field, filters[p.field])
         /\ p.kind \in {"equals", "range"} /\ p.min \in Maybe(Int) /\ p.max \in Maybe(Int)
         /\ p.kind = "range" <=> FieldType[p.field] \notin {"keyword", "boolean"}
<1>1. PICK f \in Given(filters) : p = Normalized(f, filters[f])
  BY DEF Predicates
<1>2. f \in Fields /\ filters[f] \in RawFilter
  BY DEF Rejected, IsFilters, Given
<1>. QED
  BY <1>1, <1>2 DEF Normalized, Predicate, RawFilter

LEMMA StoredValue ==
  ASSUME NEW rec \in Record, NEW f \in Fields
  PROVE  Stored(rec, f) \in Maybe(Int)
BY DEF Record, Stored, OrZero, Maybe

LEMMA HydratedValue ==
  ASSUME NEW rec \in Record, NEW f \in Fields
  PROVE  Hydrated(rec, f) \in Maybe(Int)
<1>1. Stored(rec, f) \in Maybe(Int) /\ rec[f] \in Maybe(Int)
  BY StoredValue DEF Record
<1>2. Shortest(rec[f]) \in Maybe(Int)
  BY <1>1 DEF Shortest, Narrow, Maybe
<1>. QED
  BY <1>1, <1>2 DEF Hydrated, Maybe

\* The bounds hold alike of two values that are on the same side of each.
LEMMA SameBounds ==
  ASSUME NEW v \in Maybe(Int), NEW w, NEW lo \in Maybe(Int), NEW hi \in Maybe(Int),
         v # {} <=> w # {}, \A x \in v, y \in w : SameSide(x, y, lo \cup hi)
  PROVE  /\ AtLeast(w, lo) <=> AtLeast(v, lo)
         /\ AtMost(w, hi) <=> AtMost(v, hi)
<1>1. CASE v = {}
  BY <1>1
<1>2. CASE v # {}
  <2>1. PICK x \in v : TRUE
    BY <1>2
  <2>2. PICK y \in w : TRUE
    BY <1>2
  <2>3. \A z \in v : z = x
    BY <2>1 DEF Maybe
  <2>4. \A b \in lo \cup hi, z \in w : (x >= b <=> z >= b) /\ (x <= b <=> z <= b)
    BY <2>1 DEF SameSide
  <2>5. ASSUME NEW b \in lo PROVE (\E z \in w : z >= b) <=> (\E z \in v : z >= b)
    BY <2>1, <2>2, <2>3, <2>4, Zenon
  <2>6. ASSUME NEW b \in hi PROVE (\E z \in w : z <= b) <=> (\E z \in v : z <= b)
    BY <2>1, <2>2, <2>3, <2>4, Zenon
  <2>. QED
    BY <2>5, <2>6, Zenon DEF AtLeast, AtMost
<1>. QED
  BY <1>1, <1>2

\* What a column, the payload or the hydrated row has instead of the stored value.
Readings(rec, f) ==
  {PgColumn(rec, f), ChColumn(rec, f)}
  \cup (IF f \in Enrichment THEN {} ELSE {QdrantPayload(rec, f), Hydrated(rec, f)})

\* Where rounding is harmless, a predicate holds of every reading or of none.
LEMMA Columns ==
  ASSUME NEW rec \in Record, NEW filters, IsFilters(filters), ~Rejected(filters),
         RoundingHarmless(rec, filters), NEW p \in Predicates(filters),
         NEW w \in Readings(rec, p.field)
  PROVE  /\ w # {} <=> Stored(rec, p.field) # {}
         /\ AtLeast(w, p.min) <=> AtLeast(Stored(rec, p.field), p.min)
         /\ AtMost(w, p.max) <=> AtMost(Stored(rec, p.field), p.max)
         /\ p.kind = "equals" => w = Stored(rec, p.field)
<1>. DEFINE f == p.field  v == Stored(rec, f)
<1>1. /\ f \in Fields /\ p.min \in Maybe(Int) /\ p.max \in Maybe(Int) /\ v \in Maybe(Int)
      /\ p.kind = "equals" => FieldType[f] \in {"keyword", "boolean"}
  BY PredicateFacts, StoredValue
<1>2. CASE FieldType[f] \notin {"float", "circular_deg"}
  <2>1. w = v
    BY <1>1, <1>2, FilterAssumption
    DEF Readings, PgColumn, ChColumn, Stored, QdrantPayload, Hydrated
  <2>. QED
    BY <2>1
<1>3. CASE FieldType[f] \in {"float", "circular_deg"}
  <2>1. v = rec[f]
    BY <1>3 DEF Stored
  <2>2. w \in {v, Narrow(v), Shortest(v)}
    BY <1>3, <2>1 DEF Readings, PgColumn, ChColumn, Stored, QdrantPayload, Hydrated
  <2>3. v # {} <=> w # {}
    <3>1. Narrow(v) = {} <=> v = {}
      BY DEF Narrow
    <3>2. Shortest(v) = {} <=> Narrow(v) = {}
      BY DEF Shortest
    <3>. QED
      BY <2>2, <3>1, <3>2, Zenon
  <2>4. \A x \in v, y \in w : SameSide(x, y, p.min \cup p.max)
    <3>1. CASE w = v
      BY <1>1, <3>1 DEF SameSide, Maybe
    <3>2. CASE w # v
      BY <1>3, <2>1, <2>2, <3>2 DEF RoundingHarmless
    <3>. QED
      BY <3>1, <3>2
  <2>5. AtLeast(w, p.min) <=> AtLeast(v, p.min)
    BY <1>1, <2>3, <2>4, SameBounds
  <2>6. AtMost(w, p.max) <=> AtMost(v, p.max)
    BY <1>1, <2>3, <2>4, SameBounds
  <2>. QED
    BY <1>1, <1>3, <2>3, <2>5, <2>6
<1>. QED
  BY <1>2, <1>3

\* So PostgreSQL may as well have the stored value.
LEMMA PgReadsStored ==
  ASSUME NEW rec \in Record, NEW filters, IsFilters(filters), ~Rejected(filters),
         RoundingHarmless(rec, filters), NEW p \in Predicates(filters)
  PROVE  SqlClause(p, PgColumn(rec, p.field)) <=> SqlClause(p, Stored(rec, p.field))
<1>1. PgColumn(rec, p.field) \in Readings(rec, p.field)
  BY DEF Readings
<1>. QED
  BY <1>1, Columns DEF SqlClause

\* Two bounds around at most one value.
LEMMA Clauses ==
  ASSUME NEW v \in Maybe(Int), NEW lo \in Maybe(Int), NEW hi \in Maybe(Int)
  PROVE  /\ lo # {} => (AtLeast(v, lo) <=> QdrantRange(v, lo, {}))
         /\ hi # {} => (AtMost(v, hi) <=> QdrantRange(v, {}, hi))
         /\ lo # {} \/ hi # {} => (AtLeast(v, lo) /\ AtMost(v, hi) <=> QdrantRange(v, lo, hi))
BY DEF Maybe, AtLeast, AtMost, QdrantRange

-----------------------------------------------------------------------------
\* Whatever a request filters by, ClickHouse and Qdrant return what PostgreSQL names.
THEOREM TranslationsAgree ==
  ASSUME NEW rec \in Record, NEW filters, IsFilters(filters)
  PROVE  Agree(rec, filters)
<1>. SUFFICES ASSUME Comparable(rec, filters)
              PROVE  /\ ChSelects(rec, filters) <=> PgSelects(rec, filters)
                     /\ (\A p \in Predicates(filters) :
                           FieldType[p.field] # "boolean" /\ p.field \notin Enrichment)
                        => (QdrantSelects(rec, filters) <=> PgSelects(rec, filters))
  BY DEF Agree
<1>1. ~Rejected(filters) /\ RoundingHarmless(rec, filters) /\ Bounded(filters)
  BY DEF Comparable
<1>2. ASSUME NEW p \in Predicates(filters)
      PROVE  ChClause(p, ChColumn(rec, p.field)) <=> SqlClause(p, PgColumn(rec, p.field))
  <2>1. ChColumn(rec, p.field) \in Readings(rec, p.field)
    BY DEF Readings
  <2>2. ChClause(p, ChColumn(rec, p.field)) <=> SqlClause(p, Stored(rec, p.field))
    BY <1>1, <2>1, Columns DEF ChClause, SqlClause
  <2>. QED
    BY <1>1, <2>2, PgReadsStored
<1>3. ASSUME NEW p \in Predicates(filters), FieldType[p.field] # "boolean", p.field \notin Enrichment
      PROVE  QdrantCondition(p, QdrantPayload(rec, p.field)) <=> SqlClause(p, PgColumn(rec, p.field))
  <2>. DEFINE v == Stored(rec, p.field)
  <2>1. /\ p.field \in Fields /\ p.kind \in {"equals", "range"}
        /\ p.min \in Maybe(Int) /\ p.max \in Maybe(Int)
    BY <1>1, PredicateFacts
  <2>2. p.min # {} \/ p.max # {}
    BY <1>1 DEF Bounded
  <2>3. v \in Maybe(Int) /\ QdrantPayload(rec, p.field) = v
    BY <1>3, <2>1, StoredValue DEF QdrantPayload
  <2>4. SqlClause(p, PgColumn(rec, p.field)) <=> SqlClause(p, v)
    BY <1>1, PgReadsStored
  <2>. HIDE DEF v
  <2>5. /\ p.min # {} => (AtLeast(v, p.min) <=> QdrantRange(v, p.min, {}))
        /\ p.max # {} => (AtMost(v, p.max) <=> QdrantRange(v, {}, p.max))
        /\ AtLeast(v, p.min) /\ AtMost(v, p.max) <=> QdrantRange(v, p.min, p.max)
    BY <2>1, <2>2, <2>3, Clauses
  <2>6. QdrantCondition(p, v) <=> SqlClause(p, v)
    BY <1>3, <2>1, <2>2, <2>5 DEF QdrantCondition, SqlClause, Both
  <2>. QED
    BY <2>3, <2>4, <2>6
<1>. QED
  BY <1>2, <1>3 DEF ChSelects, PgSelects, QdrantSelects

\* The check of the hydrated rows never denies a row the backend's filter returned.
THEOREM CheckAcceptsAnswers ==
  ASSUME NEW rec \in Record, NEW filters, IsFilters(filters)
  PROVE  PassesCheck(rec, filters)
<1>. SUFFICES ASSUME Comparable(rec, filters), \A p \in Predicates(filters) : p.field \notin Enrichment,
                     ChSelects(rec, filters), NEW p \in Predicates(filters)
              PROVE  MatchesOne(p, Hydrated(rec, p.field))
  BY DEF PassesCheck, Matches
<1>. DEFINE v == Hydrated(rec, p.field)
<1>1. ~Rejected(filters) /\ RoundingHarmless(rec, filters) /\ (p.min # {} \/ p.max # {})
  BY DEF Comparable, Bounded
<1>2. /\ p.field \in Fields /\ p.kind \in {"equals", "range"}
      /\ p.min \in Maybe(Int) /\ p.max \in Maybe(Int)
  BY <1>1, PredicateFacts
<1>3. v \in Maybe(Int)
  BY <1>2, HydratedValue
<1>4. ChClause(p, v)
  <2>. DEFINE w == ChColumn(rec, p.field)
  <2>1. v \in Readings(rec, p.field) /\ w \in Readings(rec, p.field) /\ ChClause(p, w)
    BY DEF Readings, ChSelects
  <2>2. /\ AtLeast(w, p.min) <=> AtLeast(v, p.min)
        /\ AtMost(w, p.max) <=> AtMost(v, p.max)
        /\ p.kind = "equals" => w = v
    BY <1>1, <2>1, Columns
  <2>. QED
    BY <2>1, <2>2 DEF ChClause
<1>. SUFFICES MatchesOne(p, v)
  OBVIOUS
<1>. HIDE DEF v
<1>5. CASE p.kind = "equals"
  BY <1>3, <1>4, <1>5 DEF ChClause, MatchesOne
<1>6. CASE p.kind = "range"
  <2>1. PICK x \in v : TRUE
    BY <1>1, <1>2, <1>4, <1>6 DEF ChClause, Both, AtLeast, AtMost
  <2>2. x \in Int /\ \A y \in v : y = x
    BY <1>3, <2>1 DEF Maybe
  <2>3. /\ AtLeast({x}, p.min) <=> AtLeast(v, p.min)
        /\ AtMost({x}, p.max) <=> AtMost(v, p.max)
    BY <1>2, <2>1, <2>2 DEF AtLeast, AtMost
  <2>4. CASE p.wrap /\ Both(p)
    <3>1. AtLeast({x}, p.min) \/ AtMost({x}, p.max)
      BY <1>4, <1>6, <2>3, <2>4 DEF ChClause
    <3>2. p.kind # "equals"
      BY <1>6
    <3>. QED
      BY <1>3, <1>6, <2>1, <2>4, <3>1, <3>2 DEF MatchesOne
  <2>5. CASE ~(p.wrap /\ Both(p))
    <3>1. AtLeast(v, p.min) /\ AtMost(v, p.max)
      BY <1>4, <1>6, <2>5 DEF ChClause
    <3>2. ~(\E lo \in p.min : x < lo) /\ ~(\E hi \in p.max : x > hi)
      BY <1>2, <2>2, <3>1 DEF AtLeast, AtMost, Maybe
    <3>3. p.kind # "equals"
      BY <1>6
    <3>. QED
      BY <1>3, <1>6, <2>1, <2>5, <3>2, <3>3 DEF MatchesOne
  <2>. QED
    BY <2>4, <2>5
<1>. QED
  BY <1>2, <1>3, <1>5, <1>6

-----------------------------------------------------------------------------
(* Headings.                                                               *)

\* What a turn of at most one circle leaves.
LEMMA Turn ==
  ASSUME NEW n \in Int, -FullCircle <= n, n < 2 * FullCircle
  PROVE  n % FullCircle = IF n < 0 THEN n + FullCircle
                          ELSE IF n < FullCircle THEN n ELSE n - FullCircle
<1>1. FullCircle \in Nat /\ FullCircle > 0
  BY FilterAssumption
<1>. DEFINE q == n \div FullCircle  r == n % FullCircle
<1>2. q \in Int /\ r \in Int /\ 0 <= r /\ r < FullCircle /\ n = FullCircle * q + r
  BY <1>1
<1>. HIDE DEF q, r
<1>3. q = -1 \/ q = 0 \/ q = 1
  <2>1. CASE q <= -2
    <3>1. FullCircle * q <= FullCircle * (-2)
      BY <1>1, <1>2, <2>1
    <3>. QED
      BY <1>1, <1>2, <3>1
  <2>2. CASE q >= 2
    <3>1. FullCircle * q >= FullCircle * 2
      BY <1>1, <1>2, <2>2
    <3>. QED
      BY <1>1, <1>2, <3>1
  <2>. QED
    BY <1>2, <2>1, <2>2
<1>4. FullCircle * q = IF q = -1 THEN -FullCircle ELSE IF q = 0 THEN 0 ELSE FullCircle
  BY <1>1, <1>3
<1>5. r = IF n < 0 THEN n + FullCircle
          ELSE IF n < FullCircle THEN n ELSE n - FullCircle
  BY <1>1, <1>2, <1>3, <1>4
<1>. QED
  BY <1>5 DEF r

\* A heading lies on the arc when it is between the ends, or beyond one of them if
\* the arc goes through north.
LEMMA OnArc ==
  ASSUME NEW lo \in 0..FullCircle - 1, NEW hi \in 0..FullCircle - 1, NEW x \in 0..FullCircle - 1
  PROVE  x \in Arc(lo, hi) <=> IF lo > hi THEN x >= lo \/ x <= hi ELSE x >= lo /\ x <= hi
<1>1. FullCircle \in Nat /\ FullCircle > 0 /\ lo \in Int /\ hi \in Int /\ x \in Int
  BY FilterAssumption
<1>. DEFINE length == (hi - lo) % FullCircle
<1>2. length = IF hi < lo THEN hi - lo + FullCircle ELSE hi - lo
  BY <1>1, Turn
<1>3. length \in 0..FullCircle - 1
  BY <1>1, <1>2
<1>4. \A k \in 0..length : (lo + k) % FullCircle =
        IF lo + k < FullCircle THEN lo + k ELSE lo + k - FullCircle
  BY <1>1, <1>3, Turn
<1>5. Arc(lo, hi) = {(lo + k) % FullCircle : k \in 0..length}
  BY DEF Arc
<1>. HIDE DEF length
<1>6. ASSUME x \in Arc(lo, hi)
      PROVE  IF lo > hi THEN x >= lo \/ x <= hi ELSE x >= lo /\ x <= hi
  <2>1. PICK k \in 0..length : x = (lo + k) % FullCircle
    BY <1>5, <1>6
  <2>. QED
    BY <1>1, <1>2, <1>4, <2>1
<1>7. ASSUME IF lo > hi THEN x >= lo \/ x <= hi ELSE x >= lo /\ x <= hi
      PROVE  x \in Arc(lo, hi)
  <2>1. CASE x >= lo
    <3>1. x - lo \in 0..length
      BY <1>1, <1>2, <1>7, <2>1
    <3>2. x = (lo + (x - lo)) % FullCircle
      BY <1>1, <1>4, <2>1, <3>1
    <3>. QED
      BY <1>5, <3>1, <3>2
  <2>2. CASE x < lo
    <3>1. x - lo + FullCircle \in 0..length
      BY <1>1, <1>2, <1>7, <2>2
    <3>2. x = (lo + (x - lo + FullCircle)) % FullCircle
      BY <1>1, <1>4, <2>2, <3>1
    <3>. QED
      BY <1>5, <3>1, <3>2
  <2>. QED
    BY <1>1, <2>1, <2>2
<1>. QED
  BY <1>6, <1>7

\* Ingest normalises headings to the circle.
OnCircle(rec) ==
  \A f \in Fields : FieldType[f] = "circular_deg" => rec[f] \subseteq 0..FullCircle - 1

\* A heading range means the arc from its minimum clockwise to its maximum, on every
\* circle and also through north.
THEOREM HeadingRangeIsArc ==
  ASSUME NEW rec \in Record, OnCircle(rec), NEW filters, IsFilters(filters)
  PROVE  SelectsArc(rec, filters)
<1>. SUFFICES ASSUME NEW f \in Given(filters), Comparable(rec, filters), Given(filters) = {f},
                     FieldType[f] = "circular_deg", ~filters[f].wrap,
                     NEW lo \in filters[f].min, NEW hi \in filters[f].max
              PROVE  PgSelects(rec, filters) <=> rec[f] # {} /\ rec[f] \subseteq Arc(lo, hi)
  BY DEF SelectsArc
<1>. DEFINE raw == filters[f]
<1>1. ~Rejected(filters) /\ RoundingHarmless(rec, filters)
  BY DEF Comparable
<1>2. f \in Fields /\ raw \in RawFilter /\ rec[f] \in Maybe(Int)
  BY <1>1 DEF Rejected, IsFilters, Given, Record
<1>3. raw.min = {lo} /\ raw.max = {hi} /\ lo \in Int /\ hi \in Int
  BY <1>2 DEF RawFilter, Maybe
<1>4. lo \in 0..FullCircle - 1 /\ hi \in 0..FullCircle - 1
  BY <1>1, <1>3, FilterAssumption DEF Rejected, OutOfCircle
<1>. DEFINE p == Normalized(f, raw)
<1>5. /\ Predicates(filters) = {p}
      /\ p.field = f /\ p.kind = "range" /\ p.min = {lo} /\ p.max = {hi}
      /\ p.wrap <=> lo > hi
  <2>1. Wraps(f, raw) <=> lo > hi
    BY <1>3 DEF Wraps
  <2>2. p = Predicate(f, "range", {lo}, {hi}, Wraps(f, raw))
    BY <1>3 DEF Normalized
  <2>. QED
    BY <2>1, <2>2 DEF Predicates, Predicate
<1>. HIDE DEF p
<1>6. PgSelects(rec, filters) <=> SqlClause(p, rec[f])
  <2>1. PgSelects(rec, filters) <=> SqlClause(p, PgColumn(rec, f))
    BY <1>5 DEF PgSelects
  <2>2. Stored(rec, f) = rec[f]
    BY DEF Stored
  <2>. QED
    BY <1>1, <1>5, <2>1, <2>2, PgReadsStored
<1>7. PgSelects(rec, filters) <=>
        IF lo > hi THEN AtLeast(rec[f], {lo}) \/ AtMost(rec[f], {hi})
                   ELSE AtLeast(rec[f], {lo}) /\ AtMost(rec[f], {hi})
  BY <1>5, <1>6 DEF SqlClause, Both
<1>8. \A x \in rec[f] : x \in 0..FullCircle - 1 /\ rec[f] = {x}
  BY <1>2 DEF OnCircle, Maybe
<1>9. CASE rec[f] = {}
  BY <1>7, <1>9 DEF AtLeast, AtMost
<1>10. ASSUME NEW x \in rec[f]
       PROVE  PgSelects(rec, filters) <=> rec[f] # {} /\ rec[f] \subseteq Arc(lo, hi)
  <2>1. x \in Int /\ rec[f] = {x} /\ x \in 0..FullCircle - 1
    BY <1>8, <1>10
  <2>2. PgSelects(rec, filters) <=> IF lo > hi THEN x >= lo \/ x <= hi ELSE x >= lo /\ x <= hi
    BY <1>7, <2>1 DEF AtLeast, AtMost
  <2>. QED
    BY <1>4, <2>1, <2>2, OnArc
<1>. QED
  BY <1>9, <1>10

-----------------------------------------------------------------------------
\* A dataset answers a filter on keywords and telemetry the same way before and after
\* its migration, although one path merges the two dictionaries and the other does not;
\* but a dictionary without any filter of the telemetry no longer leaves out the
\* segments that have no row of it.
THEOREM UnversionedReadsSame ==
  ASSUME NEW rec \in Record, NEW hasRow \in BOOLEAN, NEW meta, NEW telemetry,
         IsFilters(Merged(meta, telemetry))
  PROVE  SameUnversioned(rec, hasRow, meta, telemetry)
<1>. DEFINE both == Merged(meta, telemetry)
<1>. DEFINE before == UnversionedSelects(rec, hasRow, meta, telemetry)
            after  == PgSelects(rec, both)
<1>. SUFFICES ASSUME ~Rejected(both), Bounded(both), ~Unpaired(telemetry),
                     Given(telemetry) \subseteq Unversioned,
                     Given(meta) \cap DOMAIN telemetry = {},
                     \A f \in Given(meta) : FieldType[f] = "keyword",
                     ~hasRow => \A f \in Unversioned : rec[f] = {}
              PROVE  /\ before => after
                     /\ after /\ ~before =>
                          ~hasRow /\ DOMAIN telemetry # {} /\ Given(telemetry) = {}
  BY DEF SameUnversioned
<1>1. /\ DOMAIN both = DOMAIN meta \cup DOMAIN telemetry
      /\ \A f \in DOMAIN telemetry : both[f] = telemetry[f]
      /\ \A f \in DOMAIN meta \ DOMAIN telemetry : both[f] = meta[f]
  BY DEF Merged
<1>. HIDE DEF both
<1>2. Given(both) = Given(meta) \cup Given(telemetry)
  BY <1>1 DEF Given
<1>3. /\ \A f \in Given(meta) : both[f] = meta[f] /\ f \in Fields
      /\ \A f \in Given(telemetry) : both[f] = telemetry[f] /\ f \in Fields
                                   /\ FieldType[f] = "float" /\ ~both[f].wrap
  <2>1. \A f \in Given(meta) : f \in DOMAIN meta \ DOMAIN telemetry
    BY DEF Given
  <2>2. \A f \in Given(telemetry) : f \in DOMAIN telemetry /\ f \in Unversioned
    BY DEF Given
  <2>3. \A f \in Given(telemetry) : both[f] \in RawFilter /\ both[f].form = "pair"
    <3>1. \A f \in Given(telemetry) : both[f] \in RawFilter
      BY <1>1, <2>2 DEF IsFilters, both
    <3>2. \A f \in Given(telemetry) : telemetry[f].form = "pair"
      BY <2>2 DEF Unpaired
    <3>. QED
      BY <1>1, <2>2, <3>1, <3>2
  <2>. QED
    BY <1>1, <1>2, <2>1, <2>2, <2>3, FilterAssumption DEF Rejected, RawFilter
<1>4. ASSUME NEW f \in Given(meta)
      PROVE  SqlClause(Normalized(f, both[f]), PgColumn(rec, f)) <=> \E x \in rec[f] : meta[f].min = {x}
  BY <1>3 DEF Normalized, Predicate, SqlClause, PgColumn
<1>5. ASSUME NEW f \in Given(telemetry)
      PROVE  SqlClause(Normalized(f, both[f]), PgColumn(rec, f)) <=>
               AtLeast(Narrow(rec[f]), telemetry[f].min) /\ AtMost(Narrow(rec[f]), telemetry[f].max)
  <2>1. /\ FieldType[f] = "float" /\ both[f] = telemetry[f] /\ ~both[f].wrap
    BY <1>3
  <2>2. PgColumn(rec, f) = Narrow(rec[f])
    BY <2>1 DEF PgColumn
  <2>3. ~Wraps(f, both[f])
    BY <2>1 DEF Wraps
  <2>. DEFINE p == Normalized(f, both[f])
  <2>4. p.kind = "range" /\ ~p.wrap /\ p.min = telemetry[f].min /\ p.max = telemetry[f].max
    BY <2>1, <2>3 DEF Normalized, Predicate
  <2>. HIDE DEF p
  <2>5. SqlClause(p, Narrow(rec[f])) <=> AtLeast(Narrow(rec[f]), p.min) /\ AtMost(Narrow(rec[f]), p.max)
    BY <2>4 DEF SqlClause
  <2>. QED
    BY <2>2, <2>4, <2>5 DEF p
<1>6. PgSelects(rec, both) <=>
        \A f \in Given(both) : SqlClause(Normalized(f, both[f]), PgColumn(rec, f))
  <2>1. \A f \in Given(both) : Normalized(f, both[f]).field = f
    BY DEF Normalized, Predicate
  <2>. QED
    BY <2>1 DEF PgSelects, Predicates
<1>7. \A f \in Given(meta) : FieldType[f] = "keyword"
  OBVIOUS
<1>8. Given(telemetry) \cap Unversioned = Given(telemetry)
  OBVIOUS
<1>9. before <=> Joins(hasRow, telemetry) /\ after
  BY <1>2, <1>4, <1>5, <1>6, <1>7, <1>8 DEF UnversionedSelects
<1>10. ASSUME NEW f \in Given(telemetry), after
       PROVE  hasRow
  <2>1. /\ AtLeast(Narrow(rec[f]), telemetry[f].min)
        /\ AtMost(Narrow(rec[f]), telemetry[f].max)
    BY <1>2, <1>5, <1>6, <1>10
  <2>2. telemetry[f].min # {} \/ telemetry[f].max # {}
    <3>1. Normalized(f, both[f]) \in Predicates(both)
      BY <1>2 DEF Predicates
    <3>2. /\ Normalized(f, both[f]).min = telemetry[f].min
          /\ Normalized(f, both[f]).max = telemetry[f].max
      BY <1>3 DEF Normalized, Predicate
    <3>. QED
      BY <3>1, <3>2 DEF Bounded
  <2>3. rec[f] # {}
    BY <2>1, <2>2 DEF AtLeast, AtMost, Narrow
  <2>. QED
    BY <2>3
<1>11. Joins(hasRow, telemetry) <=> (DOMAIN telemetry # {} => hasRow)
  BY DEF Joins
<1>. HIDE DEF before, after
<1>. QED
  BY <1>9, <1>10, <1>11

-----------------------------------------------------------------------------
(* Largest and smallest of finitely many numbers.                          *)

\* A total preorder has a first element in every finite set: otherwise take the
\* smallest subset without one, and remove any element.
LEMMA FirstExists ==
  ASSUME NEW S, IsFiniteSet(S), S # {}, NEW R,
         \A x, y \in S : <<x, y>> \in R \/ <<y, x>> \in R,
         \A x, y, z \in S : <<x, y>> \in R /\ <<y, z>> \in R => <<x, z>> \in R
  PROVE  \E x \in S : \A y \in S : <<x, y>> \in R
<1>. DEFINE HasFirst(T) == \E x \in T : \A y \in T : <<x, y>> \in R
            Bad == {T \in SUBSET S : T # {} /\ ~HasFirst(T)}
<1>. SUFFICES ASSUME Bad # {} PROVE FALSE
  OBVIOUS
<1>1. Bad \subseteq FiniteSubsetsOf(S)
  BY FS_FiniteSubsetsOfFinite
<1>2. IsWellFoundedOn(StrictSubsetOrdering(S), FiniteSubsetsOf(S))
  BY FS_StrictSubsetOrderingWellFounded
<1>3. PICK T \in Bad : \A U \in Bad : <<U, T>> \notin StrictSubsetOrdering(S)
  <2>. HIDE DEF Bad
  <2>. QED
    BY <1>1, <1>2, WFMin, Zenon
<1>4. PICK z \in T : TRUE
  BY <1>3
<1>. DEFINE U == T \ {z}
<1>5. U \notin Bad
  <2>1. U \in SUBSET S /\ T \in SUBSET S /\ U \subseteq T /\ U # T
    BY <1>3, <1>4
  <2>2. <<U, T>> \in StrictSubsetOrdering(S)
    BY <2>1 DEF StrictSubsetOrdering
  <2>. QED
    BY <1>3, <2>2
<1>6. CASE U = {}
  <2>1. T = {z} /\ z \in S
    BY <1>3, <1>4, <1>6
  <2>2. <<z, z>> \in R
    BY <2>1
  <2>3. HasFirst(T)
    BY <2>1, <2>2
  <2>. QED
    BY <1>3, <2>3
<1>7. CASE HasFirst(U)
  <2>1. PICK x \in U : \A y \in U : <<x, y>> \in R
    BY <1>7
  <2>2. x \in S /\ z \in S /\ x \in T /\ T \in SUBSET S /\ \A y \in T : y = z \/ y \in U
    BY <1>3, <1>4, <2>1
  <2>3. CASE <<x, z>> \in R
    BY <1>3, <2>1, <2>2, <2>3
  <2>4. CASE <<z, x>> \in R
    <3>1. \A y \in T : <<z, y>> \in R
      BY <1>3, <2>1, <2>2, <2>4
    <3>. QED
      BY <1>3, <1>4, <3>1
  <2>. QED
    BY <2>2, <2>3, <2>4
<1>. QED
  BY <1>3, <1>5, <1>6, <1>7

LEMMA Extremes ==
  ASSUME NEW S \in SUBSET Int, IsFiniteSet(S), S # {}
  PROVE  /\ Max(S) \in S /\ \A y \in S : Max(S) >= y
         /\ Min(S) \in S /\ \A y \in S : Min(S) <= y
<1>1. PICK D : \A x, y \in S : <<x, y>> \in D <=> x >= y
  <2>. WITNESS {p \in S \X S : p[1] >= p[2]}
  <2>. QED
    OBVIOUS
<1>2. PICK U : \A x, y \in S : <<x, y>> \in U <=> x <= y
  <2>. WITNESS {p \in S \X S : p[1] <= p[2]}
  <2>. QED
    OBVIOUS
<1>3. \A x, y, z \in S :
        /\ x >= y \/ y >= x
        /\ x <= y \/ y <= x
        /\ x >= y /\ y >= z => x >= z
        /\ x <= y /\ y <= z => x <= z
  OBVIOUS
<1>4. \E x \in S : \A y \in S : <<x, y>> \in D
  <2>1. \A x, y \in S : <<x, y>> \in D \/ <<y, x>> \in D
    BY <1>1, <1>3, Zenon
  <2>2. \A x, y, z \in S : <<x, y>> \in D /\ <<y, z>> \in D => <<x, z>> \in D
    BY <1>1, <1>3, Zenon
  <2>. QED
    BY <2>1, <2>2, FirstExists, Zenon
<1>5. \E x \in S : \A y \in S : <<x, y>> \in U
  <2>1. \A x, y \in S : <<x, y>> \in U \/ <<y, x>> \in U
    BY <1>2, <1>3, Zenon
  <2>2. \A x, y, z \in S : <<x, y>> \in U /\ <<y, z>> \in U => <<x, z>> \in U
    BY <1>2, <1>3, Zenon
  <2>. QED
    BY <2>1, <2>2, FirstExists, Zenon
<1>6. (\E x \in S : \A y \in S : x >= y) /\ (\E x \in S : \A y \in S : x <= y)
  BY <1>1, <1>2, <1>4, <1>5, Zenon
<1>. QED
  BY <1>6, Zenon DEF Max, Min

\* Finitely many values, each of them missing or one number.
LEMMA FinitelyMany ==
  ASSUME NEW D, IsFiniteSet(D), NEW g, \A i \in D : g[i] \in Maybe(Int)
  PROVE  UNION {g[i] : i \in D} \in SUBSET Int /\ IsFiniteSet(UNION {g[i] : i \in D})
<1>. DEFINE U == UNION {g[i] : i \in D}
            from == [x \in U |-> CHOOSE i \in D : x \in g[i]]
<1>1. \A x \in U : from[x] \in D /\ x \in g[from[x]]
  OBVIOUS
<1>2. U \in SUBSET Int
  BY DEF Maybe
<1>3. from \in Injection(U, D)
  <2>1. from \in [U -> D]
    BY <1>1
  <2>2. \A x, y \in U : from[x] = from[y] => x = y
    <3>. SUFFICES ASSUME NEW x \in U, NEW y \in U, from[x] = from[y] PROVE x = y
      OBVIOUS
    <3>. HIDE DEF from, U
    <3>1. x \in g[from[x]] /\ y \in g[from[x]] /\ g[from[x]] \in Maybe(Int)
      BY <1>1
    <3>. QED
      BY <3>1 DEF Maybe
  <2>. QED
    BY <2>1, <2>2 DEF Injection, IsInjective
<1>4. IsFiniteSet(U)
  BY <1>3, FS_Injection, Zenon DEF ExistsInjection
<1>. QED
  BY <1>2, <1>4

-----------------------------------------------------------------------------
(* The filter of a plan.                                                   *)

ConstraintValue ==
  {v \in [shape : {"number", "text", "pair"}, lo : Maybe(Int), hi : Maybe(Int)] :
     v.shape = "number" => v.lo = v.hi /\ v.lo # {}}

\* The lists of constraints that the parsers produce: finite, on canonical fields, and
\* with every bound that the operator needs.  Only positions carry equalities.
Sound(cs) ==
  /\ IsFiniteSet(DOMAIN cs)
  /\ \A i \in DOMAIN cs :
       /\ cs[i].field \in Fields /\ cs[i].operator \in {"eq", "gte", "lte", "range"}
       /\ cs[i].value.lo \in Maybe(Int) /\ cs[i].value.hi \in Maybe(Int)
       /\ cs[i].operator # "eq" => cs[i].value.lo # {} /\ cs[i].value.hi # {}
       /\ cs[i].operator = "eq" => i \in Int

LEMMA SelectsByField ==
  ASSUME NEW rec, NEW filters
  PROVE  PgSelects(rec, filters) <=>
           \A f \in Given(filters) : SqlClause(Normalized(f, filters[f]), PgColumn(rec, f))
<1>1. \A f \in Given(filters) : Normalized(f, filters[f]).field = f
  BY DEF Normalized, Predicate
<1>. QED
  BY <1>1 DEF PgSelects, Predicates

\* An equality that is alone on its field.
LEMMA EqualityHolds ==
  ASSUME NEW rec, NEW cs, Sound(cs), NEW i \in DOMAIN cs, cs[i].operator = "eq",
         \A j \in DOMAIN cs : cs[j].field = cs[i].field => j = i,
         FieldType[cs[i].field] \in {"keyword", "boolean"}
  PROVE  SqlClause(Normalized(cs[i].field, FieldFilter(cs, cs[i].field)), PgColumn(rec, cs[i].field))
           <=> Holds(cs[i], rec)
<1>. DEFINE f == cs[i].field  raw == FieldFilter(cs, f)
<1>1. /\ Bounds(cs, f, {"gte", "range"}) = {} /\ Bounds(cs, f, {"lte", "range"}) = {}
      /\ Bounds(cs, f, {"eq"}) = {i}
  BY DEF Bounds
<1>2. Max({i}) = i
  <2>1. i \in Int
    BY DEF Sound
  <2>. QED
    BY <2>1 DEF Max
<1>3. raw = Raw("scalar", cs[i].value.lo, cs[i].value.hi, FALSE)
  BY <1>1, <1>2 DEF FieldFilter
<1>. DEFINE p == Normalized(f, raw)
<1>4. p.kind = "equals" /\ p.min = cs[i].value.lo
  BY <1>3 DEF Normalized, Predicate, Raw
<1>. HIDE DEF p
<1>5. SqlClause(p, Stored(rec, f)) <=> \E x \in Stored(rec, f) : cs[i].value.lo = {x}
  BY <1>4 DEF SqlClause
<1>6. PgColumn(rec, f) = Stored(rec, f)
  BY DEF PgColumn, Stored
<1>. QED
  BY <1>5, <1>6 DEF Holds, p

LEMMA AtLeastLargest ==
  ASSUME NEW S \in SUBSET Int, IsFiniteSet(S), NEW x \in Int
  PROVE  AtLeast({x}, IF S = {} THEN {} ELSE {Max(S)}) <=> \A y \in S : x >= y
<1>1. CASE S = {}
  BY <1>1 DEF AtLeast
<1>2. CASE S # {}
  <2>1. Max(S) \in S /\ Max(S) \in Int /\ \A y \in S : y \in Int /\ Max(S) >= y
    BY <1>2, Extremes
  <2>2. AtLeast({x}, {Max(S)}) <=> x >= Max(S)
    BY DEF AtLeast
  <2>. QED
    BY <1>2, <2>1, <2>2
<1>. QED
  BY <1>1, <1>2

LEMMA AtMostSmallest ==
  ASSUME NEW S \in SUBSET Int, IsFiniteSet(S), NEW x \in Int
  PROVE  AtMost({x}, IF S = {} THEN {} ELSE {Min(S)}) <=> \A y \in S : x <= y
<1>1. CASE S = {}
  BY <1>1 DEF AtMost
<1>2. CASE S # {}
  <2>1. Min(S) \in S /\ Min(S) \in Int /\ \A y \in S : y \in Int /\ Min(S) <= y
    BY <1>2, Extremes
  <2>2. AtMost({x}, {Min(S)}) <=> x <= Min(S)
    BY DEF AtMost
  <2>. QED
    BY <1>2, <2>1, <2>2
<1>. QED
  BY <1>1, <1>2

LEMMA PlannedPredicate ==
  ASSUME NEW cs, NEW f, \E i \in DOMAIN cs : cs[i].field = f
  PROVE  LET p == Normalized(f, FieldFilter(cs, f))
         IN  p \in Predicates(FilterDict(cs)) /\ p.field = f
<1>1. f \in DOMAIN FilterDict(cs) /\ FilterDict(cs)[f] = FieldFilter(cs, f)
  BY DEF FilterDict
<1>2. FieldFilter(cs, f).form # "nothing"
  BY DEF FieldFilter, Tightest, Raw
<1>3. f \in Given(FilterDict(cs))
  BY <1>1, <1>2 DEF Given
<1>. QED
  BY <1>1, <1>3 DEF Predicates, Normalized, Predicate

\* The bounds on one field, against each of them.
LEMMA BoundsHold ==
  ASSUME NEW rec \in Record, NEW cs, Sound(cs), NEW f \in Fields,
         FieldType[f] \in {"integer", "float"}, RoundingHarmless(rec, FilterDict(cs)),
         \A i \in DOMAIN cs : cs[i].field = f => cs[i].operator # "eq",
         \E i \in DOMAIN cs : cs[i].field = f
  PROVE  SqlClause(Normalized(f, FieldFilter(cs, f)), PgColumn(rec, f))
           <=> \A i \in DOMAIN cs : cs[i].field = f => Holds(cs[i], rec)
<1>. DEFINE v == Stored(rec, f)
            below == Bounds(cs, f, {"gte", "range"})
            above == Bounds(cs, f, {"lte", "range"})
            lows == UNION {cs[i].value.lo : i \in below}
            highs == UNION {cs[i].value.hi : i \in above}
            raw == FieldFilter(cs, f)
<1>1. /\ below \subseteq DOMAIN cs /\ above \subseteq DOMAIN cs
      /\ IsFiniteSet(below) /\ IsFiniteSet(above)
      /\ \A i \in DOMAIN cs : cs[i].value.lo \in Maybe(Int) /\ cs[i].value.hi \in Maybe(Int)
  BY FS_Subset DEF Bounds, Sound
<1>2. lows \in SUBSET Int /\ IsFiniteSet(lows)
  <2>. DEFINE g == [i \in below |-> cs[i].value.lo]
  <2>1. UNION {g[i] : i \in below} \in SUBSET Int /\ IsFiniteSet(UNION {g[i] : i \in below})
    <3>1. \A i \in below : g[i] \in Maybe(Int)
      BY <1>1
    <3>2. IsFiniteSet(below)
      BY <1>1
    <3>. HIDE DEF g, below
    <3>. QED
      BY <3>1, <3>2, FinitelyMany
  <2>2. UNION {g[i] : i \in below} = lows
    OBVIOUS
  <2>. QED
    BY <2>1, <2>2
<1>3. highs \in SUBSET Int /\ IsFiniteSet(highs)
  <2>. DEFINE g == [i \in above |-> cs[i].value.hi]
  <2>1. UNION {g[i] : i \in above} \in SUBSET Int /\ IsFiniteSet(UNION {g[i] : i \in above})
    <3>1. \A i \in above : g[i] \in Maybe(Int)
      BY <1>1
    <3>2. IsFiniteSet(above)
      BY <1>1
    <3>. HIDE DEF g, above
    <3>. QED
      BY <3>1, <3>2, FinitelyMany
  <2>2. UNION {g[i] : i \in above} = highs
    OBVIOUS
  <2>. QED
    BY <2>1, <2>2
<1>4. lows \cup highs # {}
  BY DEF Sound, Bounds
<1>5. raw = Tightest(lows, highs)
  BY <1>4 DEF FieldFilter
<1>6. /\ \A x \in lows : \E i \in below : cs[i].value.lo = {x}
      /\ \A x \in highs : \E i \in above : cs[i].value.hi = {x}
      /\ \A i \in below : cs[i].value.lo # {} /\ cs[i].value.lo \subseteq lows
      /\ \A i \in above : cs[i].value.hi # {} /\ cs[i].value.hi \subseteq highs
  BY <1>1 DEF Maybe, Sound, Bounds
<1>. DEFINE p == Normalized(f, raw)
<1>7. /\ p.kind = "range" /\ ~p.wrap
      /\ p.min = (IF lows = {} THEN {} ELSE {Max(lows)})
      /\ p.max = (IF highs = {} THEN {} ELSE {Min(highs)})
  BY <1>5 DEF Normalized, Predicate, Tightest, Raw, Wraps
<1>8. v \in Maybe(Int)
  BY StoredValue
<1>9. \A i \in DOMAIN cs : cs[i].field = f =>
        /\ i \in below \cup above
        /\ Holds(cs[i], rec) <=>
             \E x \in v : /\ i \in below => \A lo \in cs[i].value.lo : x >= lo
                          /\ i \in above => \A hi \in cs[i].value.hi : x <= hi
  BY DEF Sound, Bounds, Holds
<1>10. \A i \in below \cup above : i \in DOMAIN cs /\ cs[i].field = f
  BY DEF Bounds
<1>11. SqlClause(p, v) <=> AtLeast(v, p.min) /\ AtMost(v, p.max)
  <2>. HIDE DEF p, v
  <2>. QED
    BY <1>7 DEF SqlClause
<1>. HIDE DEF v, below, above, lows, highs, p, raw
<1>13. ASSUME v = {}
       PROVE  SqlClause(p, v) <=> \A i \in DOMAIN cs : cs[i].field = f => Holds(cs[i], rec)
  <2>1. p.min # {} \/ p.max # {}
    BY <1>4, <1>7
  <2>2. ~SqlClause(p, v)
    BY <1>11, <1>13, <2>1 DEF AtLeast, AtMost
  <2>3. PICK i \in DOMAIN cs : cs[i].field = f
    OBVIOUS
  <2>4. ~Holds(cs[i], rec)
    BY <1>9, <1>13, <2>3
  <2>. QED
    BY <2>2, <2>3, <2>4
<1>14. ASSUME v # {}
       PROVE  SqlClause(p, v) <=> \A i \in DOMAIN cs : cs[i].field = f => Holds(cs[i], rec)
  <2>. PICK x \in v : TRUE
    BY <1>14
  <2>1. x \in Int /\ v = {x}
    BY <1>8 DEF Maybe
  <2>2. AtLeast(v, p.min) <=> \A lo \in lows : x >= lo
    <3>1. AtLeast({x}, IF lows = {} THEN {} ELSE {Max(lows)}) <=> \A lo \in lows : x >= lo
      BY <1>2, <2>1, AtLeastLargest
    <3>. QED
      BY <1>7, <2>1, <3>1, Zenon
  <2>3. AtMost(v, p.max) <=> \A hi \in highs : x <= hi
    <3>1. AtMost({x}, IF highs = {} THEN {} ELSE {Min(highs)}) <=> \A hi \in highs : x <= hi
      BY <1>3, <2>1, AtMostSmallest
    <3>. QED
      BY <1>7, <2>1, <3>1, Zenon
  <2>4. (\A lo \in lows : x >= lo) <=> \A i \in below : \A lo \in cs[i].value.lo : x >= lo
    BY <1>6
  <2>5. (\A hi \in highs : x <= hi) <=> \A i \in above : \A hi \in cs[i].value.hi : x <= hi
    BY <1>6
  <2>6. \A i \in DOMAIN cs : cs[i].field = f =>
          (Holds(cs[i], rec) <=>
             /\ i \in below => \A lo \in cs[i].value.lo : x >= lo
             /\ i \in above => \A hi \in cs[i].value.hi : x <= hi)
    BY <1>9, <2>1
  <2>. QED
    <3>1. SqlClause(p, v) <=> /\ \A i \in below : \A lo \in cs[i].value.lo : x >= lo
                              /\ \A i \in above : \A hi \in cs[i].value.hi : x <= hi
      BY <1>11, <2>2, <2>3, <2>4, <2>5
    <3>2. (\A i \in DOMAIN cs : cs[i].field = f => Holds(cs[i], rec))
            <=> /\ \A i \in below : \A lo \in cs[i].value.lo : x >= lo
                /\ \A i \in above : \A hi \in cs[i].value.hi : x <= hi
      BY <1>9, <1>10, <2>6, Zenon
    <3>. QED
      BY <3>1, <3>2
<1>12. SqlClause(p, v) <=> \A i \in DOMAIN cs : cs[i].field = f => Holds(cs[i], rec)
  BY <1>13, <1>14
<1>15. SqlClause(p, PgColumn(rec, f)) <=> SqlClause(p, v)
  <2>. DEFINE w == PgColumn(rec, f)
  <2>1. CASE FieldType[f] = "integer"
    BY <2>1 DEF PgColumn, Stored, v
  <2>2. CASE FieldType[f] = "float"
    <3>1. v = rec[f] /\ w = Narrow(rec[f])
      BY <2>2 DEF PgColumn, Stored, v
    <3>2. p.min \in Maybe(Int) /\ p.max \in Maybe(Int)
      <4>1. lows # {} => Max(lows) \in Int
        BY <1>2, Extremes
      <4>2. highs # {} => Min(highs) \in Int
        BY <1>3, Extremes
      <4>. QED
        BY <1>7, <4>1, <4>2 DEF Maybe
    <3>3. p \in Predicates(FilterDict(cs)) /\ p.field = f
      BY PlannedPredicate DEF p, raw
    <3>4. \A x \in v, y \in w : SameSide(x, y, p.min \cup p.max)
      BY <2>2, <3>1, <3>3 DEF RoundingHarmless
    <3>5. v # {} <=> w # {}
      BY <3>1 DEF Narrow
    <3>. HIDE DEF w
    <3>6. /\ AtLeast(w, p.min) <=> AtLeast(v, p.min)
          /\ AtMost(w, p.max) <=> AtMost(v, p.max)
      BY <1>8, <3>2, <3>4, <3>5, SameBounds
    <3>7. SqlClause(p, w) <=> AtLeast(w, p.min) /\ AtMost(w, p.max)
      BY <1>7 DEF SqlClause
    <3>. QED
      BY <1>11, <3>6, <3>7 DEF w
  <2>. QED
    BY <2>1, <2>2
<1>. QED
  BY <1>12, <1>15 DEF p, raw, v

\* What PostgreSQL selects by the dictionary is what satisfies every constraint.
LEMMA DictionaryIsConjunction ==
  ASSUME NEW rec \in Record, NEW cs, Sound(cs), Plain(cs),
         RoundingHarmless(rec, FilterDict(cs))
  PROVE  PgSelects(rec, FilterDict(cs)) <=> \A i \in DOMAIN cs : Holds(cs[i], rec)
<1>. DEFINE dict == FilterDict(cs)  named == {cs[i].field : i \in DOMAIN cs}
<1>1. DOMAIN dict = named /\ \A f \in named : dict[f] = FieldFilter(cs, f)
  BY DEF FilterDict
<1>2. \A f : FieldFilter(cs, f).form # "nothing"
  BY DEF FieldFilter, Tightest, Raw
<1>3. Given(dict) = named
  <2>. HIDE DEF dict, named
  <2>. QED
    BY <1>1, <1>2 DEF Given
<1>4. ASSUME NEW f \in named
      PROVE  SqlClause(Normalized(f, FieldFilter(cs, f)), PgColumn(rec, f))
               <=> \A i \in DOMAIN cs : cs[i].field = f => Holds(cs[i], rec)
  <2>1. PICK i \in DOMAIN cs : cs[i].field = f
    BY <1>4
  <2>2. f \in Fields
    BY <2>1 DEF Sound
  <2>3. CASE FieldType[f] \in {"integer", "float"}
    <3>1. \A j \in DOMAIN cs : cs[j].field = f => cs[j].operator # "eq"
      BY <2>3 DEF Plain
    <3>. QED
      BY <2>1, <2>2, <2>3, <3>1, BoundsHold
  <2>4. CASE FieldType[f] \notin {"integer", "float"}
    <3>1. /\ FieldType[f] \in {"keyword", "boolean"} /\ cs[i].operator = "eq"
          /\ \A j \in DOMAIN cs : cs[j].field = f => j = i
      BY <2>1, <2>4 DEF Plain
    <3>2. SqlClause(Normalized(f, FieldFilter(cs, f)), PgColumn(rec, f)) <=> Holds(cs[i], rec)
      BY <2>1, <2>2, <3>1, EqualityHolds
    <3>. QED
      BY <2>1, <3>1, <3>2
  <2>. QED
    BY <2>3, <2>4
<1>5. PgSelects(rec, dict) <=>
        \A f \in named : SqlClause(Normalized(f, FieldFilter(cs, f)), PgColumn(rec, f))
  BY <1>1, <1>3, SelectsByField
<1>. QED
  BY <1>4, <1>5

\* The dictionary built from a plan selects the segments on which all of its
\* constraints hold, however many there are and however often they name a field.
THEOREM PlansAreConjunctions ==
  ASSUME NEW rec \in Record, NEW cs, Sound(cs)
  PROVE  IsConjunction(cs, rec)
BY DictionaryIsConjunction DEF IsConjunction

-----------------------------------------------------------------------------
(* What the two parsers produce.                                           *)

\* A completion names any fields and operators.
IsCompletion(completion) ==
  LET cs == completion.constraints
  IN  /\ \E n \in Nat : DOMAIN cs = 1..n
      /\ \A i \in DOMAIN cs : cs[i].value \in ConstraintValue

\* What is kept of a completion is sound.
LEMMA LlmPlanSound ==
  ASSUME NEW completion, IsCompletion(completion), NEW available
  PROVE  Sound(LlmPlan(completion, available).constraints)
<1>. DEFINE cs == completion.constraints
            parsed == LlmParse(completion, available)
            covered == Covered(parsed, available)
<1>1. PICK n \in Nat : DOMAIN cs = 1..n
  BY DEF IsCompletion
<1>2. /\ DOMAIN parsed \subseteq DOMAIN cs
      /\ \A i \in DOMAIN parsed : parsed[i] = cs[i] /\ Verdict(cs[i], available) = "keep"
  BY DEF LlmParse
<1>. HIDE DEF parsed
<1>3. /\ DOMAIN covered \subseteq DOMAIN cs
      /\ \A i \in DOMAIN covered : covered[i] = cs[i] /\ Verdict(cs[i], available) = "keep"
  BY <1>2 DEF Covered
<1>4. IsFiniteSet(DOMAIN covered)
  <2>1. IsFiniteSet(1..n)
    BY FS_Interval
  <2>. QED
    BY <1>1, <1>3, <2>1, FS_Subset
<1>. HIDE DEF covered
<1>5. ASSUME NEW i \in DOMAIN covered
      PROVE  /\ covered[i].field \in Fields /\ covered[i].operator \in {"eq", "gte", "lte", "range"}
             /\ covered[i].value.lo \in Maybe(Int) /\ covered[i].value.hi \in Maybe(Int)
             /\ covered[i].operator # "eq" => covered[i].value.lo # {} /\ covered[i].value.hi # {}
             /\ i \in Int
  <2>. DEFINE c == cs[i]
  <2>1. covered[i] = c /\ Verdict(c, available) = "keep" /\ i \in Int
    BY <1>1, <1>3
  <2>2. c.value \in ConstraintValue
    BY <1>3 DEF IsCompletion
  <2>. HIDE DEF c
  <2>3. /\ c.field \in Fields /\ c.operator \in {"eq", "gte", "lte", "range"}
        /\ ValueVerdict(c) = "keep"
    BY <2>1 DEF Verdict
  <2>4. c.operator = "range" => c.value.lo # {} /\ c.value.hi # {}
    BY <2>3 DEF ValueVerdict
  <2>5. c.operator \in {"gte", "lte"} => c.value.shape = "number"
    BY <2>3 DEF ValueVerdict, NumericVerdict
  <2>. QED
    BY <2>1, <2>2, <2>3, <2>4, <2>5 DEF ConstraintValue
<1>6. Sound(covered)
  BY <1>4, <1>5 DEF Sound
<1>7. Sound(<<>>)
  BY FS_EmptySet DEF Sound
<1>. QED
  BY <1>6, <1>7 DEF LlmPlan, covered, parsed

IsPhrases(overrides) ==
  /\ \E n \in Nat : DOMAIN overrides = 1..n
  /\ \A i \in DOMAIN overrides : overrides[i].minimum \in Int

LEMMA MinimumIsNumber ==
  ASSUME NEW overrides, IsPhrases(overrides), NEW c
  PROVE  Minimum(c, overrides) \in Int
<1>. DEFINE about == {i \in DOMAIN overrides : c \in overrides[i].concepts}
<1>1. PICK n \in Nat : DOMAIN overrides = 1..n
  BY DEF IsPhrases
<1>2. IsFiniteSet(1..n)
  BY FS_Interval
<1>3. about \in SUBSET Int /\ IsFiniteSet(about)
  BY <1>1, <1>2, FS_Subset
<1>4. CASE about = {}
  BY <1>4 DEF Minimum
<1>5. CASE about # {}
  <2>1. Max(about) \in DOMAIN overrides
    BY <1>3, <1>5, Extremes
  <2>. QED
    <3>1. overrides[Max(about)].minimum \in Int
      BY <2>1 DEF IsPhrases
    <3>. QED
      BY <1>5, <3>1 DEF Minimum
<1>. QED
  BY <1>4, <1>5

\* The constraints of a rules plan: a lower bound for every concept that survives and
\* can be counted.
LEMMA RulesPlanSound ==
  ASSUME NEW matched \in SUBSET DOMAIN Ontology, IsFiniteSet(matched),
         NEW overrides, IsPhrases(overrides), NEW available
  PROVE  LET cs == RulesPlan(matched, overrides, available).constraints
         IN  /\ Sound(cs)
             /\ DOMAIN cs = {c \in Selected(matched) : Ontology[c].field \in available}
             /\ \A c \in DOMAIN cs :
                  cs[c] = Constraint(Ontology[c].field, "gte", Number(Minimum(c, overrides)))
<1>. DEFINE cs == RulesPlan(matched, overrides, available).constraints
            parsed == RulesParse(matched, overrides)
<1>1. /\ DOMAIN parsed = Selected(matched)
      /\ \A c \in DOMAIN parsed :
           parsed[c] = Constraint(Ontology[c].field, "gte", Number(Minimum(c, overrides)))
  BY DEF RulesParse
<1>2. \A c \in Selected(matched) : c \in matched /\ Ontology[c].field \in Fields
  BY PlanningAssumption DEF Selected
<1>3. cs = Covered(parsed, available)
  BY DEF RulesPlan
<1>. HIDE DEF parsed, cs
<1>4. \A c \in DOMAIN parsed : parsed[c].field = Ontology[c].field
  BY <1>1 DEF Constraint
<1>5. /\ DOMAIN cs = {c \in DOMAIN parsed : parsed[c].field \in available \cap Fields}
      /\ \A c \in DOMAIN cs : cs[c] = parsed[c]
  BY <1>3 DEF Covered
<1>6. DOMAIN cs = {c \in Selected(matched) : Ontology[c].field \in available}
  BY <1>1, <1>2, <1>4, <1>5
<1>7. \A c \in DOMAIN cs :
        cs[c] = Constraint(Ontology[c].field, "gte", Number(Minimum(c, overrides)))
  BY <1>1, <1>5
<1>8. IsFiniteSet(DOMAIN cs)
  BY <1>2, <1>6, FS_Subset
<1>9. ASSUME NEW c \in DOMAIN cs
      PROVE  /\ cs[c].field \in Fields /\ cs[c].operator = "gte"
             /\ cs[c].value.lo \in Maybe(Int) /\ cs[c].value.hi \in Maybe(Int)
             /\ cs[c].value.lo # {} /\ cs[c].value.hi # {}
  <2>1. Minimum(c, overrides) \in Int
    BY MinimumIsNumber
  <2>2. Ontology[c].field \in Fields
    BY <1>2, <1>6
  <2>. QED
    BY <1>7, <2>1, <2>2 DEF Constraint, Number, Value, Maybe
<1>10. Sound(cs)
  BY <1>8, <1>9 DEF Sound
<1>. QED
  BY <1>6, <1>7, <1>10 DEF cs

\* A rules plan selects what the query mentions, no more and no less: for every concept
\* the dataset can count, the number asked for, unless a more specific one of its family
\* was mentioned.
THEOREM RulesPlansMeanQueries ==
  ASSUME NEW matched \in SUBSET DOMAIN Ontology, IsFiniteSet(matched),
         NEW overrides, IsPhrases(overrides), NEW available, NEW rec \in Record
  PROVE  MeansQuery(RulesPlan(matched, overrides, available), matched, overrides, available, rec)
<1>. DEFINE cs == RulesPlan(matched, overrides, available).constraints
<1>. SUFFICES ASSUME \A c \in matched : FieldType[Ontology[c].field] = "integer"
              PROVE  PgSelects(rec, FilterDict(cs)) <=>
                       \A c \in matched :
                         \/ Outranked(c, matched) \/ Ontology[c].field \notin available
                         \/ \E x \in Stored(rec, Ontology[c].field) : x >= Minimum(c, overrides)
  BY DEF MeansQuery
<1>1. /\ Sound(cs)
      /\ DOMAIN cs = {c \in Selected(matched) : Ontology[c].field \in available}
      /\ \A c \in DOMAIN cs :
           cs[c] = Constraint(Ontology[c].field, "gte", Number(Minimum(c, overrides)))
  BY RulesPlanSound
<1>. HIDE DEF cs
<1>2. \A c \in matched : c \in Selected(matched) <=> ~Outranked(c, matched)
  BY PlanningAssumption DEF Selected, Outranked
<1>3. \A c \in DOMAIN cs : c \in matched /\ FieldType[cs[c].field] = "integer"
                        /\ cs[c].field = Ontology[c].field /\ cs[c].operator = "gte"
                        /\ cs[c].value.lo = {Minimum(c, overrides)}
  <2>1. \A c \in DOMAIN cs : c \in matched /\ FieldType[Ontology[c].field] = "integer"
    BY <1>1 DEF Selected
  <2>2. \A c \in DOMAIN cs : /\ cs[c].field = Ontology[c].field /\ cs[c].operator = "gte"
                            /\ cs[c].value.lo = {Minimum(c, overrides)}
    <3>. SUFFICES ASSUME NEW c \in DOMAIN cs
                  PROVE  /\ cs[c].field = Ontology[c].field /\ cs[c].operator = "gte"
                         /\ cs[c].value.lo = {Minimum(c, overrides)}
      OBVIOUS
    <3>1. cs[c] = Constraint(Ontology[c].field, "gte", Number(Minimum(c, overrides)))
      BY <1>1
    <3>. QED
      BY <3>1 DEF Constraint, Number, Value
  <2>. QED
    BY <2>1, <2>2
<1>4. Plain(cs)
  BY <1>3 DEF Plain
<1>5. RoundingHarmless(rec, FilterDict(cs))
  <2>1. ASSUME NEW p \in Predicates(FilterDict(cs))
        PROVE  FieldType[p.field] = "integer"
    <3>1. PICK f \in DOMAIN FilterDict(cs) : p = Normalized(f, FilterDict(cs)[f])
      BY DEF Predicates, Given
    <3>2. p.field = f
      BY <3>1 DEF Normalized, Predicate
    <3>3. PICK c \in DOMAIN cs : f = cs[c].field
      BY <3>1 DEF FilterDict
    <3>. QED
      BY <1>3, <3>2, <3>3
  <2>. QED
    BY <2>1 DEF RoundingHarmless
<1>6. PgSelects(rec, FilterDict(cs)) <=> \A c \in DOMAIN cs : Holds(cs[c], rec)
  BY <1>1, <1>4, <1>5, DictionaryIsConjunction
<1>7. \A c \in DOMAIN cs : Holds(cs[c], rec) <=>
        \E x \in Stored(rec, Ontology[c].field) : x >= Minimum(c, overrides)
  BY <1>3 DEF Holds
<1>8. \A c \in matched : c \in DOMAIN cs <=> ~Outranked(c, matched) /\ Ontology[c].field \in available
  BY <1>1, <1>2
<1>9. \A c \in DOMAIN cs : c \in matched
  BY <1>3
<1>. QED
  BY <1>6, <1>7, <1>8, <1>9, Zenon

-----------------------------------------------------------------------------
(* Telemetry: one quotient, and headings.                                  *)

\* Division and remainder are the only ones that fit.
LEMMA Division ==
  ASSUME NEW n \in Int, NEW m \in Nat \ {0}
  PROVE  /\ n \div m \in Int /\ n % m \in 0..m - 1 /\ n = m * (n \div m) + (n % m)
         /\ \A q \in Int, r \in 0..m - 1 : n = m * q + r => q = n \div m /\ r = n % m
<1>. DEFINE p == n \div m  s == n % m
<1>1. p \in Int /\ s \in 0..m - 1 /\ n = m * p + s
  OBVIOUS
<1>. HIDE DEF p, s
<1>2. ASSUME NEW q \in Int, NEW r \in 0..m - 1, n = m * q + r
      PROVE  q = p /\ r = s
  <2>1. CASE q >= p + 1
    <3>1. m * q >= m * (p + 1)
      BY <1>1, <2>1
    <3>2. m * (p + 1) = m * p + m
      BY <1>1
    <3>. QED
      BY <1>1, <1>2, <3>1, <3>2
  <2>2. CASE p >= q + 1
    <3>1. m * p >= m * (q + 1)
      BY <1>1, <2>2
    <3>2. m * (q + 1) = m * q + m
      OBVIOUS
    <3>. QED
      BY <1>1, <1>2, <3>1, <3>2
  <2>3. CASE q = p
    BY <1>1, <1>2, <2>3
  <2>. QED
    BY <1>1, <2>1, <2>2, <2>3
<1>. QED
  BY <1>1, <1>2 DEF p, s

LEMMA Remainder ==
  ASSUME NEW n \in Int, NEW m \in Nat \ {0}, NEW q \in Int, NEW r \in 0..m - 1, n = m * q + r
  PROVE  n % m = r
BY Division, Zenon

\* A part of the way from 0 to d stays on it.
LEMMA PartOfTheWay ==
  ASSUME NEW num \in Nat, NEW den \in Nat \ {0}, num <= den, NEW d \in Int
  PROVE  /\ (num * d) \div den \in Int
         /\ d >= 0 => 0 <= (num * d) \div den /\ (num * d) \div den <= d
         /\ d <= 0 => d <= (num * d) \div den /\ (num * d) \div den <= 0
<1>. DEFINE n == num * d  q == n \div den  r == n % den
<1>1. n \in Int
  OBVIOUS
<1>2. /\ d >= 0 => 0 <= n /\ n <= den * d
      /\ d <= 0 => den * d <= n /\ n <= 0
  OBVIOUS
<1>. HIDE DEF n
<1>3. q \in Int /\ r \in 0..den - 1 /\ n = den * q + r
  BY <1>1, Division
<1>. HIDE DEF q, r
<1>4. ASSUME NEW x \in Int, NEW y \in Int, x <= y
      PROVE  den * x <= den * y
  BY <1>4
<1>5. den * (d + 1) = den * d + den /\ den * (-1) = -den /\ den * (d - 1) = den * d - den
  OBVIOUS
<1>6. ASSUME d >= 0 PROVE 0 <= q /\ q <= d
  <2>1. ~(q <= -1)
    BY <1>2, <1>3, <1>4, <1>5, <1>6
  <2>2. ~(d + 1 <= q)
    BY <1>2, <1>3, <1>4, <1>5, <1>6
  <2>. QED
    BY <1>3, <2>1, <2>2
<1>7. ASSUME d <= 0 PROVE d <= q /\ q <= 0
  <2>1. ~(q <= d - 1)
    BY <1>2, <1>3, <1>4, <1>5, <1>7
  <2>2. ~(1 <= q)
    <3>1. den * 1 = den
      OBVIOUS
    <3>. QED
      BY <1>2, <1>3, <1>4, <1>7, <3>1
  <2>. QED
    BY <1>3, <2>1, <2>2
<1>. QED
  BY <1>3, <1>6, <1>7 DEF n, q

\* The shorter way from l to r, whole circles apart or not.
LEMMA ShorterWay ==
  ASSUME NEW l \in Int, NEW r \in Int
  PROVE  /\ Circle \in Nat \ {0} /\ (r - l) % Circle \in 0..Circle - 1
         /\ TurnTo(l, r) = IF 2 * ((r - l) % Circle) < Circle
                           THEN (r - l) % Circle ELSE ((r - l) % Circle) - Circle
<1>. DEFINE h == Circle \div 2  d == (r - l) % Circle  q == (r - l) \div Circle
<1>1. Circle \in Nat \ {0} /\ Circle % 2 = 0
  BY TelemetryAssumption
<1>2. h \in Int /\ Circle = 2 * h /\ h > 0
  BY <1>1
<1>3. d \in 0..Circle - 1 /\ q \in Int /\ r - l = Circle * q + d
  BY <1>1, Division
<1>4. TurnTo(l, r) = ((r - l + h) % Circle) - h
  BY DEF TurnTo
<1>. HIDE DEF d, q, h
<1>5. CASE d < h
  <2>1. d + h \in 0..Circle - 1 /\ r - l + h = Circle * q + (d + h) /\ r - l + h \in Int
    BY <1>1, <1>2, <1>3, <1>5
  <2>2. d + h = (r - l + h) % Circle
    BY <1>1, <1>3, <2>1, Remainder, Zenon
  <2>. QED
    BY <1>1, <1>2, <1>3, <1>4, <1>5, <2>2 DEF d
<1>6. CASE d >= h
  <2>1. d - h \in 0..Circle - 1 /\ Circle * (q + 1) = Circle * q + Circle
    BY <1>1, <1>2, <1>3, <1>6
  <2>2. r - l + h = Circle * (q + 1) + (d - h) /\ r - l + h \in Int /\ q + 1 \in Int
    BY <1>1, <1>2, <1>3, <2>1
  <2>3. d - h = (r - l + h) % Circle
    BY <1>1, <2>1, <2>2, Remainder, Zenon
  <2>. QED
    BY <1>1, <1>2, <1>3, <1>4, <1>6, <2>3 DEF d
<1>. QED
  BY <1>2, <1>3, <1>5, <1>6

\* Whole circles do not change a heading.
LEMMA WholeCircles ==
  ASSUME NEW n \in Int, NEW q \in Int
  PROVE  (n + Circle * q) % Circle = n % Circle
<1>1. Circle \in Nat \ {0}
  BY TelemetryAssumption
<1>. DEFINE p == n \div Circle  s == n % Circle
<1>2. p \in Int /\ s \in 0..Circle - 1 /\ n = Circle * p + s
  BY <1>1, Division
<1>. HIDE DEF p, s
<1>3. n + Circle * q \in Int /\ Circle * (p + q) = Circle * p + Circle * q
  BY <1>1, <1>2
<1>4. n + Circle * q = Circle * (p + q) + s
  BY <1>1, <1>2, <1>3
<1>5. s = (n + Circle * q) % Circle
  BY <1>1, <1>2, <1>3, <1>4, Division
<1>. QED
  BY <1>5 DEF s

\* What is interpolated between two values lies between them.
LEMMA BetweenLies ==
  ASSUME NEW type, type # "categorical", NEW l \in Int, NEW r \in Int,
         NEW num \in Nat, NEW den \in Nat \ {0}, num <= den
  PROVE  Lies(Between(type, l, r, num, den), type, l, r)
<1>1. CASE type = "circular_deg"
  <2>. DEFINE d == (r - l) % Circle  q == (r - l) \div Circle  t == TurnTo(l, r)
              p == (num * t) \div den  v == (l + p) % Circle  e == (l - r) % Circle
  <2>1. Circle \in Nat \ {0}
    BY TelemetryAssumption
  <2>2. /\ d \in 0..Circle - 1 /\ q \in Int /\ r - l = Circle * q + d
        /\ t = IF 2 * d < Circle THEN d ELSE d - Circle
    <3>1. r - l \in Int
      OBVIOUS
    <3>. QED
      BY <2>1, <3>1, Division, ShorterWay, Zenon
  <2>. HIDE DEF q
  <2>3. e = IF d = 0 THEN 0 ELSE Circle - d
    <3>1. CASE d = 0
      <4>1. l - r = Circle * (-q) + 0 /\ -q \in Int /\ 0 \in 0..Circle - 1 /\ l - r \in Int
        BY <2>1, <2>2, <3>1
      <4>2. (l - r) % Circle = 0
        BY <2>1, <4>1, Remainder, Zenon
      <4>. QED
        BY <3>1, <4>2
    <3>2. CASE d # 0
      <4>1. Circle * (-q - 1) = -(Circle * q) - Circle /\ -q - 1 \in Int /\ Circle - d \in 0..Circle - 1
        BY <2>1, <2>2, <3>2
      <4>2. l - r = Circle * (-q - 1) + (Circle - d) /\ l - r \in Int
        BY <2>1, <2>2, <4>1
      <4>3. (l - r) % Circle = Circle - d
        BY <2>1, <4>1, <4>2, Remainder, Zenon
      <4>. QED
        BY <3>2, <4>3
    <3>. QED
      BY <3>1, <3>2
  <2>. HIDE DEF d, t, e
  <2>4. t \in Int
    BY <2>1, <2>2
  <2>5. /\ p \in Int
        /\ t >= 0 => 0 <= p /\ p <= t
        /\ t <= 0 => t <= p /\ p <= 0
    BY <2>4, PartOfTheWay
  <2>. HIDE DEF p
  <2>6. v \in 0..Circle - 1
    BY <2>1, <2>5, Division
  <2>7. v = v % Circle
    <3>. HIDE DEF v
    <3>1. v = Circle * 0 + v /\ v \in Int /\ 0 \in Int
      BY <2>1, <2>6
    <3>2. v % Circle = v
      BY <2>1, <2>6, <3>1, Remainder, Zenon
    <3>. QED
      BY <3>2
  <2>8. v \in ShortArc(l, r) \cup ShortArc(r, l)
    <3>1. CASE 2 * d < Circle
      <4>1. p \in 0..d
        BY <2>2, <2>5, <3>1
      <4>2. v \in {(l + k) % Circle : k \in 0..d}
        BY <4>1
      <4>3. ~(2 * d > Circle)
        BY <2>1, <2>2, <3>1
      <4>4. ShortArc(l, r) = {(l + k) % Circle : k \in 0..d}
        BY <4>3 DEF ShortArc, d
      <4>. QED
        BY <4>2, <4>4
    <3>2. CASE ~(2 * d < Circle)
      <4>1. e = Circle - d /\ p + e \in 0..e /\ 2 * e <= Circle
        BY <2>1, <2>2, <2>3, <2>5, <3>2
      <4>2. l + p = (r + (p + e)) + Circle * (-(q + 1))
        <5>1. Circle * (-(q + 1)) = -(Circle * q) - Circle
          BY <2>1, <2>2
        <5>. QED
          BY <2>1, <2>2, <2>5, <4>1, <5>1
      <4>3. v = (r + (p + e)) % Circle
        <5>1. r + (p + e) \in Int /\ -(q + 1) \in Int
          BY <2>1, <2>2, <2>5, <4>1
        <5>. QED
          BY <4>2, <5>1, WholeCircles
      <4>4. v \in {(r + k) % Circle : k \in 0..e}
        BY <4>1, <4>3
      <4>5. ~(2 * e > Circle)
        BY <2>1, <2>2, <4>1
      <4>6. ShortArc(r, l) = {(r + k) % Circle : k \in 0..e}
        BY <4>5 DEF ShortArc, e
      <4>. QED
        BY <4>4, <4>6
    <3>. QED
      BY <3>1, <3>2
  <2>. QED
    BY <1>1, <2>7, <2>8 DEF Lies, Between, p, t
<1>2. CASE type = "boolean"
  BY <1>2 DEF Lies, Between
<1>3. CASE type \notin {"circular_deg", "boolean"}
  <2>. DEFINE d == r - l  p == (num * d) \div den
  <2>1. /\ p \in Int
        /\ d >= 0 => 0 <= p /\ p <= d
        /\ d <= 0 => d <= p /\ p <= 0
    BY PartOfTheWay
  <2>2. Between(type, l, r, num, den) = l + p
    BY <1>3 DEF Between
  <2>. HIDE DEF p
  <2>3. l + p \in (l..r) \cup (r..l)
    BY <2>1
  <2>. QED
    BY <1>3, <2>2, <2>3 DEF Lies
<1>. QED
  BY <1>1, <1>2, <1>3

-----------------------------------------------------------------------------
(* Telemetry: the samples around a boundary.                               *)

TelemetrySample == [time : Int, value : Maybe(Int)]

\* Samples in the order of their times; their positions need not follow each other.
Ordered(samples) ==
  /\ IsFiniteSet(DOMAIN samples) /\ DOMAIN samples \subseteq Int
  /\ \A i \in DOMAIN samples : samples[i].time \in Int /\ samples[i].value \in Maybe(Int)
  /\ \A i, j \in DOMAIN samples : i <= j => samples[i].time <= samples[j].time

\* What the constructor accepts is in order: the first sample to be earlier than one
\* before it would be earlier than its neighbour.
LEMMA SeriesOrdered ==
  ASSUME NEW samples \in Seq(TelemetrySample), Monotonic(samples)
  PROVE  Ordered(samples) /\ Len(samples) \in Nat /\ DOMAIN samples = 1..Len(samples)
<1>1. /\ Len(samples) \in Nat /\ DOMAIN samples = 1..Len(samples)
      /\ \A i \in DOMAIN samples : samples[i] \in TelemetrySample
  OBVIOUS
<1>2. IsFiniteSet(DOMAIN samples) /\ DOMAIN samples \subseteq Int
  BY <1>1, FS_Interval
<1>3. \A i \in DOMAIN samples : samples[i].time \in Int /\ samples[i].value \in Maybe(Int)
  BY <1>1 DEF TelemetrySample
<1>4. ASSUME NEW i \in DOMAIN samples, NEW j \in DOMAIN samples, i <= j
      PROVE  samples[i].time <= samples[j].time
  <2>. DEFINE Earlier == {k \in DOMAIN samples : i <= k /\ ~(samples[i].time <= samples[k].time)}
  <2>. SUFFICES ASSUME Earlier # {} PROVE FALSE
    BY <1>4
  <2>1. Earlier \in SUBSET DOMAIN samples /\ Earlier \in SUBSET Int
    BY <1>2
  <2>2. IsFiniteSet(Earlier)
    BY <1>2, <2>1, FS_Subset
  <2>. DEFINE m == Min(Earlier)
  <2>3. m \in Earlier /\ \A k \in Earlier : m <= k
    <3>. HIDE DEF Earlier
    <3>. QED
      BY <2>1, <2>2, Extremes
  <2>. HIDE DEF m
  <2>4. m \in Int /\ m # i /\ i <= m /\ m <= Len(samples) /\ ~(samples[i].time <= samples[m].time)
    BY <1>1, <1>3, <2>3
  <2>5. m - 1 \in 1..Len(samples) - 1 /\ i <= m - 1 /\ m - 1 \in DOMAIN samples /\ ~(m <= m - 1)
    BY <1>1, <2>4
  <2>6. samples[i].time <= samples[m - 1].time
    BY <2>3, <2>5
  <2>7. samples[m - 1].time <= samples[(m - 1) + 1].time
    BY <2>5 DEF Monotonic
  <2>8. (m - 1) + 1 = m /\ m \in DOMAIN samples
    BY <2>3, <2>4
  <2>9. samples[m - 1].time <= samples[m].time
    BY <2>7, <2>8
  <2>10. samples[i].time \in Int /\ samples[m - 1].time \in Int /\ samples[m].time \in Int
    BY <1>3, <2>5, <2>8
  <2>11. \A x, y, z \in Int : x <= y /\ y <= z => x <= z
    OBVIOUS
  <2>. QED
    BY <2>4, <2>6, <2>9, <2>10, <2>11, Zenon
<1>. QED
  BY <1>1, <1>2, <1>3, <1>4 DEF Ordered

\* The two samples next to a time.
LEMMA Neighbours ==
  ASSUME NEW samples, Ordered(samples), NEW at \in Int
  PROVE  /\ From(samples, at) # {} =>
              /\ Min(From(samples, at)) \in From(samples, at)
              /\ \A i \in From(samples, at) : Min(From(samples, at)) <= i
         /\ Until(samples, at) # {} =>
              /\ Max(Until(samples, at)) \in Until(samples, at)
              /\ \A i \in Until(samples, at) : Max(Until(samples, at)) >= i
         /\ From(samples, at) \cup Until(samples, at) = DOMAIN samples
<1>. DEFINE F == From(samples, at)  U == Until(samples, at)
<1>1. F \in SUBSET DOMAIN samples /\ U \in SUBSET DOMAIN samples
  BY DEF From, Until
<1>2. F \in SUBSET Int /\ U \in SUBSET Int /\ IsFiniteSet(F) /\ IsFiniteSet(U)
  BY <1>1, FS_Subset DEF Ordered
<1>3. F \cup U = DOMAIN samples
  BY DEF From, Until, Ordered
<1>. HIDE DEF F, U
<1>4. /\ F # {} => Min(F) \in F /\ \A i \in F : Min(F) <= i
      /\ U # {} => Max(U) \in U /\ \A i \in U : Max(U) >= i
  BY <1>2, Extremes
<1>. QED
  BY <1>3, <1>4 DEF F, U

\* The value at a time is a sample's, or lies between those of its two neighbours.
LEMMA Interpolated ==
  ASSUME NEW samples, Ordered(samples), NEW type, NEW at \in Int,
         NEW v \in Interpolate(samples, type, at)
  PROVE  \/ \E i \in DOMAIN samples : v \in samples[i].value
         \/ /\ type # "categorical" /\ From(samples, at) # {} /\ Until(samples, at) # {}
            /\ \E x \in samples[Max(Until(samples, at))].value,
                  y \in samples[Min(From(samples, at))].value : Lies(v, type, x, y)
<1>. DEFINE from == From(samples, at)  until == Until(samples, at)
            after == samples[Min(from)]  before == samples[Max(until)]
            leftGap == at - before.time  rightGap == after.time - at
<1>1. CASE from # {} /\ after.time = at
  <2>1. Interpolate(samples, type, at) = after.value
    BY <1>1 DEF Interpolate
  <2>2. Min(from) \in DOMAIN samples
    BY <1>1, Neighbours DEF From
  <2>. QED
    BY <2>1, <2>2
<1>2. CASE ~(from # {} /\ after.time = at) /\ type = "categorical"
  <2>1. Interpolate(samples, type, at) = IF until = {} \/ leftGap > MaxGap THEN {} ELSE before.value
    BY <1>2 DEF Interpolate
  <2>2. until # {} /\ v \in before.value
    BY <2>1
  <2>3. Max(until) \in DOMAIN samples
    BY <2>2, Neighbours DEF Until
  <2>. QED
    BY <2>2, <2>3
<1>3. CASE ~(from # {} /\ after.time = at) /\ type # "categorical"
  <2>. DEFINE missing == until = {} \/ from = {} \/ TooFar(leftGap, rightGap)
              way(l, r) == Between(type, l, r, leftGap, leftGap + rightGap)
  <2>1. Interpolate(samples, type, at) =
          IF missing THEN {}
          ELSE UNION {{way(l, r) : r \in after.value} : l \in before.value}
    BY <1>3 DEF Interpolate
  <2>2. until # {} /\ from # {}
    BY <2>1
  <2>3. PICK l \in before.value, r \in after.value : v = way(l, r)
    BY <2>1
  <2>4. /\ Min(from) \in DOMAIN samples /\ Max(until) \in DOMAIN samples
        /\ before.time < at /\ after.time >= at
    BY <2>2, Neighbours DEF From, Until
  <2>5. leftGap \in Nat /\ leftGap + rightGap \in Nat \ {0} /\ leftGap <= leftGap + rightGap
    BY <2>4 DEF Ordered
  <2>6. l \in Int /\ r \in Int
    BY <2>3, <2>4 DEF Ordered, Maybe
  <2>. HIDE DEF leftGap, rightGap
  <2>7. Lies(v, type, l, r)
    BY <1>3, <2>3, <2>5, <2>6, BetweenLies
  <2>. QED
    BY <1>3, <2>2, <2>3, <2>7
<1>. QED
  BY <1>1, <1>2, <1>3

\* In a file, the sample before a time and the one from it on follow each other.
LEMMA NextToEachOther ==
  ASSUME NEW samples, Ordered(samples), NEW n \in Nat, DOMAIN samples = 1..n, NEW at \in Int,
         From(samples, at) # {}, Until(samples, at) # {}
  PROVE  Min(From(samples, at)) = Max(Until(samples, at)) + 1
<1>. DEFINE a == Min(From(samples, at))  b == Max(Until(samples, at))
<1>1. /\ a \in From(samples, at) /\ \A i \in From(samples, at) : a <= i
      /\ b \in Until(samples, at) /\ \A i \in Until(samples, at) : b >= i
      /\ From(samples, at) \cup Until(samples, at) = DOMAIN samples
  BY Neighbours
<1>. HIDE DEF a, b
<1>2. a \in 1..n /\ b \in 1..n /\ samples[b].time < at /\ samples[a].time >= at
  BY <1>1 DEF From, Until
<1>3. b < a
  <2>1. a \in DOMAIN samples /\ b \in DOMAIN samples /\ samples[a].time \in Int /\ samples[b].time \in Int
    BY <1>2 DEF Ordered
  <2>2. ~(samples[a].time <= samples[b].time)
    BY <1>2, <2>1
  <2>3. ~(a <= b)
    BY <2>1, <2>2 DEF Ordered
  <2>. QED
    BY <1>2, <2>3
<1>4. b + 1 \in DOMAIN samples /\ ~(b >= b + 1)
  BY <1>2, <1>3
<1>5. b + 1 \in From(samples, at)
  BY <1>1, <1>4
<1>. QED
  BY <1>1, <1>2, <1>3, <1>5 DEF a, b

\* A list has what was sampled inside the window, and the values of its boundaries.
LEMMA CollectedFrom ==
  ASSUME NEW samples, Ordered(samples), NEW type, NEW start \in Int, NEW end \in Int
  PROVE  LET values == Collected(samples, type, start, end)
         IN  /\ IsFiniteSet(DOMAIN values) /\ DOMAIN values \subseteq Int
             /\ \A p \in DOMAIN values :
                  \/ p \in DOMAIN samples /\ values[p] = samples[p].value
                  \/ \E at \in {start, end} : values[p] = Interpolate(samples, type, at)
<1>. DEFINE inside == Inside(samples, start, end)
            last == Max(inside \cup {0})
<1>1. inside \in SUBSET DOMAIN samples
  BY DEF Inside
<1>2. inside \in SUBSET Int /\ IsFiniteSet(inside)
  BY <1>1, FS_Subset DEF Ordered
<1>. HIDE DEF inside
<1>3. inside \cup {0} \in SUBSET Int /\ IsFiniteSet(inside \cup {0})
  BY <1>2, FS_AddElement
<1>4. last \in Int
  BY <1>3, Extremes
<1>. HIDE DEF last
<1>5. Collected(samples, type, start, end) =
        [p \in inside \cup {last + 1, last + 2} |->
          IF p \in inside THEN samples[p].value
          ELSE Interpolate(samples, type, IF p = last + 1 THEN start ELSE end)]
  BY DEF Collected, inside, last
<1>6. IsFiniteSet(inside \cup {last + 1, last + 2})
  <2>1. inside \cup {last + 1, last + 2} = (inside \cup {last + 1}) \cup {last + 2}
    OBVIOUS
  <2>2. IsFiniteSet(inside \cup {last + 1})
    BY <1>2, FS_AddElement
  <2>3. IsFiniteSet((inside \cup {last + 1}) \cup {last + 2})
    BY <2>2, FS_AddElement
  <2>. QED
    BY <2>1, <2>3
<1>. QED
  BY <1>1, <1>2, <1>4, <1>5, <1>6

\* Nothing is extrapolated, on any series the constructor accepts.
THEOREM TelemetryNotExtrapolated ==
  ASSUME NEW samples \in Seq(TelemetrySample), Monotonic(samples), NEW type,
         NEW start \in Int, NEW end \in Int
  PROVE  Supported(samples, type, start, end)
<1>. DEFINE values == Collected(samples, type, start, end)
<1>1. Ordered(samples) /\ Len(samples) \in Nat /\ DOMAIN samples = 1..Len(samples)
  BY SeriesOrdered
<1>2. ASSUME NEW i \in DOMAIN samples, NEW v \in samples[i].value
      PROVE  \E j, k \in Present(samples) :
               k \in j..j + 1 /\ \E x \in samples[j].value, y \in samples[k].value : Lies(v, type, x, y)
  <2>1. i \in Present(samples) /\ i \in i..i + 1 /\ v \in Int
    BY <1>1, <1>2 DEF Present, Ordered, Maybe
  <2>2. Lies(v, type, v, v)
    <3>1. CASE type = "circular_deg"
      <4>1. Circle \in Nat \ {0} /\ (v - v) % Circle = 0
        <5>1. Circle \in Nat \ {0}
          BY TelemetryAssumption
        <5>2. v - v = Circle * 0 + 0 /\ v - v \in Int /\ 0 \in 0..Circle - 1 /\ 0 \in Int
          BY <2>1, <5>1
        <5>. QED
          BY <5>1, <5>2, Remainder, Zenon
      <4>2. v % Circle = (v + 0) % Circle
        BY <2>1
      <4>3. v % Circle \in {(v + k) % Circle : k \in 0..0}
        BY <4>2
      <4>4. ShortArc(v, v) = {(v + k) % Circle : k \in 0..0}
        BY <4>1 DEF ShortArc
      <4>. QED
        BY <3>1, <4>3, <4>4 DEF Lies
    <3>2. CASE type # "circular_deg"
      BY <2>1, <3>2 DEF Lies
    <3>. QED
      BY <3>1, <3>2
  <2>. QED
    BY <1>2, <2>1, <2>2
<1>3. ASSUME NEW at \in Int, NEW v \in Interpolate(samples, type, at)
      PROVE  \E j, k \in Present(samples) :
               k \in j..j + 1 /\ \E x \in samples[j].value, y \in samples[k].value : Lies(v, type, x, y)
  <2>1. CASE \E i \in DOMAIN samples : v \in samples[i].value
    BY <1>2, <2>1
  <2>2. CASE /\ From(samples, at) # {} /\ Until(samples, at) # {}
             /\ \E x \in samples[Max(Until(samples, at))].value,
                   y \in samples[Min(From(samples, at))].value : Lies(v, type, x, y)
    <3>. DEFINE j == Max(Until(samples, at))  k == Min(From(samples, at))
    <3>1. j \in DOMAIN samples /\ k \in DOMAIN samples
      BY <1>1, <2>2, Neighbours DEF From, Until
    <3>2. k = j + 1
      BY <1>1, <2>2, NextToEachOther
    <3>. HIDE DEF j, k
    <3>3. k \in j..j + 1
      BY <1>1, <3>1, <3>2
    <3>4. PICK x \in samples[j].value, y \in samples[k].value : Lies(v, type, x, y)
      BY <2>2 DEF j, k
    <3>5. j \in Present(samples) /\ k \in Present(samples)
      BY <3>1, <3>4 DEF Present
    <3>. QED
      BY <3>3, <3>4, <3>5
  <2>. QED
    BY <1>1, <1>3, <2>1, <2>2, Interpolated
<1>4. ASSUME NEW p \in DOMAIN values
      PROVE  \/ p \in DOMAIN samples /\ values[p] = samples[p].value
             \/ \E at \in {start, end} : values[p] = Interpolate(samples, type, at)
  BY <1>1, CollectedFrom
<1>. HIDE DEF values
<1>5. ASSUME NEW v \in Distinct(values)
      PROVE  \E j, k \in Present(samples) :
               k \in j..j + 1 /\ \E x \in samples[j].value, y \in samples[k].value : Lies(v, type, x, y)
  <2>1. PICK p \in DOMAIN values : v \in values[p]
    BY DEF Distinct
  <2>. QED
    BY <1>2, <1>3, <1>4, <2>1
<1>. QED
  BY <1>5 DEF Supported, values

-----------------------------------------------------------------------------
(* Telemetry: what is far away has no say.                                 *)

\* Samples within MaxGap of a window are in order, and what is inside it or next to
\* one of its boundaries, and near, is among them.
LEMMA NearIs ==
  ASSUME NEW samples, Ordered(samples), NEW start \in Int, NEW end \in Int
  PROVE  LET near == Near(samples, start, end)
         IN  /\ Ordered(near)
             /\ \A i : i \in DOMAIN near <=>
                  i \in DOMAIN samples /\ start - MaxGap <= samples[i].time /\ samples[i].time <= end + MaxGap
             /\ \A i \in DOMAIN near : near[i] = samples[i]
<1>. DEFINE near == Near(samples, start, end)
<1>1. DOMAIN near \in SUBSET DOMAIN samples
  BY DEF Near, Inside
<1>2. IsFiniteSet(DOMAIN near)
  BY <1>1, FS_Subset DEF Ordered
<1>3. \A i : i \in DOMAIN near <=>
        i \in DOMAIN samples /\ start - MaxGap <= samples[i].time /\ samples[i].time <= end + MaxGap
  BY DEF Near, Inside
<1>4. \A i \in DOMAIN near : near[i] = samples[i]
  BY DEF Near
<1>. HIDE DEF near
<1>5. Ordered(near)
  BY <1>1, <1>2, <1>4 DEF Ordered
<1>. QED
  BY <1>3, <1>4, <1>5 DEF near

\* The smallest and the largest of a set stay so in a part that has them.
LEMMA SameExtremes ==
  ASSUME NEW S \in SUBSET Int, IsFiniteSet(S), NEW T \in SUBSET S
  PROVE  /\ S # {} /\ Min(S) \in T => Min(T) = Min(S)
         /\ S # {} /\ Max(S) \in T => Max(T) = Max(S)
<1>1. T \in SUBSET Int /\ IsFiniteSet(T)
  BY FS_Subset
<1>2. S # {} => /\ Max(S) \in S /\ \A y \in S : Max(S) >= y
                /\ Min(S) \in S /\ \A y \in S : Min(S) <= y
  BY Extremes
<1>3. T # {} => /\ Max(T) \in T /\ \A y \in T : Max(T) >= y
                /\ Min(T) \in T /\ \A y \in T : Min(T) <= y
  BY <1>1, Extremes
<1>4. /\ \A x, y \in Int : x <= y /\ y <= x => x = y
      /\ \A x, y \in Int : x >= y /\ y >= x => x = y
  OBVIOUS
<1>5. ASSUME S # {}, Min(S) \in T PROVE Min(T) = Min(S)
  <2>1. Min(T) \in T /\ Min(T) <= Min(S) /\ Min(S) <= Min(T)
    BY <1>2, <1>3, <1>5
  <2>2. Min(T) \in Int /\ Min(S) \in Int
    BY <1>1, <1>5, <2>1
  <2>. QED
    BY <1>4, <2>1, <2>2, Zenon
<1>6. ASSUME S # {}, Max(S) \in T PROVE Max(T) = Max(S)
  <2>1. Max(T) \in T /\ Max(T) >= Max(S) /\ Max(S) >= Max(T)
    BY <1>2, <1>3, <1>6
  <2>2. Max(T) \in Int /\ Max(S) \in Int
    BY <1>1, <1>6, <2>1
  <2>. QED
    BY <1>4, <2>1, <2>2, Zenon
<1>. QED
  BY <1>5, <1>6

\* A boundary has the value it would have had without the samples far away.
LEMMA BoundaryIsLocal ==
  ASSUME NEW samples, Ordered(samples), NEW type, NEW start \in Int, NEW end \in Int,
         NEW at \in Int, start <= at, at <= end
  PROVE  Interpolate(samples, type, at) = Interpolate(Near(samples, start, end), type, at)
<1>. DEFINE near == Near(samples, start, end)
            F == From(samples, at)  U == Until(samples, at)
            f == From(near, at)  u == Until(near, at)
            a == Min(F)  b == Max(U)
<1>1. MaxGap \in Nat /\ MaxGap > 0
  BY TelemetryAssumption
<1>2. /\ Ordered(near)
      /\ \A i : i \in DOMAIN near <=>
           i \in DOMAIN samples /\ start - MaxGap <= samples[i].time /\ samples[i].time <= end + MaxGap
      /\ \A i \in DOMAIN near : near[i] = samples[i]
  BY NearIs
<1>. HIDE DEF near
<1>3. /\ f = {i \in DOMAIN near : samples[i].time >= at} /\ u = {i \in DOMAIN near : samples[i].time < at}
      /\ f \in SUBSET F /\ u \in SUBSET U
  BY <1>2 DEF From, Until
<1>4. /\ F \in SUBSET DOMAIN samples /\ U \in SUBSET DOMAIN samples
      /\ F # {} => a \in F /\ \A i \in F : a <= i
      /\ U # {} => b \in U /\ \A i \in U : b >= i
  BY Neighbours DEF From, Until
<1>5. F \in SUBSET Int /\ U \in SUBSET Int /\ IsFiniteSet(F) /\ IsFiniteSet(U)
  BY <1>4, FS_Subset DEF Ordered
<1>6. \A i \in DOMAIN samples : samples[i].time \in Int
  BY DEF Ordered
<1>7. /\ \A i \in F : i \in DOMAIN samples /\ samples[i].time >= at
      /\ \A i \in U : i \in DOMAIN samples /\ samples[i].time < at
  BY DEF From, Until
<1>. HIDE DEF F, U, f, u
\* The sample after the boundary is near, and the first one near, or none is.
<1>8. F # {} => IF samples[a].time <= end + MaxGap
                THEN a \in f /\ f # {} /\ Min(f) = a /\ near[a] = samples[a]
                ELSE f = {} /\ samples[a].time - at > MaxGap
  <2>. SUFFICES ASSUME F # {} PROVE IF samples[a].time <= end + MaxGap
                THEN a \in f /\ f # {} /\ Min(f) = a /\ near[a] = samples[a]
                ELSE f = {} /\ samples[a].time - at > MaxGap
    OBVIOUS
  <2>1. a \in F /\ a \in DOMAIN samples /\ samples[a].time \in Int /\ samples[a].time >= at
    BY <1>4, <1>6, <1>7
  <2>. HIDE DEF a
  <2>2. CASE samples[a].time <= end + MaxGap
    <3>1. start - MaxGap <= samples[a].time
      BY <1>1, <2>1
    <3>2. a \in f /\ near[a] = samples[a]
      BY <1>2, <1>3, <2>1, <2>2, <3>1
    <3>3. Min(f) = a
      BY <1>3, <1>5, <3>2, SameExtremes DEF a
    <3>. QED
      BY <2>2, <3>2, <3>3
  <2>3. CASE ~(samples[a].time <= end + MaxGap)
    <3>1. samples[a].time - at > MaxGap
      BY <1>1, <2>1, <2>3
    <3>2. ASSUME NEW i \in f PROVE FALSE
      <4>1. i \in F /\ i \in DOMAIN samples /\ samples[i].time <= end + MaxGap /\ a <= i
        BY <1>2, <1>3, <1>4 DEF a
      <4>2. samples[a].time <= samples[i].time /\ samples[i].time \in Int
        BY <1>6, <2>1, <4>1 DEF Ordered
      <4>. QED
        BY <1>1, <2>1, <2>3, <4>1, <4>2
    <3>. QED
      BY <2>3, <3>1, <3>2
  <2>. QED
    BY <2>2, <2>3
\* And so is the one before it.
<1>9. U # {} => IF start - MaxGap <= samples[b].time
                THEN b \in u /\ u # {} /\ Max(u) = b /\ near[b] = samples[b]
                ELSE u = {} /\ at - samples[b].time > MaxGap
  <2>. SUFFICES ASSUME U # {} PROVE IF start - MaxGap <= samples[b].time
                THEN b \in u /\ u # {} /\ Max(u) = b /\ near[b] = samples[b]
                ELSE u = {} /\ at - samples[b].time > MaxGap
    OBVIOUS
  <2>1. b \in U /\ b \in DOMAIN samples /\ samples[b].time \in Int /\ samples[b].time < at
    BY <1>4, <1>6, <1>7
  <2>. HIDE DEF b
  <2>2. CASE start - MaxGap <= samples[b].time
    <3>1. samples[b].time <= end + MaxGap
      BY <1>1, <2>1
    <3>2. b \in u /\ near[b] = samples[b]
      BY <1>2, <1>3, <2>1, <2>2, <3>1
    <3>3. Max(u) = b
      BY <1>3, <1>5, <3>2, SameExtremes DEF b
    <3>. QED
      BY <2>2, <3>2, <3>3
  <2>3. CASE ~(start - MaxGap <= samples[b].time)
    <3>1. at - samples[b].time > MaxGap
      BY <1>1, <2>1, <2>3
    <3>2. ASSUME NEW i \in u PROVE FALSE
      <4>1. i \in U /\ i \in DOMAIN samples /\ start - MaxGap <= samples[i].time /\ b >= i
        BY <1>2, <1>3, <1>4 DEF b
      <4>2. samples[i].time <= samples[b].time /\ samples[i].time \in Int
        <5>1. i <= b /\ i \in Int /\ b \in Int
          BY <1>5, <2>1, <4>1
        <5>. QED
          BY <1>6, <2>1, <4>1, <5>1 DEF Ordered
      <4>. QED
        BY <1>1, <2>1, <2>3, <4>1, <4>2
    <3>. QED
      BY <2>3, <3>1, <3>2
  <2>. QED
    BY <2>2, <2>3
<1>10. /\ F = {} => f = {}
       /\ U = {} => u = {}
  BY <1>3
\* The rows of _interpolate, one after another.
<1>. DEFINE lg == at - samples[b].time  rg == samples[a].time - at
            lgn == at - near[Max(u)].time  rgn == near[Min(f)].time - at
            mid(s, l, r, x, y) == UNION {{Between(type, v, w, x, x + y) : w \in s[r].value} : v \in s[l].value}
<1>11. Interpolate(samples, type, at) =
         IF F # {} /\ samples[a].time = at THEN samples[a].value
         ELSE IF type = "categorical" THEN IF U = {} \/ lg > MaxGap THEN {} ELSE samples[b].value
         ELSE IF U = {} \/ F = {} \/ TooFar(lg, rg) THEN {} ELSE mid(samples, b, a, lg, rg)
  BY DEF Interpolate, F, U
<1>12. Interpolate(near, type, at) =
         IF f # {} /\ near[Min(f)].time = at THEN near[Min(f)].value
         ELSE IF type = "categorical" THEN IF u = {} \/ lgn > MaxGap THEN {} ELSE near[Max(u)].value
         ELSE IF u = {} \/ f = {} \/ TooFar(lgn, rgn) THEN {} ELSE mid(near, Max(u), Min(f), lgn, rgn)
  BY DEF Interpolate, f, u
<1>13. F # {} => samples[a].time \in Int /\ (samples[a].time - at > MaxGap => samples[a].time # at)
  BY <1>1, <1>4, <1>6
<1>14. CASE F # {} /\ samples[a].time <= end + MaxGap
  <2>1. f # {} /\ Min(f) = a /\ near[a] = samples[a] /\ rgn = rg
    BY <1>8, <1>14
  <2>2. CASE U # {} /\ start - MaxGap <= samples[b].time
    <3>1. u # {} /\ Max(u) = b /\ near[b] = samples[b] /\ lgn = lg
      BY <1>9, <2>2
    <3>2. mid(near, Max(u), Min(f), lgn, rgn) = mid(samples, b, a, lg, rg)
      BY <2>1, <3>1
    <3>. HIDE DEF mid, lg, lgn, rg, rgn, a, b
    <3>. QED
      BY <1>11, <1>12, <1>14, <2>1, <2>2, <3>1, <3>2 DEF near
  <2>3. CASE U # {} /\ ~(start - MaxGap <= samples[b].time)
    <3>1. u = {} /\ lg > MaxGap /\ TooFar(lg, rg)
      BY <1>9, <2>3 DEF TooFar
    <3>. HIDE DEF mid, lg, lgn, rg, rgn, a, b
    <3>. QED
      BY <1>11, <1>12, <1>14, <2>1, <2>3, <3>1 DEF near
  <2>4. CASE U = {}
    <3>1. u = {}
      BY <1>10, <2>4
    <3>. HIDE DEF mid, lg, lgn, rg, rgn, a, b
    <3>. QED
      BY <1>11, <1>12, <1>14, <2>1, <2>4, <3>1 DEF near
  <2>. QED
    BY <2>2, <2>3, <2>4
<1>15. CASE ~(F # {} /\ samples[a].time <= end + MaxGap)
  <2>1. f = {} /\ ~(F # {} /\ samples[a].time = at) /\ (F = {} \/ TooFar(lg, rg))
    BY <1>8, <1>10, <1>13, <1>15 DEF TooFar
  <2>2. CASE U # {} /\ start - MaxGap <= samples[b].time
    <3>1. u # {} /\ Max(u) = b /\ near[b] = samples[b] /\ lgn = lg
      BY <1>9, <2>2
    <3>. HIDE DEF mid, lg, lgn, rg, rgn, a, b
    <3>. QED
      BY <1>11, <1>12, <2>1, <2>2, <3>1 DEF near
  <2>3. CASE U # {} /\ ~(start - MaxGap <= samples[b].time)
    <3>1. u = {} /\ lg > MaxGap
      BY <1>9, <2>3
    <3>. HIDE DEF mid, lg, lgn, rg, rgn, a, b
    <3>. QED
      BY <1>11, <1>12, <2>1, <2>3, <3>1 DEF near
  <2>4. CASE U = {}
    <3>1. u = {}
      BY <1>10, <2>4
    <3>. HIDE DEF mid, lg, lgn, rg, rgn, a, b
    <3>. QED
      BY <1>11, <1>12, <2>1, <2>4, <3>1 DEF near
  <2>. QED
    BY <2>2, <2>3, <2>4
<1>. QED
  BY <1>14, <1>15

\* What a window is given depends only on the samples within MaxGap of it, on any
\* series the constructor accepts.
THEOREM TelemetryFromNearby ==
  ASSUME NEW samples \in Seq(TelemetrySample), Monotonic(samples), NEW type,
         NEW start \in Int, NEW end \in Int, start <= end
  PROVE  Local(samples, type, start, end)
<1>. DEFINE near == Near(samples, start, end)
<1>1. Ordered(samples)
  BY SeriesOrdered
<1>2. MaxGap \in Nat
  BY TelemetryAssumption
<1>3. /\ \A i : i \in DOMAIN near <=>
           i \in DOMAIN samples /\ start - MaxGap <= samples[i].time /\ samples[i].time <= end + MaxGap
      /\ \A i \in DOMAIN near : near[i] = samples[i]
  BY <1>1, NearIs
<1>4. Interpolate(samples, type, start) = Interpolate(near, type, start)
  BY <1>1, BoundaryIsLocal
<1>5. Interpolate(samples, type, end) = Interpolate(near, type, end)
  BY <1>1, BoundaryIsLocal
<1>. HIDE DEF near
<1>6. \A i \in DOMAIN samples : samples[i].time \in Int
  BY <1>1 DEF Ordered
<1>7. Inside(near, start, end) = Inside(samples, start, end)
  <2>1. \A i : i \in Inside(samples, start, end) <=> i \in Inside(near, start, end)
    BY <1>2, <1>3, <1>6 DEF Inside
  <2>. QED
    BY <2>1
<1>8. \A i \in Inside(samples, start, end) : near[i].value = samples[i].value
  BY <1>3, <1>7 DEF Inside
<1>. DEFINE inside == Inside(samples, start, end)  last == Max(inside \cup {0})
<1>9. Collected(samples, type, start, end) =
        [p \in inside \cup {last + 1, last + 2} |->
          IF p \in inside THEN samples[p].value
          ELSE Interpolate(samples, type, IF p = last + 1 THEN start ELSE end)]
  BY DEF Collected
<1>10. Collected(near, type, start, end) =
        [p \in inside \cup {last + 1, last + 2} |->
          IF p \in inside THEN near[p].value
          ELSE Interpolate(near, type, IF p = last + 1 THEN start ELSE end)]
  BY <1>7 DEF Collected
<1>. HIDE DEF inside, last
<1>11. \A p \in inside \cup {last + 1, last + 2} :
         (IF p \in inside THEN samples[p].value
          ELSE Interpolate(samples, type, IF p = last + 1 THEN start ELSE end))
       = (IF p \in inside THEN near[p].value
          ELSE Interpolate(near, type, IF p = last + 1 THEN start ELSE end))
  BY <1>4, <1>5, <1>8 DEF inside
<1>12. Collected(samples, type, start, end) = Collected(near, type, start, end)
  BY <1>9, <1>10, <1>11
<1>. QED
  BY <1>12 DEF Local, near

-----------------------------------------------------------------------------
(* Telemetry: the value stored for a window.                               *)

\* All that was sampled.
Seen(samples) == UNION {samples[i].value : i \in DOMAIN samples}

\* An integer field holds whole numbers, a boolean one 0 and 1.
OfType(samples, type) ==
  \A v \in Seen(samples) : /\ type = "integer" => v % Unit = 0
                           /\ type = "boolean" => v \in {0, Unit}

\* What a window collects is finite, and within what was sampled.
LEMMA CollectedWithin ==
  ASSUME NEW samples \in Seq(TelemetrySample), Monotonic(samples), NEW type, type # "circular_deg",
         NEW start \in Int, NEW end \in Int
  PROVE  LET values == Collected(samples, type, start, end)
         IN  /\ IsFiniteSet(DOMAIN values) /\ DOMAIN values \in SUBSET Int
             /\ Distinct(values) \in SUBSET Int /\ IsFiniteSet(Distinct(values))
             /\ Seen(samples) \in SUBSET Int
             /\ \A v \in Distinct(values) :
                  IF type \in {"boolean", "categorical"} THEN v \in Seen(samples)
                  ELSE \E lo, hi \in Seen(samples) : lo <= v /\ v <= hi
<1>. DEFINE values == Collected(samples, type, start, end)  seen == Seen(samples)
<1>1. Ordered(samples)
  BY SeriesOrdered
<1>2. IsFiniteSet(DOMAIN values) /\ DOMAIN values \in SUBSET Int
  BY <1>1, CollectedFrom
<1>3. seen \in SUBSET Int /\ IsFiniteSet(seen)
  <2>. DEFINE g == [i \in DOMAIN samples |-> samples[i].value]
  <2>1. \A i \in DOMAIN samples : g[i] \in Maybe(Int)
    BY <1>1 DEF Ordered
  <2>2. UNION {g[i] : i \in DOMAIN samples} = seen
    BY DEF Seen
  <2>. HIDE DEF g, seen
  <2>. QED
    BY <1>1, <2>1, <2>2, FinitelyMany DEF Ordered
<1>4. \A v \in Distinct(values) :
        \E i, j \in Present(samples) :
          j \in i..i + 1 /\ \E x \in samples[i].value, y \in samples[j].value : Lies(v, type, x, y)
  BY TelemetryNotExtrapolated DEF Supported
<1>. HIDE DEF values
<1>5. \A v \in Distinct(values) : \E x, y \in seen : Lies(v, type, x, y)
  BY <1>4 DEF Present, Seen
<1>. HIDE DEF seen
<1>6. ASSUME NEW v \in Distinct(values)
      PROVE  /\ v \in Int
             /\ IF type \in {"boolean", "categorical"} THEN v \in seen
                ELSE \E lo, hi \in seen : lo <= v /\ v <= hi
  <2>1. PICK x \in seen, y \in seen : Lies(v, type, x, y)
    BY <1>5
  <2>2. x \in Int /\ y \in Int
    BY <1>3
  <2>3. CASE type \in {"boolean", "categorical"}
    <3>1. v \in {x, y}
      BY <2>1, <2>3 DEF Lies
    <3>. QED
      BY <2>2, <2>3, <3>1
  <2>4. CASE type \notin {"boolean", "categorical"}
    <3>1. v \in (x..y) \cup (y..x)
      BY <2>1, <2>4 DEF Lies
    <3>. QED
      BY <2>2, <2>4, <3>1
  <2>. QED
    BY <2>3, <2>4
<1>7. IsFiniteSet(Distinct(values))
  <2>1. CASE Distinct(values) = {}
    BY <2>1, FS_EmptySet
  <2>2. CASE Distinct(values) # {}
    <3>1. seen # {}
      BY <1>5, <2>2
    <3>. DEFINE lo == Min(seen)  hi == Max(seen)
    <3>2. /\ lo \in Int /\ hi \in Int
          /\ \A x \in seen : lo <= x /\ x <= hi
      BY <1>3, <3>1, Extremes
    <3>. HIDE DEF lo, hi
    <3>3. Distinct(values) \in SUBSET (lo..hi)
      <4>. SUFFICES ASSUME NEW v \in Distinct(values) PROVE v \in lo..hi
        OBVIOUS
      <4>1. \E x, y \in seen : x <= v /\ v <= y
        BY <1>3, <1>6
      <4>2. PICK x \in seen, y \in seen : x <= v /\ v <= y
        BY <4>1
      <4>3. v \in Int /\ x \in Int /\ y \in Int /\ lo <= x /\ y <= hi
        BY <1>3, <1>6, <3>2
      <4>. QED
        BY <3>2, <4>2, <4>3
    <3>4. IsFiniteSet(lo..hi)
      BY <3>2, FS_Interval
    <3>. QED
      BY <3>3, <3>4, FS_Subset
  <2>. QED
    BY <2>1, <2>2
<1>. QED
  BY <1>2, <1>3, <1>6, <1>7 DEF values, seen

\* The values of a list have their ranks among themselves, and one is the most frequent.
LEMMA Ranks ==
  ASSUME NEW values, IsFiniteSet(DOMAIN values), Distinct(values) \in SUBSET Int,
         IsFiniteSet(Distinct(values)), Listed(values) # {}
  PROVE  /\ Cardinality(Listed(values)) \in Nat \ {0}
         /\ \A k \in Int : k <= Cardinality(Listed(values)) => Sorted(values, k) \in Distinct(values)
         /\ MostFrequent(values) # {}
<1>. DEFINE D == Distinct(values)  n == Cardinality(Listed(values))  most == Max(D)
<1>1. Listed(values) \in SUBSET DOMAIN values
  BY DEF Listed
<1>2. IsFiniteSet(Listed(values)) /\ n \in Nat /\ n # 0
  <2>1. IsFiniteSet(Listed(values))
    BY <1>1, FS_Subset
  <2>. QED
    BY <2>1, FS_CardinalityType, FS_EmptySet
<1>3. D # {}
  BY DEF Listed, Distinct
<1>4. most \in D /\ \A x \in D : most >= x
  BY <1>3, Extremes
<1>5. UpTo(values, most) = n
  <2>. HIDE DEF most
  <2>1. \A p \in DOMAIN values : \A v \in values[p] : v \in D /\ v \in Int /\ most \in Int
    BY <1>4 DEF Distinct
  <2>2. \A p \in DOMAIN values : (\E v \in values[p] : v <= most) <=> values[p] # {}
    BY <1>4, <2>1
  <2>3. {p \in DOMAIN values : \E v \in values[p] : v <= most} = Listed(values)
    BY <2>2 DEF Listed
  <2>. QED
    BY <2>3 DEF UpTo
<1>6. ASSUME NEW k \in Int, k <= n PROVE Sorted(values, k) \in D
  <2>. DEFINE S == {x \in D : UpTo(values, x) >= k}
  <2>1. S \in SUBSET D
    OBVIOUS
  <2>2. most \in S
    <3>. HIDE DEF most, n
    <3>1. n >= k
      BY <1>2, <1>6
    <3>. QED
      BY <1>4, <1>5, <3>1
  <2>. HIDE DEF S
  <2>3. S \in SUBSET Int /\ IsFiniteSet(S) /\ S # {}
    BY <2>1, <2>2, FS_Subset
  <2>4. Min(S) \in S
    BY <2>3, Extremes
  <2>. QED
    BY <2>1, <2>4 DEF Sorted, S
<1>7. MostFrequent(values) # {}
  <2>. DEFINE c == Cardinality(DOMAIN values)  N == {Times(values, x) : x \in D}
  <2>1. c \in Nat
    BY FS_CardinalityType
  <2>2. ASSUME NEW x \in D PROVE Times(values, x) \in 0..c
    <3>. DEFINE P == {p \in DOMAIN values : x \in values[p]}
    <3>1. P \in SUBSET DOMAIN values
      OBVIOUS
    <3>. HIDE DEF P
    <3>2. IsFiniteSet(P) /\ Cardinality(P) \in Nat /\ Cardinality(P) <= c
      BY <3>1, FS_Subset, FS_CardinalityType
    <3>3. Times(values, x) = Cardinality(P)
      BY DEF Times, P
    <3>. QED
      BY <2>1, <3>2, <3>3
  <2>. HIDE DEF c
  <2>3. N \in SUBSET (0..c) /\ N \in SUBSET Int /\ N # {}
    BY <1>3, <2>2
  <2>4. IsFiniteSet(N)
    <3>1. IsFiniteSet(0..c)
      BY <2>1, FS_Interval
    <3>. QED
      BY <2>3, <3>1, FS_Subset
  <2>5. Max(N) \in N /\ \A y \in N : Max(N) >= y
    <3>. HIDE DEF N
    <3>. QED
      BY <2>3, <2>4, Extremes
  <2>6. PICK x \in D : Times(values, x) = Max(N)
    BY <2>5
  <2>7. ASSUME NEW y \in D PROVE Times(values, y) <= Times(values, x)
    <3>1. Times(values, y) \in N
      OBVIOUS
    <3>2. Max(N) >= Times(values, y)
      BY <2>5, <3>1
    <3>3. Times(values, y) \in Int /\ Times(values, x) \in Int
      BY <2>1, <2>2
    <3>. QED
      BY <2>6, <3>2, <3>3
  <2>8. x \in MostFrequent(values)
    BY <2>7 DEF MostFrequent
  <2>. QED
    BY <2>8
<1>. QED
  BY <1>2, <1>6, <1>7

\* Between two whole numbers of the field, rounding to one stays between them.
LEMMA RoundedWithin ==
  ASSUME NEW x \in Int, NEW lo \in Int, NEW hi \in Int, lo <= x, x <= hi, lo % Unit = 0, hi % Unit = 0
  PROVE  lo <= Rounded(x) /\ Rounded(x) <= hi
<1>. DEFINE down == x \div Unit  rest == x % Unit  l == lo \div Unit  h == hi \div Unit
<1>1. Unit \in Nat \ {0}
  BY TelemetryAssumption
<1>2. /\ down \in Int /\ rest \in 0..Unit - 1 /\ x = Unit * down + rest
      /\ l \in Int /\ lo = Unit * l + 0 /\ h \in Int /\ hi = Unit * h + 0
  BY <1>1, Division
<1>3. \/ Rounded(x) = down * Unit
      \/ Rounded(x) = (down + 1) * Unit /\ ~(2 * rest < Unit)
  BY DEF Rounded
<1>. HIDE DEF down, rest, l, h
<1>4. /\ Unit * down = down * Unit /\ Unit * (down + 1) = (down + 1) * Unit
      /\ Unit * (down + 1) = Unit * down + Unit
  BY <1>1, <1>2
<1>5. ASSUME NEW a \in Int, NEW b \in Int, a <= b PROVE Unit * a <= Unit * b
  BY <1>1, <1>5
<1>6. l <= down
  <2>1. CASE down + 1 <= l
    <3>1. Unit * (down + 1) <= Unit * l
      BY <1>2, <1>5, <2>1
    <3>. QED
      BY <1>1, <1>2, <1>4, <3>1
  <2>. QED
    BY <1>2, <2>1
<1>7. Unit * l <= Unit * down
  BY <1>2, <1>5, <1>6
<1>8. CASE Rounded(x) = down * Unit
  BY <1>1, <1>2, <1>4, <1>7, <1>8
<1>9. CASE Rounded(x) = (down + 1) * Unit /\ ~(2 * rest < Unit)
  <2>1. rest > 0
    BY <1>1, <1>2, <1>9
  <2>2. CASE h <= down
    <3>1. Unit * h <= Unit * down
      BY <1>2, <1>5, <2>2
    <3>. QED
      BY <1>1, <1>2, <2>1, <3>1
  <2>3. CASE down + 1 <= h
    <3>1. Unit * (down + 1) <= Unit * h
      BY <1>2, <1>5, <2>3
    <3>. QED
      BY <1>1, <1>2, <1>4, <1>7, <1>9, <3>1
  <2>. QED
    BY <1>2, <2>2, <2>3
<1>. QED
  BY <1>3, <1>8, <1>9

\* The median of values that lie within some set lies within it.
LEMMA MedianWithin ==
  ASSUME NEW values, IsFiniteSet(DOMAIN values), Distinct(values) \in SUBSET Int,
         IsFiniteSet(Distinct(values)), Listed(values) # {}, NEW seen \in SUBSET Int,
         \A v \in Distinct(values) : \E lo, hi \in seen : lo <= v /\ v <= hi
  PROVE  Median(values) \in Int /\ \E lo, hi \in seen : lo <= Median(values) /\ Median(values) <= hi
<1>. DEFINE n == Cardinality(Listed(values))
<1>1. n \in Nat \ {0} /\ \A k \in Int : k <= n => Sorted(values, k) \in Distinct(values)
  BY Ranks
<1>2. Median(values) = IF n % 2 = 1 THEN Sorted(values, (n + 1) \div 2)
                       ELSE (Sorted(values, n \div 2) + Sorted(values, (n \div 2) + 1)) \div 2
  BY DEF Median
<1>. HIDE DEF n
<1>3. CASE n % 2 = 1
  <2>1. (n + 1) \div 2 \in Int /\ (n + 1) \div 2 <= n
    BY <1>1
  <2>2. Median(values) \in Distinct(values)
    BY <1>1, <1>2, <1>3, <2>1
  <2>. QED
    BY <2>2
<1>4. CASE n % 2 # 1
  <2>1. n \div 2 \in Int /\ n \div 2 <= n /\ (n \div 2) + 1 \in Int /\ (n \div 2) + 1 <= n
    BY <1>1, <1>4
  <2>. DEFINE a == Sorted(values, n \div 2)  b == Sorted(values, (n \div 2) + 1)
  <2>2. a \in Distinct(values) /\ b \in Distinct(values) /\ a \in Int /\ b \in Int
    BY <1>1, <2>1
  <2>3. Median(values) = (a + b) \div 2
    BY <1>2, <1>4
  <2>. HIDE DEF a, b
  <2>4. PICK lo \in seen, hi \in seen : lo <= a /\ a <= hi
    BY <2>2
  <2>5. PICK low \in seen, high \in seen : low <= b /\ b <= high
    BY <2>2
  <2>. DEFINE m == (a + b) \div 2
  <2>6. m \in Int /\ (a <= b => a <= m /\ m <= b) /\ (b <= a => b <= m /\ m <= a)
    BY <2>2
  <2>. HIDE DEF m
  <2>7. lo \in Int /\ hi \in Int /\ low \in Int /\ high \in Int
    OBVIOUS
  <2>8. (lo <= m /\ m <= high) \/ (low <= m /\ m <= hi)
    BY <2>2, <2>4, <2>5, <2>6, <2>7
  <2>. QED
    BY <2>3, <2>4, <2>5, <2>6, <2>8 DEF m
<1>. QED
  BY <1>3, <1>4

\* The value stored for a window is one that was sampled, or lies between two.
THEOREM TelemetryWithinSamples ==
  ASSUME NEW samples \in Seq(TelemetrySample), Monotonic(samples), NEW type, OfType(samples, type),
         NEW start \in Int, NEW end \in Int
  PROVE  WithinSamples(samples, type, start, end)
<1>. DEFINE values == Collected(samples, type, start, end)  seen == Seen(samples)
<1>. SUFFICES ASSUME type # "circular_deg", NEW v \in Aggregate(samples, type, start, end)
              PROVE  IF type \in {"boolean", "categorical"} THEN v \in seen
                     ELSE \E lo, hi \in seen : lo <= v /\ v <= hi
  BY DEF WithinSamples, Seen
<1>1. /\ IsFiniteSet(DOMAIN values) /\ DOMAIN values \in SUBSET Int
      /\ Distinct(values) \in SUBSET Int /\ IsFiniteSet(Distinct(values)) /\ seen \in SUBSET Int
      /\ \A x \in Distinct(values) :
           IF type \in {"boolean", "categorical"} THEN x \in seen
           ELSE \E lo, hi \in seen : lo <= x /\ x <= hi
  BY CollectedWithin
<1>2. /\ Listed(values) # {}
      /\ type = "categorical" => v \in Mode(values)
      /\ type = "boolean" => v = Majority(values)
      /\ type = "integer" => v = Rounded(Median(values))
      /\ type \notin {"categorical", "boolean", "integer"} => v = Median(values)
  BY DEF Aggregate
<1>. HIDE DEF values
<1>3. Cardinality(Listed(values)) \in Nat \ {0} /\ MostFrequent(values) # {}
  BY <1>1, <1>2, Ranks
<1>4. CASE type = "categorical"
  <2>. DEFINE first == {p \in DOMAIN values : values[p] \cap MostFrequent(values) # {}}
  <2>1. first # {}
    <3>1. PICK x \in MostFrequent(values) : TRUE
      BY <1>3
    <3>2. PICK p \in DOMAIN values : x \in values[p]
      BY <3>1 DEF MostFrequent, Distinct
    <3>. QED
      BY <3>1, <3>2
  <2>2. first \in SUBSET DOMAIN values
    OBVIOUS
  <2>3. Mode(values) = values[Min(first)]
    BY DEF Mode
  <2>. HIDE DEF first
  <2>4. first \in SUBSET Int /\ IsFiniteSet(first)
    BY <1>1, <2>2, FS_Subset
  <2>5. Min(first) \in DOMAIN values
    BY <2>1, <2>2, <2>4, Extremes
  <2>6. v \in Distinct(values)
    BY <1>2, <1>4, <2>3, <2>5 DEF Distinct
  <2>. QED
    BY <1>1, <1>4, <2>6
<1>5. CASE type = "boolean"
  <2>. DEFINE true == {p \in DOMAIN values : Unit \in values[p]}
  <2>1. \A x \in Distinct(values) : x \in seen /\ x \in {0, Unit}
    BY <1>1, <1>5 DEF OfType
  <2>2. Majority(values) = IF 2 * Cardinality(true) >= Cardinality(Listed(values)) THEN Unit ELSE 0
    BY DEF Majority, Times
  <2>3. true \in SUBSET Listed(values) /\ IsFiniteSet(Listed(values)) /\ Listed(values) \in SUBSET DOMAIN values
    <3>1. true \in SUBSET Listed(values) /\ Listed(values) \in SUBSET DOMAIN values
      BY DEF Listed
    <3>. QED
      BY <1>1, <3>1, FS_Subset
  <2>4. \A p \in DOMAIN values : p \in true <=> Unit \in values[p]
    OBVIOUS
  <2>. HIDE DEF true
  <2>5. CASE true = {}
    <3>1. PICK p \in Listed(values) : TRUE
      BY <1>2
    <3>2. PICK x \in values[p] : TRUE
      BY <3>1 DEF Listed
    <3>3. x \in Distinct(values) /\ Unit \notin values[p]
      BY <2>3, <2>4, <2>5, <3>1, <3>2 DEF Distinct
    <3>4. 0 \in seen
      BY <2>1, <3>2, <3>3
    <3>5. Cardinality(true) = 0
      BY <2>5, FS_EmptySet
    <3>6. ~(2 * Cardinality(true) >= Cardinality(Listed(values)))
      BY <1>3, <3>5
    <3>7. Majority(values) = 0
      BY <2>2, <3>6
    <3>. QED
      BY <1>2, <1>5, <3>4, <3>7
  <2>6. CASE true = Listed(values)
    <3>1. 2 * Cardinality(true) >= Cardinality(Listed(values))
      BY <1>3, <2>6
    <3>2. Majority(values) = Unit
      BY <2>2, <3>1
    <3>3. PICK p \in Listed(values) : Unit \in values[p]
      BY <1>2, <2>3, <2>4, <2>6
    <3>4. Unit \in seen
      BY <2>1, <2>3, <3>3 DEF Distinct
    <3>. QED
      BY <1>2, <1>5, <3>2, <3>4
  <2>7. CASE true # {} /\ true # Listed(values)
    <3>1. PICK p \in true : TRUE
      BY <2>7
    <3>2. PICK q \in Listed(values) : q \notin true
      BY <2>3, <2>7
    <3>3. Unit \in seen
      BY <2>1, <2>3, <2>4, <3>1 DEF Distinct
    <3>4. PICK x \in values[q] : x # Unit
      BY <2>3, <2>4, <3>2 DEF Listed
    <3>5. 0 \in seen
      BY <2>1, <2>3, <3>2, <3>4 DEF Distinct
    <3>. QED
      BY <1>2, <1>5, <2>2, <3>3, <3>5
  <2>. QED
    BY <2>5, <2>6, <2>7
<1>6. CASE type \notin {"boolean", "categorical"}
  <2>1. \A x \in Distinct(values) : \E lo, hi \in seen : lo <= x /\ x <= hi
    BY <1>1, <1>6
  <2>2. Median(values) \in Int /\ \E lo, hi \in seen : lo <= Median(values) /\ Median(values) <= hi
    <3>. HIDE DEF seen
    <3>. QED
      BY <1>1, <1>2, <2>1, MedianWithin
  <2>3. PICK lo \in seen, hi \in seen : lo <= Median(values) /\ Median(values) <= hi
    BY <2>2
  <2>4. CASE type = "integer"
    <3>1. lo % Unit = 0 /\ hi % Unit = 0 /\ lo \in Int /\ hi \in Int
      BY <1>1, <2>4 DEF OfType
    <3>2. lo <= Rounded(Median(values)) /\ Rounded(Median(values)) <= hi
      BY <2>2, <2>3, <3>1, RoundedWithin
    <3>. QED
      BY <1>2, <1>6, <2>4, <3>2
  <2>5. CASE type # "integer"
    BY <1>2, <1>6, <2>3, <2>5
  <2>. QED
    BY <2>4, <2>5
<1>. QED
  BY <1>4, <1>5, <1>6

-----------------------------------------------------------------------------
(* Anchors.                                                                *)

\* What is known of a video's start, each or none of it.
SourcePair == [start : Maybe(Int), creation : Maybe(Int), filename : Maybe(Int)]

\* Preflight puts a sample where ingest will put it, and only one of the two fails in
\* exactly two cases, whatever is known of the video and whatever the manifest asks.
THEOREM PreflightForetellsIngest ==
  ASSUME NEW from \in AnchorSources, NEW pair \in SourcePair, NEW t \in Int,
         NEW absolute \in BOOLEAN, absolute => from # "none", NEW offset \in Int
  PROVE  AlignsLikeIngest(from, pair, t, absolute, offset)
<1>. DEFINE told   == PreflightAligns(from, pair, t, absolute, offset)
            placed == IngestAligns(from, pair, t, absolute, offset)
            theirs == PreflightAnchor(from, pair)
            ours   == IngestAnchor(from, pair)
<1>1. pair.start \in Maybe(Int) /\ pair.creation \in Maybe(Int) /\ pair.filename \in Maybe(Int)
  BY DEF SourcePair
<1>2. /\ \A a, b \in ours : a = b
      /\ theirs = ours \/ (pair.start = {} /\ ours = {})
                       \/ (~absolute /\ from # "filename")
  <2>1. CASE pair.start # {}
    BY <1>1, <2>1 DEF PreflightAnchor, IngestAnchor, Maybe
  <2>2. CASE pair.start = {}
    BY <1>1, <2>2 DEF PreflightAnchor, IngestAnchor, AnchorSources, Maybe
  <2>. QED
    BY <2>1, <2>2
<1>3. /\ placed = Align(t, absolute, offset, ours)
      /\ told = IF from = "filename" /\ theirs = {} THEN {} ELSE Align(t, absolute, offset, theirs)
  BY DEF PreflightAligns, IngestAligns
<1>4. theirs = {} /\ from = "filename" <=>
        from = "filename" /\ pair.start = {} /\ pair.filename = {}
  BY DEF PreflightAnchor
<1>5. CASE absolute
  <2>1. \A anchor : Align(t, absolute, offset, anchor) = {t - a - offset : a \in anchor}
    BY <1>5 DEF Align
  <2>2. /\ placed = {t - a - offset : a \in ours}
        /\ told = {t - a - offset : a \in theirs}
    BY <1>3, <2>1
  <2>3. /\ placed = {} <=> ours = {}
        /\ told = {} <=> theirs = {}
    BY <2>2
  <2>4. theirs # {} /\ ours = {} <=>
          from = "manifest_csv" /\ pair.start = {} /\ pair.creation # {}
    BY <1>5 DEF PreflightAnchor, IngestAnchor, AnchorSources
  <2>5. ours # {} => theirs = ours
    BY <1>2, <1>5
  <2>6. \A x \in told, y \in placed : x = y
    BY <1>2, <2>2, <2>5
  <2>. HIDE DEF told, placed, theirs, ours
  <2>7. AlignsLikeIngest(from, pair, t, absolute, offset)
    BY <1>5, <2>3, <2>4, <2>5, <2>6 DEF AlignsLikeIngest, told, placed
  <2>. QED
    BY <2>7
<1>6. CASE ~absolute
  <2>1. \A anchor : Align(t, absolute, offset, anchor) = {t - offset}
    BY <1>6 DEF Align
  <2>2. /\ placed = {t - offset}
        /\ told = IF from = "filename" /\ pair.start = {} /\ pair.filename = {} THEN {} ELSE {t - offset}
    BY <1>3, <1>4, <2>1
  <2>. HIDE DEF told, placed
  <2>3. /\ placed # {} /\ \A x \in told, y \in placed : x = y
        /\ told = {} <=> from = "filename" /\ pair.start = {} /\ pair.filename = {}
    BY <2>2
  <2>. QED
    BY <1>6, <2>3 DEF AlignsLikeIngest, told, placed
<1>. QED
  BY <1>5, <1>6

-----------------------------------------------------------------------------
(* The questions of the model-checked instance.                            *)

\* What the questions of each kind are about.
QuestionsTyped ==
  /\ question.kind = "filter" =>
       question.rec \in Record /\ question.hasRow \in BOOLEAN /\ IsFilters(AllFilters)
       /\ \A f \in Fields : question.rec[f] \subseteq 0..3
  /\ question.kind = "rules" =>
       question.rec \in Record /\ question.matched \in SUBSET DOMAIN Ontology
       /\ IsPhrases(question.overrides)
  /\ question.kind = "llm" => question.rec \in Record /\ IsCompletion(question.completion)
  /\ question.kind = "telemetry" =>
       /\ question.samples \in Seq(TelemetrySample) /\ Monotonic(question.samples)
       /\ OfType(question.samples, question.type)
       /\ question.start \in Int /\ question.end \in Int /\ question.start <= question.end
  /\ question.kind = "anchor" =>
       /\ question.from \in AnchorSources /\ question.pair \in SourcePair
       /\ question.time \in Int /\ question.offset \in Int
       /\ question.absolute \in BOOLEAN
       /\ question.absolute => question.from # "none"

LEMMA OptionsTyped == ASSUME NEW S \in SUBSET Int PROVE Options(S) \subseteq Maybe(Int)
BY DEF Options, Maybe

LEMMA RawIs ==
  ASSUME NEW form \in {"nothing", "scalar", "pair", "mapping"}, NEW lo \in Maybe(Int),
         NEW hi \in Maybe(Int), NEW wrap \in BOOLEAN, form # "mapping" => ~wrap
  PROVE  Raw(form, lo, hi, wrap) \in RawFilter
BY DEF Raw, RawFilter

LEMMA RawTyped == RawValues \subseteq RawFilter
<1>1. Options(Small) \subseteq Maybe(Int) /\ Options(0..4) \subseteq Maybe(Int) /\ {} \in Maybe(Int)
  BY OptionsTyped DEF Small, Maybe
<1>2. \A x \in Small : {x} \in Maybe(Int)
  BY DEF Small, Maybe
<1>3. Raw("nothing", {}, {}, FALSE) \in RawFilter
  BY <1>1, RawIs
<1>4. \A x \in Small : Raw("scalar", {x}, {x}, FALSE) \in RawFilter
  BY <1>2, RawIs
<1>5. [form : {"pair"}, min : Options(Small), max : Options(Small), wrap : {FALSE}] \subseteq RawFilter
  BY <1>1 DEF RawFilter
<1>6. [form : {"mapping"}, min : Options(0..4), max : Options(0..4), wrap : BOOLEAN] \subseteq RawFilter
  BY <1>1 DEF RawFilter
<1>. QED
  BY <1>3, <1>4, <1>5, <1>6 DEF RawValues

LEMMA FilterTyped == AskFilter => QuestionsTyped'
<1>. SUFFICES ASSUME NEW f \in Fields, NEW raw \in RawFor(f), NEW telemetry \in Filters, NEW rec \in RecordsOf(f),
                     NEW hasRow \in BOOLEAN,
                     question' = [kind |-> "filter", rec |-> rec, hasRow |-> hasRow,
                                  meta |-> Only(f, raw), telemetry |-> telemetry]
              PROVE  QuestionsTyped'
  BY DEF AskFilter
<1>1. raw \in RawFilter
  BY RawTyped DEF RawFor
<1>2. IsFilters(telemetry)
  <2>1. CASE telemetry = <<>>
    BY <2>1 DEF IsFilters
  <2>2. TelemetryValues \subseteq RawFilter
    <3>1. {} \in Maybe(Int) /\ {0} \in Maybe(Int) /\ {2} \in Maybe(Int)
      BY DEF Maybe
    <3>2. /\ Raw("nothing", {}, {}, FALSE) \in RawFilter /\ Raw("scalar", {2}, {2}, FALSE) \in RawFilter
          /\ Raw("pair", {0}, {2}, FALSE) \in RawFilter /\ Raw("pair", {}, {0}, FALSE) \in RawFilter
      BY <3>1, RawIs
    <3>. QED
      BY <3>2 DEF TelemetryValues
  <2>3. ASSUME NEW g \in Fields, telemetry \in [{g} -> TelemetryValues]
        PROVE  IsFilters(telemetry)
    BY <2>2, <2>3 DEF IsFilters
  <2>. QED
    BY <2>1, <2>3 DEF Filters
<1>3. IsFilters(Merged(Only(f, raw), telemetry))
  BY <1>1, <1>2 DEF IsFilters, Merged, Only
<1>4. rec \in Record /\ \A g \in Fields : rec[g] \subseteq 0..3
  <2>1. {} \in Maybe(Int) /\ {2} \in Maybe(Int) /\ Options(Small) \subseteq Maybe(Int)
        /\ \A v \in Options(Small) : v \subseteq 0..3
    BY OptionsTyped DEF Maybe, Small, Options
  <2>2. PICK v \in Options(Small), w \in {{}, {2}} : rec = [g \in Fields |-> IF g = f THEN v ELSE w]
    BY DEF RecordsOf
  <2>3. \A g \in Fields : rec[g] \in Maybe(Int) /\ rec[g] \subseteq 0..3
    <3>1. v \in Maybe(Int) /\ v \subseteq 0..3
      BY <2>1
    <3>2. w \in Maybe(Int) /\ w \subseteq 0..3
      <4>1. \A x \in w : x = 2
        OBVIOUS
      <4>2. w \in Maybe(Int)
        BY <2>1, Zenon
      <4>. QED
        BY <4>1, <4>2
    <3>. QED
      BY <2>2, <3>1, <3>2
  <2>4. rec \in Record
    BY <2>2, <2>3 DEF Record
  <2>. QED
    BY <2>3, <2>4
<1>. QED
  BY <1>3, <1>4 DEF QuestionsTyped, AllFilters

LEMMA RulesTyped == AskRules => QuestionsTyped'
<1>. SUFFICES ASSUME NEW matched \in SUBSET DOMAIN Ontology, NEW overrides \in Overrides,
                     NEW available \in Coverages, NEW rec \in CountRecords,
                     question' = [kind |-> "rules", matched |-> matched, overrides |-> overrides,
                                  available |-> available, rec |-> rec]
              PROVE  QuestionsTyped'
  BY DEF AskRules
<1>1. rec \in Record
  <2>1. {} \in Maybe(Int) /\ {1} \in Maybe(Int) /\ {2} \in Maybe(Int)
    BY DEF Maybe
  <2>2. PICK v \in [Counted -> {{}, {1}, {2}}], w \in {{}, {1}} :
          rec = [g \in Fields |-> IF g \in Counted THEN v[g] ELSE w]
    BY DEF CountRecords
  <2>. QED
    BY <2>1, <2>2 DEF Record
<1>2. IsPhrases(overrides)
  <2>1. \A a \in Phrases : a.minimum \in Int
    BY DEF Phrases
  <2>2. CASE overrides = <<>>
    BY <2>2 DEF IsPhrases
  <2>3. ASSUME NEW a \in Phrases, overrides = <<a>> PROVE IsPhrases(overrides)
    <3>1. DOMAIN overrides = 1..1 /\ overrides[1] = a
      BY <2>3
    <3>. QED
      BY <2>1, <3>1 DEF IsPhrases
  <2>4. ASSUME NEW a \in Phrases, NEW b \in Phrases, overrides = <<a, b>> PROVE IsPhrases(overrides)
    <3>1. DOMAIN overrides = 1..2 /\ overrides[1] = a /\ overrides[2] = b
      BY <2>4
    <3>. QED
      BY <2>1, <3>1 DEF IsPhrases
  <2>. QED
    BY <2>2, <2>3, <2>4 DEF Overrides
<1>. QED
  BY <1>1, <1>2 DEF QuestionsTyped

LEMMA LlmTyped == AskLlm => QuestionsTyped'
<1>. SUFFICES ASSUME NEW json \in BOOLEAN, NEW dubious \in {{}, {2}}, NEW c \in LlmConstraints, NEW d \in GoodConstraints,
                     NEW available \in Coverages,
                     NEW rec \in {[g \in Fields |-> v] : v \in Options(Small)},
                     question' = [kind |-> "llm", rec |-> rec, available |-> available,
                                  completion |-> [json |-> json, constraints |-> <<c, d>>, dubious |-> dubious]]
              PROVE  QuestionsTyped'
  BY DEF AskLlm
<1>1. rec \in Record
  BY OptionsTyped DEF Record, Small
<1>2. \A x \in Int : Number(x) \in ConstraintValue
  BY DEF Number, Value, ConstraintValue, Maybe
<1>3. LlmValues \subseteq ConstraintValue
  <2>1. /\ Value("text", {}, {}) \in ConstraintValue /\ Value("pair", {1}, {2}) \in ConstraintValue
        /\ Value("pair", {1}, {}) \in ConstraintValue
    BY DEF Value, ConstraintValue, Maybe
  <2>. QED
    BY <1>2, <2>1 DEF LlmValues
<1>4. c.value \in ConstraintValue /\ d.value \in ConstraintValue
  BY <1>2, <1>3 DEF LlmConstraints, GoodConstraints, Constraint
<1>5. IsCompletion([json |-> json, constraints |-> <<c, d>>, dubious |-> dubious])
  <2>. DEFINE cs == <<c, d>>
  <2>1. DOMAIN cs = 1..2 /\ \A i \in DOMAIN cs : cs[i].value \in ConstraintValue
    BY <1>4
  <2>. QED
    BY <2>1 DEF IsCompletion
<1>. QED
  BY <1>1, <1>5 DEF QuestionsTyped

LEMMA TelemetryTyped == AskTelemetry => QuestionsTyped'
<1>. SUFFICES ASSUME NEW type \in Types, NEW samples \in Series, NEW w \in {<<1, 4>>, <<1, 2>>, <<3, 4>>},
                     type = "boolean" => \A i \in DOMAIN samples : samples[i].value \subseteq {0, Unit},
                     question' = [kind |-> "telemetry", type |-> type, samples |-> samples,
                                  start |-> w[1], end |-> w[2]]
              PROVE  QuestionsTyped'
  BY DEF AskTelemetry
<1>1. w[1] \in Int /\ w[2] \in Int /\ w[1] <= w[2]
  OBVIOUS
<1>2. PICK n \in 0..3 : samples \in [1..n -> Samples] /\ Monotonic(samples)
  BY DEF Series, SeriesOf
<1>3. Unit \in Nat \ {0} /\ \A x \in Heights : x \in Int /\ x % Unit = 0
  <2>1. Unit \in Nat \ {0}
    BY TelemetryAssumption
  <2>2. ASSUME NEW q \in {0, 1, 3} PROVE (Unit * q) % Unit = 0 /\ Unit * q \in Int
    <3>1. Unit * q \in Int /\ q \in Int /\ 0 \in 0..Unit - 1 /\ Unit * q = Unit * q + 0
      BY <2>1
    <3>. QED
      BY <2>1, <3>1, Remainder, Zenon
  <2>3. 0 = Unit * 0 /\ Unit = Unit * 1 /\ 3 * Unit = Unit * 3
    BY <2>1
  <2>. QED
    BY <2>1, <2>2, <2>3, Zenon DEF Heights
<1>4. \A i \in 1..n : samples[i] \in Samples /\ samples[i] \in TelemetrySample
                   /\ \A x \in samples[i].value : x \in Heights
  <2>1. Options(Heights) \subseteq Maybe(Int)
    BY <1>3, OptionsTyped
  <2>2. \A s \in Samples : s \in TelemetrySample /\ \A x \in s.value : x \in Heights
    BY <2>1 DEF Samples, Moments, TelemetrySample, Options
  <2>. QED
    BY <1>2, <2>2
<1>5. samples \in Seq(TelemetrySample) /\ DOMAIN samples = 1..n
  BY <1>2, <1>4
<1>6. OfType(samples, type)
  BY <1>3, <1>4, <1>5 DEF OfType, Seen
<1>. QED
  BY <1>1, <1>2, <1>5, <1>6 DEF QuestionsTyped

LEMMA AnchorTyped == AskAnchor => QuestionsTyped'
<1>1. Pairs \subseteq SourcePair
  BY OptionsTyped DEF Pairs, SourcePair
<1>. QED
  BY <1>1 DEF AskAnchor, QuestionsTyped

\* Every question is about inputs of the kind the theorems are about.
LEMMA TypedAlways == Spec => []QuestionsTyped
<1>1. Init => QuestionsTyped
  BY DEF Init, Nothing, QuestionsTyped
<1>2. ASSUME QuestionsTyped, [Next]_question PROVE QuestionsTyped'
  <2>2. CASE UNCHANGED question
    BY <1>2, <2>2 DEF QuestionsTyped, AllFilters
  <2>. QED
    BY <1>2, <2>2, FilterTyped, RulesTyped, LlmTyped, TelemetryTyped, AnchorTyped DEF Next
<1>. QED
  BY <1>1, <1>2, PTL DEF Spec

\* What the runs check of the filters, the plans, the telemetry and the anchors follows.

\* Whatever a request filters by, ClickHouse and Qdrant return what PostgreSQL names.
THEOREM StoresAgree == Spec => []BackendsAgree
<1>1. QuestionsTyped => BackendsAgree
  BY TranslationsAgree DEF QuestionsTyped, BackendsAgree, IsFilter
<1>. QED
  BY <1>1, TypedAlways, PTL

\* The check of the hydrated rows denies no row that a backend's filter returned.
THEOREM CheckDeniesNothing == Spec => []AnswersPassCheck
<1>1. QuestionsTyped => AnswersPassCheck
  BY CheckAcceptsAnswers DEF QuestionsTyped, AnswersPassCheck, IsFilter
<1>. QED
  BY <1>1, TypedAlways, PTL

\* A heading range means the arc from its minimum clockwise to its maximum, on every
\* circle that holds the values asked about.
THEOREM HeadingRangesAreArcs ==
  ASSUME FullCircle > 3
  PROVE  Spec => []HeadingsOnArc
<1>1. QuestionsTyped => HeadingsOnArc
  <2>. SUFFICES ASSUME QuestionsTyped, IsFilter PROVE SelectsArc(question.rec, AllFilters)
    BY DEF HeadingsOnArc
  <2>1. question.rec \in Record /\ IsFilters(AllFilters)
        /\ \A f \in Fields : question.rec[f] \subseteq 0..3
    BY DEF QuestionsTyped, IsFilter
  <2>2. 0..3 \subseteq 0..FullCircle - 1
    BY FilterAssumption
  <2>3. OnCircle(question.rec)
    BY <2>1, <2>2 DEF OnCircle
  <2>. QED
    BY <2>1, <2>3, HeadingRangeIsArc
<1>. QED
  BY <1>1, TypedAlways, PTL

\* A segment passes the filter of an unversioned dataset if and only if it passes the
\* same filter after the migration, up to segments without a row of telemetry.
THEOREM MigrationKeepsAnswers == Spec => []MigrationKeepsFilters
<1>1. QuestionsTyped => MigrationKeepsFilters
  BY UnversionedReadsSame DEF QuestionsTyped, MigrationKeepsFilters, IsFilter, AllFilters
<1>. QED
  BY <1>1, TypedAlways, PTL

\* The dictionary built from a plan, by the rules or from a completion, is the
\* conjunction of the plan's constraints.
THEOREM PlansKeepEveryConstraint ==
  ASSUME IsFiniteSet(DOMAIN Ontology)
  PROVE  Spec => []PlanIsConjunction
<1>1. QuestionsTyped => PlanIsConjunction
  <2>. SUFFICES ASSUME QuestionsTyped, IsPlan PROVE IsConjunction(Plan.constraints, question.rec)
    BY DEF PlanIsConjunction
  <2>1. CASE question.kind = "rules"
    <3>1. question.rec \in Record /\ question.matched \in SUBSET DOMAIN Ontology
          /\ IsFiniteSet(question.matched) /\ IsPhrases(question.overrides)
      BY <2>1, FS_Subset DEF QuestionsTyped
    <3>2. Sound(RulesPlan(question.matched, question.overrides, question.available).constraints)
      BY <3>1, RulesPlanSound
    <3>. QED
      BY <2>1, <3>1, <3>2, PlansAreConjunctions DEF Plan
  <2>2. CASE question.kind = "llm"
    <3>1. question.rec \in Record /\ IsCompletion(question.completion)
      BY <2>2 DEF QuestionsTyped
    <3>2. Sound(LlmPlan(question.completion, question.available).constraints)
      BY <3>1, LlmPlanSound
    <3>. QED
      BY <2>2, <3>1, <3>2, PlansAreConjunctions DEF Plan
  <2>. QED
    BY <2>1, <2>2 DEF IsPlan
<1>. QED
  BY <1>1, TypedAlways, PTL

\* A rules plan selects what the query mentions, no more and no less.
THEOREM RulesPlansAreExact ==
  ASSUME IsFiniteSet(DOMAIN Ontology)
  PROVE  Spec => []RulesPlanMeansQuery
<1>1. QuestionsTyped => RulesPlanMeansQuery
  <2>. SUFFICES ASSUME QuestionsTyped, question.kind = "rules"
                PROVE  MeansQuery(Plan, question.matched, question.overrides, question.available, question.rec)
    BY DEF RulesPlanMeansQuery
  <2>1. question.rec \in Record /\ question.matched \in SUBSET DOMAIN Ontology
        /\ IsFiniteSet(question.matched) /\ IsPhrases(question.overrides)
    BY FS_Subset DEF QuestionsTyped
  <2>. QED
    BY <2>1, RulesPlansMeanQueries DEF Plan
<1>. QED
  BY <1>1, TypedAlways, PTL

\* Telemetry from before or after an outage never leaks into a window.
THEOREM TelemetryStaysLocal == Spec => []TelemetryIsLocal
<1>1. QuestionsTyped => TelemetryIsLocal
  BY TelemetryFromNearby DEF QuestionsTyped, TelemetryIsLocal, IsTelemetry
<1>. QED
  BY <1>1, TypedAlways, PTL

\* A window is given what was sampled or what lies between two neighbouring samples,
\* and the value stored for it is within those.
THEOREM TelemetryStaysSupported == Spec => []TelemetryIsSupported
<1>1. QuestionsTyped => TelemetryIsSupported
  BY TelemetryNotExtrapolated, TelemetryWithinSamples
  DEF QuestionsTyped, TelemetryIsSupported, IsTelemetry
<1>. QED
  BY <1>1, TypedAlways, PTL

\* Preflight puts no sample of a video elsewhere than ingest, and one of them fails
\* alone in two cases only, from whichever source the anchor comes.
THEOREM PreflightAgreesOnAnchors == Spec => []PreflightAlignsLikeIngest
<1>1. QuestionsTyped => PreflightAlignsLikeIngest
  BY PreflightForetellsIngest DEF QuestionsTyped, PreflightAlignsLikeIngest
<1>. QED
  BY <1>1, TypedAlways, PTL
=============================================================================
