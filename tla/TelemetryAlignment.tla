------------------------- MODULE TelemetryAlignment -------------------------
(***************************************************************************)
(* One telemetry field of one video: its rows are put on the video's time  *)
(* line (align_timestamp, with the anchor of an absolute clock), and every *)
(* window gets one value from the samples inside it and from its two       *)
(* boundaries (TelemetrySeries._interpolate and _aggregate_field).         *)
(*                                                                         *)
(* A missing value is {}, a present one a singleton.  Values are counted in*)
(* a unit so small that every interpolation and median of the instance is  *)
(* a whole number; Unit of them are the field's own 1.                     *)
(***************************************************************************)
EXTENDS Integers, Sequences, FiniteSetsExt

CONSTANTS
  MaxGap,     \* time_alignment.max_gap_s
  Unit,       \* the field's 1 in the unit of the values
  Circle      \* 360 degrees in the unit of the values

ASSUME TelemetryAssumption ==
  MaxGap \in Nat \ {0} /\ Unit \in Nat \ {0} /\ Circle \in Nat \ {0} /\ Circle % 2 = 0

-----------------------------------------------------------------------------
(* The anchor of a video is the unix time of its first frame.              *)

\* A pair of files: what the pairing csv, the container and the file name say.
Pair(start, creation, filename) == [start |-> start, creation |-> creation, filename |-> filename]

\* Mutant of IngestAnchor: the container is asked before the pairing csv.
IngestAnchorContainer(from, pair) ==
  IF from = "container_creation_time" THEN pair.creation
  ELSE IF pair.start # {} THEN pair.start
  ELSE IF from = "filename" THEN pair.filename ELSE {}

\* _video_start_unix_s; {} stands for the ValueError.
IngestAnchor(from, pair) ==
  IF pair.start # {} THEN pair.start
  ELSE CASE from = "container_creation_time" -> pair.creation
         [] from = "filename" -> pair.filename
         [] OTHER -> {}

\* run_data_preflight resolves it on its own, also for a clock that needs none.
PreflightAnchor(from, pair) ==
  IF pair.start # {} THEN pair.start
  ELSE IF from = "filename" THEN pair.filename
  ELSE pair.creation

\* align_timestamp; a relative clock needs no anchor.
Align(timestamp, absolute, offset, anchor) ==
  IF absolute THEN {timestamp - a - offset : a \in anchor} ELSE {timestamp - offset}

IngestAligns(from, pair, timestamp, absolute, offset) ==
  Align(timestamp, absolute, offset, IngestAnchor(from, pair))

\* _filename_start has failed when a file name was to be read and says no time.
PreflightAligns(from, pair, timestamp, absolute, offset) ==
  IF from = "filename" /\ PreflightAnchor(from, pair) = {} THEN {}
  ELSE Align(timestamp, absolute, offset, PreflightAnchor(from, pair))

-----------------------------------------------------------------------------
(* A series: samples [time, value] by their position in the file.          *)

Sample(t, v) == [time |-> t, value |-> v]

\* The constructor rejects the others.
Monotonic(samples) ==
  \A i \in 1..Len(samples) - 1 : samples[i].time <= samples[i + 1].time

\* The positions from bisect_left(times, at) on, and those before it.
From(samples, at) == {i \in DOMAIN samples : samples[i].time >= at}
Until(samples, at) == {i \in DOMAIN samples : samples[i].time < at}

\* Mutant of TurnTo: the difference as it is.
TurnToPlain(left, right) == right - left

\* circular_interpolate turns the shorter way.
TurnTo(left, right) == ((right - left + Circle \div 2) % Circle) - (Circle \div 2)

\* A value part of the way (num of den) from left to right.
Between(type, left, right, num, den) ==
  CASE type = "circular_deg" -> (left + (num * TurnTo(left, right)) \div den) % Circle
    [] type = "boolean" -> IF 2 * num < den THEN left ELSE right
    [] OTHER -> left + (num * (right - left)) \div den

\* Mutant of TooFar: one neighbour near enough will do.
TooFarBoth(leftGap, rightGap) == leftGap > MaxGap /\ rightGap > MaxGap

TooFar(leftGap, rightGap) == leftGap > MaxGap \/ rightGap > MaxGap

Interpolate(samples, type, at) ==
  LET from == From(samples, at)
      until == Until(samples, at)
      after == samples[Min(from)]
      before == samples[Max(until)]
      leftGap == at - before.time
      rightGap == after.time - at
  IN  IF from # {} /\ after.time = at THEN after.value
      ELSE IF type = "categorical"
      THEN IF until = {} \/ leftGap > MaxGap THEN {} ELSE before.value
      ELSE IF until = {} \/ from = {} \/ TooFar(leftGap, rightGap) THEN {}
      ELSE UNION {{Between(type, l, r, leftGap, leftGap + rightGap) : r \in after.value} :
                    l \in before.value}

-----------------------------------------------------------------------------
(* _aggregate_field.                                                       *)

Inside(samples, start, end) ==
  {i \in DOMAIN samples : start <= samples[i].time /\ samples[i].time <= end}

\* What the samples inside the window have, and after them its boundaries: a sample
\* exactly on a boundary counts twice.
Collected(samples, type, start, end) ==
  LET inside == Inside(samples, start, end)
      last == Max(inside \cup {0})
  IN  [p \in inside \cup {last + 1, last + 2} |->
        IF p \in inside THEN samples[p].value
        ELSE Interpolate(samples, type, IF p = last + 1 THEN start ELSE end)]

\* The places and the values of a list, and how often it has a value.
Listed(values) == {p \in DOMAIN values : values[p] # {}}
Distinct(values) == UNION {values[p] : p \in DOMAIN values}
Times(values, x) == Cardinality({p \in DOMAIN values : x \in values[p]})

UpTo(values, x) == Cardinality({p \in DOMAIN values : \E v \in values[p] : v <= x})

\* The k-th of the values in sorted order.
Sorted(values, k) == Min({x \in Distinct(values) : UpTo(values, x) >= k})

Median(values) ==
  LET n == Cardinality(Listed(values))
  IN  IF n % 2 = 1 THEN Sorted(values, (n + 1) \div 2)
      ELSE (Sorted(values, n \div 2) + Sorted(values, (n \div 2) + 1)) \div 2

\* round: to the nearest whole number of the field, a half to the even one.
Rounded(x) ==
  LET down == x \div Unit
      rest == x % Unit
  IN  IF 2 * rest < Unit \/ (2 * rest = Unit /\ down % 2 = 0) THEN down * Unit
      ELSE (down + 1) * Unit

MostFrequent(values) ==
  {x \in Distinct(values) : \A y \in Distinct(values) : Times(values, y) <= Times(values, x)}

\* multimode(values)[0]: the first of the most frequent ones.
Mode(values) ==
  values[Min({p \in DOMAIN values : values[p] \cap MostFrequent(values) # {}})]

\* Half of them is enough.
Majority(values) == IF 2 * Times(values, Unit) >= Cardinality(Listed(values)) THEN Unit ELSE 0

\* circular_mean, a direction in floating point, is not computed here: a circular
\* field is followed up to the values it averages.
Aggregate(samples, type, start, end) ==
  LET values == Collected(samples, type, start, end)
  IN  IF Listed(values) = {} THEN {}
      ELSE CASE type = "categorical" -> Mode(values)
             [] type = "boolean" -> {Majority(values)}
             [] type = "integer" -> {Rounded(Median(values))}
             [] OTHER -> {Median(values)}

-----------------------------------------------------------------------------
(* What a window's telemetry promises.                                     *)

\* The samples within MaxGap of the window, each at its position.
Near(samples, start, end) ==
  [i \in Inside(samples, start - MaxGap, end + MaxGap) |-> samples[i]]

\* Samples further than MaxGap from the window have no say in its value.
Local(samples, type, start, end) ==
  Collected(samples, type, start, end) = Collected(Near(samples, start, end), type, start, end)

\* The headings from x clockwise to y, if that is the shorter way (or as long).
ShortArc(x, y) == IF 2 * ((y - x) % Circle) > Circle THEN {}
             ELSE {(x + k) % Circle : k \in 0..((y - x) % Circle)}

\* v is one of two values or, where values are ordered or turn, between them.
Lies(v, type, x, y) ==
  CASE type = "circular_deg" -> v % Circle \in ShortArc(x, y) \cup ShortArc(y, x)
    [] type \in {"boolean", "categorical"} -> v \in {x, y}
    [] OTHER -> v \in (x..y) \cup (y..x)

Present(samples) == {i \in DOMAIN samples : samples[i].value # {}}

\* Nothing is extrapolated: each value is a sample's or lies between two
\* neighbouring samples around a boundary.
Supported(samples, type, start, end) ==
  \A v \in Distinct(Collected(samples, type, start, end)) :
    \E i, j \in Present(samples) :
      j \in i..i + 1 /\ \E x \in samples[i].value, y \in samples[j].value : Lies(v, type, x, y)

\* Whatever was sampled, the value stored is one the window's surroundings had or
\* lies between two of them.
WithinSamples(samples, type, start, end) ==
  type # "circular_deg" =>
  \A v \in Aggregate(samples, type, start, end) :
    LET seen == UNION {samples[i].value : i \in DOMAIN samples}
    IN  IF type \in {"boolean", "categorical"} THEN v \in seen
        ELSE \E lo, hi \in seen : lo <= v /\ v <= hi

\* What preflight tells of a sample comes true: where both find a time it is the same,
\* and only one of them finds a time in exactly two cases.  The pairing csv, named as
\* the source of the anchor, has none: preflight takes the container's, ingest fails.
\* The clock needs no anchor, but the file name, named as its source, cannot be read:
\* preflight fails.
AlignsLikeIngest(from, pair, timestamp, absolute, offset) ==
  LET told   == PreflightAligns(from, pair, timestamp, absolute, offset)
      placed == IngestAligns(from, pair, timestamp, absolute, offset)
  IN  /\ \A x \in told, y \in placed : x = y
      /\ told # {} /\ placed = {} <=>
           from = "manifest_csv" /\ absolute /\ pair.start = {} /\ pair.creation # {}
      /\ told = {} /\ placed # {} <=>
           from = "filename" /\ ~absolute /\ pair.start = {} /\ pair.filename = {}
=============================================================================
