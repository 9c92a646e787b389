----------------------- MODULE SearchRelaxationProofs -----------------------
(* Proofs about SearchRelaxation: the user's filters hold in every answer on  *)
(* a run-versioned dataset, constraints are dropped only after a search with  *)
(* them came back short, without auto_soft the ladder changes nothing, and    *)
(* with it the last pass reported is the answer.                              *)
EXTENDS SearchRelaxation, TLAPS

-----------------------------------------------------------------------------
(* Filters.                                                                *)

\* With an active run every merged field restricts the search.
LEMMA AllowedFacts ==
  ASSUME NEW m, NEW t, req.kind # "legacy", NEW s \in Allowed(m, t)
  PROVE  /\ s \in Segments
         /\ \A f \in DOMAIN t : s \in t[f]
         /\ \A f \in DOMAIN m \ DOMAIN t : s \in m[f]
BY DEF Allowed, Override

\* A search returns some of the segments its filters let through.
LEMMA BestSubset == ASSUME NEW S PROVE Best(S) \subseteq S
BY DEF Best

\* The primary search and the relaxed one apply both filters of the request.
LEMMA PrimaryHonours ==
  ASSUME req.kind # "legacy"
  PROVE  Allowed(MergedFilters, NoFilter) \subseteq Honouring
<1>. SUFFICES ASSUME NEW s \in Allowed(MergedFilters, NoFilter), NEW f \in DOMAIN Manual
              PROVE  s \in Segments /\ s \in Manual[f]
  BY AllowedFacts DEF Honouring
<1>1. f \in DOMAIN MergedFilters /\ MergedFilters[f] = Manual[f]
  BY DEF MergedFilters, Override
<1>2. f \notin DOMAIN NoFilter
  BY DEF NoFilter
<1>. QED
  BY <1>1, <1>2, AllowedFacts

LEMMA FinalHonours ==
  ASSUME req.kind # "legacy"
  PROVE  Final \subseteq Honouring
<1>. SUFFICES ASSUME NEW s \in Final, NEW f \in DOMAIN Manual
              PROVE  s \in Segments /\ s \in Manual[f]
  BY AllowedFacts DEF Honouring, Final
<1>. DEFINE m == Override(FilterDict(soft), req.metadata)
<1>1. s \in Allowed(m, req.telemetry)
  BY DEF Final
<1>2. CASE f \in DOMAIN req.telemetry
  BY <1>1, <1>2, AllowedFacts DEF Manual, Override
<1>3. CASE f \notin DOMAIN req.telemetry
  <2>1. f \in DOMAIN req.metadata /\ Manual[f] = req.metadata[f]
    BY <1>3 DEF Manual, Override
  <2>2. f \in DOMAIN m /\ m[f] = req.metadata[f]
    BY <2>1 DEF Override
  <2>. QED
    BY <1>1, <1>3, <2>1, <2>2, AllowedFacts
<1>. QED
  BY <1>2, <1>3

-----------------------------------------------------------------------------
(* The ladder.                                                             *)

\* Where the request is, and what the searches behind it returned.
LadderInv ==
  /\ passes \in Seq(SUBSET Segments)
  /\ pc \in {"plan", "primary"} => passes = <<>> /\ response = {}
  /\ pc \in {"ladder", "select", "done"} => passes # <<>>
  /\ pc = "ladder" => ~Enough(passes[Len(passes)])
  /\ pc \in {"ladder", "select"} => response = passes[1]
  /\ RelaxedOnlyWhenShort
  /\ AnswerUnchanged
  /\ AnswerHonoursManual

LEMMA LadderInit == Init => LadderInv
BY DEF Init, LadderInv, RelaxedOnlyWhenShort, AnswerUnchanged, AnswerHonoursManual

LEMMA LadderStep ==
  ASSUME LadderInv, [Next]_vars
  PROVE  LadderInv'
<1>. USE DEF LadderInv, RelaxedOnlyWhenShort, AnswerUnchanged, AnswerHonoursManual, Enough,
             Honouring, Manual
<1>1. CASE UNCHANGED vars
  BY <1>1 DEF vars
<1>2. CASE PlanQuery \/ PlanningBreaks \/ PrimaryRefused \/ LadderStops \/ AnswerRefused
  BY <1>2 DEF PlanQuery, PlanningBreaks, PrimaryRefused, LadderStops, AnswerRefused
<1>3. CASE Primary
  <2>. DEFINE B == Best(Allowed(MergedFilters, NoFilter))
  <2>1. /\ B \subseteq Allowed(MergedFilters, NoFilter)
        /\ Allowed(MergedFilters, NoFilter) \subseteq Segments
    BY BestSubset DEF Allowed
  <2>2. req.kind # "legacy" => B \subseteq Honouring
    BY <2>1, PrimaryHonours
  <2>3. /\ passes' = <<B>> /\ response' = B /\ req' = req
        /\ pc' = IF req.mode = "off" \/ Enough(B) THEN "done" ELSE "ladder"
    BY <1>3 DEF Primary
  <2>. HIDE DEF B
  <2>. QED
    BY <2>1, <2>2, <2>3
<1>4. ASSUME NEW n \in 2..5, RelaxPass(n)
      PROVE  LadderInv'
  <2>. DEFINE B == Best(Probe(Keep(n)))
  <2>1. B \subseteq Segments
    BY BestSubset DEF Allowed, Probe
  <2>2. /\ passes' = Append(passes, B) /\ UNCHANGED <<req, response>>
        /\ pc = "ladder"
        /\ pc' = IF Satisfied(B) \/ n = LastPass THEN "select" ELSE "ladder"
    BY <1>4 DEF RelaxPass, NextPass
  <2>. HIDE DEF B
  <2>3. pc' = "ladder" => ~Enough(B)
    BY <2>2 DEF Satisfied
  <2>. QED
    BY <2>1, <2>2, <2>3
<1>5. CASE \E n \in 2..5 : ProbeRefused(n)
  BY <1>5 DEF ProbeRefused
<1>6. CASE Answer
  <2>1. Best(Final) \subseteq Final
    BY BestSubset
  <2>2. req.kind # "legacy" => Best(Final) \subseteq Honouring
    BY <2>1, FinalHonours
  <2>. QED
    BY <1>6, <2>2 DEF Answer, Reruns
<1>. QED
  BY <1>1, <1>2, <1>3, <1>4, <1>5, <1>6 DEF Next

-----------------------------------------------------------------------------
(* The count that is reported.                                             *)

\* The last probe of the ladder ran with the constraints that are still active.
CountInv ==
  /\ pc \in {"ladder", "select"} /\ Len(passes) > 1 => passes[Len(passes)] = Best(Probe(soft))
  /\ CountMatchesAnswer

LEMMA CountStep ==
  ASSUME LadderInv, CountInv, [Next]_vars
  PROVE  CountInv'
<1>. DEFINE last == passes[Len(passes)]
<1>1. CASE UNCHANGED vars
  BY <1>1 DEF vars, CountInv, CountMatchesAnswer, Best, Probe, Allowed
<1>2. CASE PlanQuery \/ PlanningBreaks \/ PrimaryRefused \/ AnswerRefused
  BY <1>2 DEF PlanQuery, PlanningBreaks, PrimaryRefused, AnswerRefused, CountInv, CountMatchesAnswer
<1>3. CASE LadderStops
  BY <1>3 DEF LadderStops, CountInv, CountMatchesAnswer, Best, Probe, Allowed
<1>4. CASE Primary
  <2>. DEFINE B == Best(Allowed(MergedFilters, NoFilter))
  <2>1. passes' = <<B>> /\ response' = B
    BY <1>4 DEF Primary
  <2>. HIDE DEF B
  <2>. QED
    BY <2>1 DEF CountInv, CountMatchesAnswer
<1>5. ASSUME NEW n \in 2..5, RelaxPass(n)
      PROVE  CountInv'
  <2>. DEFINE B == Best(Probe(Keep(n)))
  <2>1. /\ passes' = Append(passes, B) /\ soft' = Keep(n) /\ req' = req
        /\ pc' \in {"ladder", "select"}
    BY <1>5 DEF RelaxPass
  <2>2. B = Best(Probe(soft))'
    BY <2>1 DEF Best, Probe, Allowed
  <2>3. passes \in Seq(SUBSET Segments)
    BY DEF LadderInv
  <2>. HIDE DEF B
  <2>4. last' = B
    BY <2>1, <2>3
  <2>. QED
    BY <2>1, <2>2, <2>4 DEF CountInv, CountMatchesAnswer
<1>6. CASE \E n \in 2..5 : ProbeRefused(n)
  BY <1>6 DEF ProbeRefused, CountInv, CountMatchesAnswer
<1>7. CASE Answer
  <2>1. /\ pc = "select" /\ pc' = "done" /\ UNCHANGED <<req, soft, passes>>
        /\ response' = IF Reruns THEN Best(Final) ELSE response
    BY <1>7 DEF Answer
  <2>2. passes \in Seq(SUBSET Segments) /\ passes # <<>> /\ response = passes[1]
    BY <2>1 DEF LadderInv
  <2>3. req.telemetry = NoFilter => Final = Probe(soft)
    BY DEF Final, Probe
  <2>4. Len(passes) > 1 \/ Len(passes) = 1
    <3>1. ASSUME NEW T, NEW p \in Seq(T), p # <<>>
          PROVE  Len(p) > 1 \/ Len(p) = 1
      <4>1. Len(p) \in Nat /\ Len(p) # 0
        BY <3>1
      <4>. QED
        BY <4>1
    <3>. QED
      BY <2>2, <3>1
  <2>5. req.mode = "auto_soft" /\ req.telemetry = NoFilter => response' = last
    BY <2>1, <2>2, <2>3, <2>4 DEF CountInv, Reruns
  <2>. QED
    BY <2>1, <2>5 DEF CountInv, CountMatchesAnswer
<1>. QED
  BY <1>1, <1>2, <1>3, <1>4, <1>5, <1>6, <1>7 DEF Next

-----------------------------------------------------------------------------
\* On a dataset with an active run, no answer holds a segment the user's own
\* filters exclude, whatever the parser inferred and the ladder dropped.
THEOREM ManualFiltersHold == Spec => []AnswerHonoursManual
BY LadderInit, LadderStep, PTL DEF Spec, LadderInv

\* The ladder drops constraints only after a search with them came back short.
THEOREM LadderJustified == Spec => []RelaxedOnlyWhenShort
BY LadderInit, LadderStep, PTL DEF Spec, LadderInv

\* Diagnosing the ladder does not change the answer.
THEOREM DiagnosisIsPassive == Spec => []AnswerUnchanged
BY LadderInit, LadderStep, PTL DEF Spec, LadderInv

\* Without telemetry filters the count of the selected pass is the count of the
\* answer: nothing is filtered, dropped or cut between the ladder and the response.
THEOREM ReportedCountIsAnswered == Spec => []CountMatchesAnswer
<1>1. Init => CountInv
  BY DEF Init, CountInv, CountMatchesAnswer
<1>2. CountInv => CountMatchesAnswer
  BY DEF CountInv
<1>. QED
  BY <1>1, <1>2, LadderInit, LadderStep, CountStep, PTL DEF Spec
=============================================================================
