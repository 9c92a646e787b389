SPECIFICATION Spec
CONSTANTS
  FieldType <- FewFields
  Enrichment = {"median_visible"}
  Unversioned = {"altitude_m"}
  FullCircle = 4
  Ontology <- Concepts
  Nowhere = "invented"
  MaxGap = 2
  Unit = 24
  Circle = 96
INVARIANTS
  BackendsAgree
  AnswersPassCheck
  HeadingsOnArc
  MigrationKeepsFilters
  PlanIsConjunction
  RulesPlanMeansQuery
  TelemetryIsLocal
  TelemetryIsSupported
  PreflightAlignsLikeIngest
CHECK_DEADLOCK FALSE
