\* Every request of the small catalogue.
SPECIFICATION Spec
CONSTANTS
  Segments <- Corpus
  Fields = {"video_id", "person_count", "altitude_m"}
  TopK = 2
  CandidateLimit = 2
  LegacyColumns = {"video_id"}
  LegacyTelemetry = {"altitude_m"}
  Available <- AvailableFields
  Parses <- ParseResults
  Requests <- AllRequests
INVARIANTS
  AnswerHonoursManual
  CountMatchesAnswer
  RelaxedOnlyWhenShort
  AnswerUnchanged
CHECK_DEADLOCK FALSE
