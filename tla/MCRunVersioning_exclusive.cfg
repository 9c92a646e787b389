\* Three runs of two chunks, one ingest process, a collection and a search at any time.
SPECIFICATION Spec
CONSTANTS
  MaxRuns = 3
  NumChunks = 2
  BatchesPerChunk = 1
  IndexOf <- OneVideo
  Targets = {"ch", "pg"}
  ClickHouse = {"ch"}
  PgVector = {"pg"}
  MaxCopies = 2
  MaxClock = 3
  Ingestors = {j1}
  ExclusiveResume = TRUE
  FailOnVideoError = TRUE
  MaxCrashes = 0
  MaxErrors = 1
  MaxAmbiguous = 0
  Retain = 1
  MinAge = 1
  GcTargets = {"ch", "pg"}
  GcOverlapsResume = FALSE
INVARIANTS
  SearchSeesWholeRun
PROPERTIES
  ImplementsActiveRun
  RollbackTargetKept
CHECK_DEADLOCK FALSE
