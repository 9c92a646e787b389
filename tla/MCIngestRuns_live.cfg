\* Liveness: one process, one crash, two chunk errors, the operator retries.
SPECIFICATION IngestFairSpec
CONSTANTS
  MaxRuns = 2
  NumChunks = 2
  BatchesPerChunk = 2
  IndexOf <- OneVideo
  Targets = {"ch", "pg"}
  ClickHouse = {"ch"}
  PgVector = {"pg"}
  MaxCopies = 2
  MaxClock = 0
  Ingestors = {j1}
  ExclusiveResume = TRUE
  GcOverlapsResume = FALSE
  FailOnVideoError = FALSE
  MaxCrashes = 1
  MaxErrors = 2
  MaxAmbiguous = 0
INVARIANT CommittedOnce
PROPERTY EventuallyServed
CHECK_DEADLOCK FALSE
