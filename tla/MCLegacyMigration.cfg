\* An ingest process, the migration and the collector.
SPECIFICATION MigrationSpec
CONSTANTS
  MaxRuns = 2
  NumChunks = 1
  BatchesPerChunk = 1
  IndexOf <- OneVideo
  Targets = {"ch1", "ch2", "pg"}
  ClickHouse = {"ch1", "ch2"}
  PgVector = {"pg"}
  MaxCopies = 2
  MaxClock = 1
  Ingestors = {j1}
  ExclusiveResume = FALSE
  FailOnVideoError = TRUE
  MaxCrashes = 0
  MaxErrors = 1
  MaxAmbiguous = 0
  Retain = 0
  MinAge = 1
  GcTargets = {"ch1", "ch2", "pg"}
  GcOverlapsResume = TRUE
  Legacy = 1
  Spoiled <- FirstSegment
  MaxApplies = 3
INVARIANTS
  LegacyServedWhole
  CorrectedRetrySucceeds
CHECK_DEADLOCK FALSE
