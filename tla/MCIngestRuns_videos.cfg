\* Two videos: beginning chunk 0 of the second removes chunk 0 of the first.
SPECIFICATION IngestSpec
CONSTANTS
  MaxRuns = 1
  NumChunks = 2
  BatchesPerChunk = 1
  IndexOf <- TwoVideos
  Targets = {"pg"}
  ClickHouse = {}
  PgVector = {"pg"}
  MaxCopies = 2
  MaxClock = 0
  Ingestors = {j1}
  ExclusiveResume = TRUE
  GcOverlapsResume = FALSE
  FailOnVideoError = TRUE
  MaxCrashes = 0
  MaxErrors = 0
  MaxAmbiguous = 0
PROPERTY RetryRemovesOnlyItsChunk
CHECK_DEADLOCK FALSE
