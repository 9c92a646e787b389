\* Two ingest processes, one video: crashes, chunk errors, resumes, and a
\* ClickHouse insert sent twice.
SPECIFICATION IngestSpec
CONSTANTS
  MaxRuns = 2
  NumChunks = 2
  BatchesPerChunk = 1
  IndexOf <- OneVideo
  Targets = {"ch", "pg"}
  ClickHouse = {"ch"}
  PgVector = {"pg"}
  MaxCopies = 2
  MaxClock = 0
  Ingestors = {j1, j2}
  ExclusiveResume = TRUE
  GcOverlapsResume = FALSE
  FailOnVideoError = FALSE
  MaxCrashes = 1
  MaxErrors = 1
  MaxAmbiguous = 1
SYMMETRY Perms
INVARIANTS
  IngestTypeOK
  ServedComplete
  CommittedIntact
PROPERTY CompletedFrozen
CHECK_DEADLOCK FALSE
