\* Two processes that resume runs under each other and under a collection.
SPECIFICATION Spec
CONSTANTS
  MaxRuns = 2
  NumChunks = 1
  BatchesPerChunk = 1
  IndexOf <- OneVideo
  Targets = {"ch"}
  ClickHouse = {"ch"}
  PgVector = {}
  MaxCopies = 2
  MaxClock = 1
  Ingestors = {j1, j2}
  ExclusiveResume = FALSE
  FailOnVideoError = TRUE
  MaxCrashes = 0
  MaxErrors = 0
  MaxAmbiguous = 0
  Retain = 0
  MinAge = 1
  GcTargets = {"ch"}
  GcOverlapsResume = TRUE
INVARIANTS
  CollectedStaysGone
  SparesUnsettledOnly
PROPERTY ServedRunKept
SYMMETRY Perms
CHECK_DEADLOCK FALSE
