# Verification of Multimodal Video Intelligence

TLA+ models of the search service's control logic (`src/service/app`) and of its offline
deployment (`src/scripts`), checked with TLC on small instances and, for the central
properties, proved with TLAPS for every instance. Paths below are relative to
`src/service/app` unless they start with `docs/` or `scripts/`.

## 1. The system

The service cuts videos into short windows, embeds each window, stores metadata in
PostgreSQL and vectors in any of pgvector, ClickHouse and Qdrant, and answers text
queries with filters. What is interesting is less the retrieval than its control plane.

| Component | State | Operations | Interacts with |
|---|---|---|---|
| Run control plane (`db/ingest_runs.py`, `db/postgres.py`) | `ingest_runs`, `ingest_chunks` (the ledger), `dataset_active_runs` (the pointer) | create, find_resumable, set status, activate | ingest, collector, search |
| Run-scoped stores (`db/postgres.py`, `clickhouse.py`, `qdrant.py`) | `run_segments` and its metadata, one vector table per backend:dimension ("target") | write batch, delete chunk, delete run, count | ingest, collector, search |
| Manifest ingest (`ingestion/ingest.py`) | local variables of a process | resolve or create a run, chunk loop, finalize | all of the above, the decoder |
| Video chunking (`ingestion/video.py`, `generic_loader.py`) | generator position | chunks, halo, windows, sampling, padding | ingest (skip set) |
| Run collection (`ingestion/gc_runs.py`) | candidate list | select, delete vectors, delete metadata | stores; resumes |
| Search (`search/engine.py`) | one request | snapshot, filter, search, hydrate | pointer, stores |
| Query planning and relaxation (`query_planning/`) | constraints, passes | parse, coverage gate, merge, ladder | search |
| Runtime query cache (`embedding/cache.py`, `router.py`) | `query_cache.json`, its lock file | lookup, locked read-modify-write | all API workers |
| Legacy migration (`db/migrations.py`) | the same tables | copy legacy rows into a run, count, activate it | control plane, stores, collector |
| Clip cache (`media.py`) | MP4 files and mtimes | lookup, encode, publish, prune | all API threads |
| Filter translation (`search/pushdown.py`, `db/*.py`) | none | normalise; translate to SQL, ClickHouse, Qdrant, Python | search |
| Parsers (`query_planning/rules.py`, `llm.py`, `planner.py`, `coverage.py`) | none | parse, coverage gate, filter dictionary | search |
| Telemetry and preflight (`ingestion/telemetry.py`, `preflight.py`) | none | anchor, align, interpolate, aggregate, estimate | ingest |
| Offline bundle (`scripts/export_offline_bundle.py`, `verify_offline_bundle.py`) | Docker image tags, a directory, `.env.offline` | build, test, save, describe; verify, load, start | two hosts |
| Embedders, rerankers, enrichment, loader, UI, benchmarks | mostly none | | |

`PROJECT.json` lists every component with its status and every hazard with its line.

What is hard:

- **No transaction spans two stores.** A batch is one metadata transaction and then one
  call per target. Any of them can fail, the process can die between any two, and a
  ClickHouse call is repeated after a connection error.
- **Guards and the deletions they guard are separate statements**, in different
  databases for ClickHouse and Qdrant. Nothing keeps two processes off one run.
- **The pointer moves under readers and the collector.** Both work from one reading of it.
- **Resume skips what the ledger calls committed**, so a wrong ledger entry is for ever.
- **The cache is one file** shared by workers that can be killed while holding its lock.
- **Filters travel in two dictionaries** that some stages merge and others read apart,
  and probes use other dictionaries than the answer.
- **Window ownership** is decided by rounding at chunk boundaries.
- **The clip directory has no lock**, and the prune of one request matches the temporary
  files of the others.
- **One filter is translated four times**, each on its own, over stores that were filled
  each on its own, with NULLs, wrapping headings and open ranges.
- **An image tag is a mutable name** between the steps of an export, and the manifest of a
  bundle states the size of the directory it is part of.

What makes each part correct:

- *Ingest and control plane*: what is served is one complete run, stored once;
  committed chunks stay intact; completed runs are frozen; attempts that are repeated
  end with a served dataset.
- *Collection*: never a live run, always a run left to roll back to.
- *Search*: one whole run per request, whatever is activated or collected meanwhile.
- *Relaxation*: the user's own filters hold in the answer; nothing is relaxed after
  enough was found; diagnosing changes nothing.
- *Cache*: one writer, no update lost, every request ends.
- *Windows*: the chunk length, and interruptions, are invisible in what is stored.
- *Migration*: what is served under the legacy run is whole; a corrected retry succeeds.
- *Clips*: only whole clips are published; a request does not remove its own answer.
- *Filters, plans, telemetry*: all readings of one input agree, and with its meaning.
- *Bundle*: what is started is one export, and a bundle that is intact is accepted.

## 2. Modules

```
RunStore            tables and statements           (no behaviour of its own)
  IngestRuns        ingest processes                IngestRunsProofs
  RunGC             the collector
    RunVersioning   IngestRuns + RunGC + a search   implements ActiveRun; RunVersioningProofs
      LegacyMigration   RunVersioning + apply_migration   RunVersioningProofs
ActiveRun           what run versioning promises a search
QueryCache          query-embedding cache           QueryCacheProofs
SearchRelaxation    planned search, ladder          SearchRelaxationProofs
VideoWindows        chunks, windows, resume         VideoWindowsProofs
MediaCache          clip requests and prunes        MediaCacheProofs
FilterTranslation   one filter, five readings       AlgorithmsProofs
  QueryPlanning     parsers and the filter built    AlgorithmsProofs
TelemetryAlignment  one field put on windows        AlgorithmsProofs
OfflineBundle       export, transfer, installation  OfflineBundleProofs
MC*                 the same for TLC, with .cfg files
```

**RunStore.** One dataset. `status` and `finishedAt` are `ingest_runs`, `active` is
`dataset_active_runs`, `ledger` is `ingest_chunks`, `meta` is `run_segments`, `rows` the
vector tables. Runs are numbered by `started_at`. A chunk is a (video, chunk index) pair
of the manifest; `IndexOf` gives the index, so a manifest with several videos maps
several chunks to one index. A batch stands for the segments of one database write. Rows
in appending (ClickHouse) tables carry a copy number; upserted rows have one copy.
`GuardedInactive` differs per backend as in the code: pgvector looks at the pointer,
ClickHouse and Qdrant at the snapshot, which also wants the status `completed`. The
states of the collector (`gc`) and of a search (`reader`) are declared here as well, so
that each program's actions can say what they leave alone.

**IngestRuns.** Each process is a record with a program counter and the locals of
`ingest_manifest` and `GenericIngestor.run`. Every call that commits is one action:

| Action | Code |
|---|---|
| CreateRun, ResumeRun | `ingest_manifest`, `find_resumable`, `create` |
| ReadCommitted, MarkIngesting, CountCommitted | the three statements before the loop |
| NextChunk, LeaveLoop | the `groupby` iterator |
| BeginChunk, PurgeGuard, PurgeTarget, MarkWriting | `begin_chunk` and `delete_inactive_chunk` per target |
| PurgeMetadataGuard, PurgeMetadata | the SELECT and the DELETEs of `delete_inactive_metadata_chunk` |
| WriteMetadata, WriteVectors, WriteVectorsTwice | `_flush_pending`; the last under `_with_reconnect` |
| CommitChunk | `commit_chunk` |
| GuardRejects, ChunkError | the `except` of the loop, with `fail_on_video_error` and a dead generator |
| FailRun, StartValidation, CheckControlPlane, CheckTarget, RejectRun, Activate, ActivationRefused | after the loop: `finalize_run`, `activate` |
| RunVanished, Crash | foreign keys after a collection; death or an escaping exception |

**RunGC.** `select_gc_candidates` on one listing, then guard and deletion per target, then
the metadata transaction. `gc.unsettled` remembers
which candidates were failed or worked on when listed; no guard reads it.
`GcEnd` is the normal end and also a death at any step.

**RunVersioning** interleaves ingest, collection, a search and the clock, and maps to
**ActiveRun** (`served` is the snapshot, `view` is what that run holds): the only visible
change is from nothing, or one whole run, to another whole run.

**QueryCache.** A worker goes through lookup, compute, acquire, read, dump, replace and
release. A kill leaves the lock file; so does a failed write of the pid after
`O_CREAT|O_EXCL`. Releasing unlinks the path whoever created it.

**SearchRelaxation.** A predicate is the set of segments that satisfy it, a filter a
function from fields to predicates, and segments are ranked by similarity. One action per
search: `Primary`, `RelaxPass(n)` for ladder passes 2 to 5, `Answer` with the re-run of
`auto_soft`. A search with too many candidates raises (`PrimaryRefused`, `ProbeRefused`,
`AnswerRefused`). A time-out of the ladder is `LadderStops` at any pass.

**VideoWindows.** Pure operators for `iter_video_chunks`, `_window_specs` and
`iter_chunk_windows`, and a small state machine that ingests chunk by chunk, is
interrupted in the middle of one, and resumes with the ledger as its skip set.
`Content(Cut(video.duration, 0))`, one decoding of the whole video, is the reference.
`EstimateIsStored` compares what is stored with the number preflight computes.

**LegacyMigration.** `apply_migration`, one action per statement that commits: `Apply`
(create and `validating`, whatever the run was), `CopyPostgres` (one transaction), for one
ClickHouse target after the other `GuardCopy`, `ClearCopy`, `InsertCopy`, then `RejectCopy` or
`ActivateCopy`. `todo` holds the dimensions the loop of `_copy_clickhouse_legacy` has not
come to, `hand` the one it is at. It runs beside the whole of RunVersioning; the operator applies the plan
several times, repairs the old vector tables in between, and each application can die
at any step (`MigrationEnds`).

**MediaCache.** `dir` maps names to size, mtime and whether the file is whole. A thread
goes through `Request`, `Look`, then `Touch` on a hit, or `EncodeStarts`, `EncodeEnds`,
`CheckMedia`, `Rename`, `Clean`, `List`, per listed file `Stat` and, when it is too old,
`UnlinkExpired` in a step of its own, `AllStatted`, `Evict` per entry, `Pruned`, and `Send`, which opens the file again. `EncodeFails` and `Kill` come at
any step; `alone` remembers whether another thread worked meanwhile. The total of a list is
the number of its `Units`, each entry having as many as its file has bytes: the sum the code
computes, without a recursion.

**FilterTranslation.** A value that may be missing is a set with at most one element, so
that SQL's NULL is a quantifier over nothing. `normalize_filters` is one operator; each
reading (PostgreSQL, ClickHouse, Qdrant, the check of hydrated rows, the compatibility
path of unversioned datasets) is another, over what ingest stored in that backend: 64-bit
values in Qdrant, a value of 32 bits (`Narrow`) in the columns, the decimal printed for it in
a hydrated row (`Shortest`). The compatibility path joins the telemetry table as soon as it gets
any telemetry dictionary (`Joins`), also one whose filters are all empty.

**QueryPlanning** on top of it: the rules parser over the concepts a text mentions, the
language-model completion over everything it may contain (a bad confidence included), the
coverage gate, the fallback and the filter dictionary. A list of constraints is a function from positions, or
from the concepts they were made for. `MeansQuery` and `IsConjunction` are the references.

**TelemetryAlignment.** Anchors and alignment of preflight and of ingest, with all ways in
which either can fail (`PreflightAligns`, `IngestAligns`), interpolation
with `max_gap_s` on lines and on the circle, and the aggregation of a window by the default of
its type. A list of values is a function from the positions of the samples they come from, each
value missing or a singleton; a boundary comes after them (`Collected`). What sorting does is
said by rank: `Sorted(values, k)` is the least value that k of them do not exceed. Headings are
compared modulo the circle.

**OfflineBundle.** An exporter goes through `Begin`, `Build`, `Smoke`, `Inspect`, `Save`,
`Measure` (once per round of the size loop) and `Rename`; exporters share the tags of one
image store. `Deliver`, `Damage` and `Configure` are the way to the target; the verifier is
`Start`, `VerifyChecksums`, `VerifyStatic`, `Load`, `VerifyLocalImages`,
`VerifyEmbeddedModel`, `VerifyEnv`, `Up`, with `Abort` at any step. A digest is the content
it was taken of.

## 3. Runs

| Run | Properties | Shows |
|---|---|---|
| ingest_writers | IngestTypeOK, ServedComplete, CommittedIntact, CompletedFrozen | two processes, crash, failing chunk, repeated insert: what is served is complete |
| ingest_live | CommittedOnce, EventuallyServed | after one crash and two failing chunks the operator's resumes succeed |
| versions | SearchSeesWholeRun, ImplementsActiveRun, RollbackTargetKept | ingest, collector and search together |
| versions_overlap | CollectedStaysGone, SparesUnsettledOnly, ServedRunKept | two processes resume runs under each other and under a collection, which nothing prevents |
| migration | LegacyServedWhole, CorrectedRetrySucceeds | the plan applied three times, beside an ingest and between collections |
| query_cache | WriterHoldsLock, EntriesNeverLost, StaleLockFreezesCache, RequestsEnd | three workers, two faults |
| media | OnlyWholeClipsPublished, UndisturbedAnswered, SizeBoundedAtRest | two threads, a kill and a failing encoder |
| relaxation | AnswerHonoursManual, CountMatchesAnswer, RelaxedOnlyWhenShort, AnswerUnchanged | every request of a catalogue |
| windows | ChunkingInvisible, OneOwner, EstimateIsStored | every small video and setting |
| algorithms | BackendsAgree, AnswersPassCheck, HeadingsOnArc, MigrationKeepsFilters, PlanIsConjunction, RulesPlanMeansQuery, TelemetryIsLocal, TelemetryIsSupported, PreflightAlignsLikeIngest | the algorithms without state, asked every small question |
| bundle | StartedIsExported, IntactAccepted, SizeSettles | two exports and a transfer that damages or mixes files |

One run ends in a violation (`findings` in `PROJECT.json` quotes the document): *ingest_videos*,
RetryRemovesOnlyItsChunk. The cleanup before chunk N of a video deletes the vectors of chunk N
of every earlier video of the manifest.

### Observations

Other places where modelling showed the code and a document, or two parts of the code,
to disagree. No run claims them; the models contain the behaviour.

- The collector can delete vectors of the run that is served. It lists a failed run; the run is
  resumed, completed and activated; the deletion follows, as the guard of `delete_run` is a
  statement apart from its DELETE (`gc_runs.py:84`, `clickhouse.py:332-337`; `gc_runs.py:101` says
  "Safely garbage-collect inactive run-versioned data"). SparesUnsettledOnly and ServedRunKept
  say how far this goes: runs the listing found failed or worked on, and only their vectors.
- Of two resumes of one run the slower can delete what is served. The faster activates the run;
  the slower sets its status back to `ingesting` (`set_run_status`, `ingest_runs.py:161-171`, knows
  no order of statuses), whereupon the guards of ClickHouse and Qdrant find no completed
  active run and pass. The PostgreSQL guard does not help against a process
  that has passed it before the activation (`postgres.py:742-755`). `RUN_VERSIONING.md:17-18` says
  "Destructive cleanup of an active run is rejected." ServedRunKept is about the active run
  that nobody works on.
- A planned query on a dataset without an active run loses an explicit telemetry filter
  (`search/engine.py:231`; `docs/architecture/QUERY_PLANNING.md:62-64` says it is kept).
  AnswerHonoursManual is stated for datasets with a run.
- A repeated ClickHouse INSERT stores committed rows twice (`db/clickhouse.py:65`;
  `docs/architecture/RUN_VERSIONING.md:59-61`); the counts then reject the run. CommittedOnce is
  checked without such repetitions, ServedComplete with them.
- A process that dies while validating leaves a run no resume finds
  (`db/ingest_runs.py:203`; `docs/architecture/DECISIONS.md:188`). The next resume makes a new run, which
  is why EventuallyServed holds with two.
- With two resumes of one run and a collection, vectors of a run that was collected can be
  written back by the process that still works on it, and stay: no guard asks for the run row
  in ClickHouse or Qdrant. CollectedStaysGone is about ledger, metadata and pointer.
- `.env.offline` inside the bundle directory, where the guide and
  `install-and-start-offline.sh:5,24-28` put it, is a file the inventory of
  `scripts/verify_offline_bundle.py:72-82` does not expect; `ARTIFACTS_ROOT=./artifacts` of the
  Compose file likewise for a second verification.
- With `manifest_csv` and no start, preflight falls back to the container creation time while
  the ingest raises (`docs/datasets/DATASET_ONBOARDING_GUIDE.md:97` wants a failure from both).
  With a relative clock, which needs no anchor, preflight still reads the file name when the
  manifest says so, and fails where ingest does not. PreflightAlignsLikeIngest states both cases.
- Before its migration a dataset asked with `{"altitude_m": null}` leaves out the segments
  without a telemetry row (the inner join of `postgres.py:366-367`), afterwards it does not.
  MigrationKeepsFilters states this as the only difference.
- `is_night` is an integer in Qdrant's payload and a JSON boolean in its filter, which
  never match; `BackendsAgree` leaves the field out for Qdrant. The rules parser's operator
  for it, `gte`, becomes a dictionary no driver can send (`rules.py:73`, `Malformed`).
- A telemetry filter that is set to nothing on a field that a metadata filter names removes
  that filter from the merged dictionary (`pushdown.py:26`); the compatibility path, which reads
  the two apart, keeps it. MigrationKeepsFilters is about dictionaries without a common key.
- On a run of a manifest, `coverage.py:32` reads `.name` of a dictionary: every planned query
  raises (`PlanningBreaks` in SearchRelaxation).
- Enrichment columns are not hydrated, so any filter on them fails the correctness check.
- A boundless range selects NULL in SQL and ClickHouse and not in Qdrant; two one-sided bounds
  that contradict each other become a wrap on a heading. A sample exactly on the boundary of
  a window is counted twice.

### Bounds and why they suffice

- *ingest_writers*: 2 runs, 2 processes, 2 chunks of one video, one appending and one
  upserting target, 1 crash, 1 exception, 1 repeated insert. Two runs are needed for
  one to replace the other, two chunks for a commit followed by a failure, one target of
  each kind for counts that differ between them. Processes are interchangeable (symmetry;
  only safety is checked in that run).
- *ingest_live*: 1 process, 2 runs, 2 batches per chunk, so that a chunk can fail half
  written, and three faults in any place. The second run is needed after an orphan.
- *versions*: 3 runs, because a rollback target is a second completed run and its
  removal needs a third; 2 chunks, so that a run can fail with one of them committed and lose
  its vectors to a collection that dies before the ledger goes too; 3 clock ticks with a
  minimum age of 1.
- *versions_overlap*: 2 runs, 2 processes and `Retain = 0`, so that a collection can list a
  completed run beside one that is in progress or has failed; one chunk and one appending
  target. No exception is needed for a failed run: two processes insert twice, and the
  counts reject what they find.
- *migration*: 2 runs, the legacy one and one of an ingest that can replace it; two
  ClickHouse dimensions, so that the loop over them can stop between two; three
  applications, so that a retry follows a retry; one segment the vector tables lack. The
  ingest beside it can fail and be resumed; its crashes are left to the other runs.
- *media*: 2 threads, 2 clips of sizes 1 and 2 and a limit of 2, so that one clip evicts the
  other; 2 ticks with a retention of 1, so that files expire.
- *algorithms*: thresholds and values 0 to 4 on a circle of 4, one field of each type, the
  concepts of the ontology, telemetry of up to 3 samples in 6 time steps with a gap of 2.
  Every order of bound, value and wrap occurs, and every gap on both sides of the limit.
- *bundle*: 2 exporters, 2 commits, 2 directories, so that exports share a tag, a directory,
  both or neither; 2 damages; rests just below a power of ten, where the size loop takes
  the most rounds.
- *query_cache*: 3 workers make an owner, a waiter and one who times out; 2 keys make
  a lost update visible; 2 faults make a stale lock and a second failure behind it.
- *relaxation*: 3 segments with `top_k` 2 and a candidate limit of 2, so that searches are
  short, full or refused; a keyword, a count and a telemetry field, so that explicit
  and planned filters meet on the same field, and on fields the legacy path does not read.
- *windows*: videos of 1, 5 and 7 time units with every set of frames; chunks shorter and
  longer than stride, window and video; both partial-window policies.

Constants that only bound the instance: `MaxRuns`, `MaxCopies`, `MaxClock`,
`MaxCrashes`, `MaxErrors`, `MaxAmbiguous`, `MaxFaults`, `MaxApplies`, `MaxKills`.

Deadlock is not checked in the runs (except `query_cache`) because the systems really
stop: an ingest with no run left to create, an answered request, a video at its end.

### Fairness

- `IngestFairSpec` (EventuallyServed): a live process keeps running (weak fairness of its
  own sequential steps, faults excluded), and the operator issues `ingest --resume` while
  the dataset has no active run. Faults are never forced and never excluded but by their
  bounds. The code schedules no retries; the operator is the documented retry mechanism.
- `FairSpec` of QueryCache (RequestsEnd): a running worker keeps running. No fairness is
  assumed for obtaining the lock: the deadline ends the wait.

### Assumptions

- `ExclusiveResume`: a run is resumed only when no live process works on it. Nothing in
  the code checks this; Observations says what happens otherwise.
- `GcOverlapsResume = FALSE` in *versions*: no resume starts during a collection, and
  none between finding its run and marking it when one starts. Not checked by the
  code either; *versions_overlap* and *migration* run without it and without `ExclusiveResume`.
- A request sees at most one activation (the guard on `reader` in Activate), and does not
  outlive a tick of the clock, the unit of `min_age_hours`. Two activations and a collection within one request would
  take its run away; with retention of one and a minimum age in hours this does not occur.
- No two runs have completed at the same `now()` when a collection starts.
- All targets of a run stay enabled for its life; GcTargets may be fewer.
- `DECODE_CHUNK_S` stays the same for the life of a run. It is not in the manifest hash,
  so nothing enforces that.
- Videos in VideoWindows are `Dense`: frames no further apart than two samples of a window,
  and with `pad_last` a frame in every chunk. Otherwise chunking does show: a
  window without samples repeats the last frame *its chunk* decoded and is dropped when
  there is none, which TLC finds with a frame-less tail chunk.
- *migration*: the plan is not applied while the collector runs, and Qdrant is off, with which
  `apply_migration` refuses.
- `RoundingHarmless` filters: no bound lies between a segment's value, the 32-bit value its
  columns hold and the decimal that comes back of it. Values may be rounded; with a bound in
  that gap the backends do differ, as the columns compare the rounded value and Qdrant the
  one that was sent. The comparison of the two PostgreSQL paths needs no such condition.
- *bundle*: nobody changes the checkout during an export or the directory during an
  installation, and a target has one installation at a time; a damaged file equals no
  exported content, as for SHA-256; an image's Id is the digest of its config, which holds
  for Docker's classic image store.
- Times are integers. The code's floats and their `1e-9` tolerances are not modelled.
- Relaxation is modelled with a parser switched on (with `parser_mode=none` there is no
  plan and no ladder), with the exact search strategy, and legacy telemetry filters in
  the `[low, high]` form that path unpacks.

## 4. Proofs

`tlapm` checks every proof to its leaves, for all values of the constants. Of the properties
the passing runs check all are theorems but the two liveness properties.

| Theorem | States | Hypotheses |
|---|---|---|
| IngestTypeCorrect | `IngestSpec => []IngestTypeOK` | |
| CompletedRunsFrozen | `IngestSpec => CompletedFrozen` | X |
| CommittedChunksIntact | `IngestSpec => []CommittedIntact` | X, one video |
| CommittedChunksOnce | `IngestSpec => []CommittedOnce` | X, A |
| ServedRunsComplete | `IngestSpec => []ServedComplete` | X, and one video or A |
| CollectedRunsStayGone | `Spec => []CollectedStaysGone` | |
| CollectorSparesSettled | `Spec => []SparesUnsettledOnly` | |
| ServedRunSurvives | `Spec => ServedRunKept` | |
| SearchesSeeWholeRuns | `Spec => []SearchSeesWholeRun` | X, G, A, R |
| RollbackTargetSurvives | `Spec => RollbackTargetKept` | X, G, A, R |
| VersioningImplementsActiveRun | `Spec => ImplementsActiveRun` | X, G, A, R |
| LegacyRunServedWhole, RepairedRetryConcludes | `MigrationSpec` implies LegacyServedWhole, CorrectedRetrySucceeds | |
| LockIsMutex, NoUpdateLost, StaleLockIsForever | `Spec` implies WriterHoldsLock, EntriesNeverLost, StaleLockFreezesCache | |
| ManualFiltersHold, LadderJustified, DiagnosisIsPassive, ReportedCountIsAnswered | `Spec` implies AnswerHonoursManual, RelaxedOnlyWhenShort, AnswerUnchanged, CountMatchesAnswer | |
| ChunksJoinSeamlessly, EstimateExact, WindowsHaveOneOwner | `Spec` implies ChunkingInvisible, EstimateIsStored, OneOwner | |
| ClipsAreWhole, UndisturbedRequestsAnswered, CacheBoundedAtRest | `Spec` implies OnlyWholeClipsPublished, UndisturbedAnswered, SizeBoundedAtRest | |
| SizeAlwaysSettles, OnlyExportsStarted, IntactBundlesPass | `Spec` implies SizeSettles, StartedIsExported, IntactAccepted | |
| TranslationsAgree, CheckAcceptsAnswers, UnversionedReadsSame | Agree, PassesCheck, SameUnversioned for any segment and filters | |
| PreflightForetellsIngest | AlignsLikeIngest for any source, pair, time, clock and offset | a source if the clock is absolute, as the manifest demands |
| HeadingRangeIsArc | SelectsArc for any circle | headings on the circle |
| PlansAreConjunctions, RulesPlansMeanQueries | IsConjunction, MeansQuery for plans of any length | finitely many constraints, mentioned concepts |
| TelemetryFromNearby, TelemetryNotExtrapolated | Local, Supported for any series, type, gap and window | times in order, as the constructor demands |
| TelemetryWithinSamples | WithinSamples likewise | values of the field's type (`OfType`) |
| StoresAgree, CheckDeniesNothing, HeadingRangesAreArcs, MigrationKeepsAnswers, PlansKeepEveryConstraint, RulesPlansAreExact, TelemetryStaysLocal, TelemetryStaysSupported, PreflightAgreesOnAnchors | `Spec` of MCAlgorithms implies the properties of *algorithms* | `FullCircle > 3`; a finite ontology |

The hypotheses are conditions on the environment that the runs of the same properties
assume too, and each is needed:

- X, `ExclusiveResume`: with two processes on one run the slower cleans chunks of it after the
  faster has activated it (Observations).
- G, `~GcOverlapsResume`: the collector lists a failed run, a resume revives it, and the
  deletion follows (Observations). CollectorSparesSettled and ServedRunSurvives are what
  holds without X and G.
- A, `MaxAmbiguous = 0`: no INSERT is repeated after a lost answer. Where A is a hypothesis
  of versioning: a collection that dies behind the vectors of a failed run leaves
  a ledger without rows (see the hazard at `gc_runs.py:84`); a resume skips what the ledger
  has, and a repeated insert of another chunk could bring the counts up to what is expected.
- One video (`IndexOf` injective): with several, the cleanup before a chunk deletes committed
  chunks of other videos (run *ingest_videos*). With A as well the counts find that out
  before the run is served, hence the "or" of ServedRunsComplete; without both they need not
  (two videos and one repeated insert, found by TLC).
- R, `Retain >= 1`: `gc_runs` takes 0 as well, and then removes the last rollback target.

They rest on the named assumptions of the modules. Most only type the constants.
`FilterAssumption` and `PlanningAssumption` say that the ontology and the groups of columns name
fields, `MigrationAssumption` that Qdrant is off, `TelemetryAssumption` that the circle is even,
as 360 degrees are. `BundleAssumption` also states the two facts the size loop
needs, which the powers 10, 100, ... below 2^64 satisfy: there are at most 20 of them, and
they are at least 40 apart. And it says that a damaged file equals no exported content.

*Ingest.* The type invariant is not inductive: a batch number stays within the chunk,
and a write names a chunk of the manifest, only because of where the process is.
`IngestInv` replaces `Job` by `SoundJob`, which ties run, chunk and batch to the program
counter. Steps are split into what they do to the acting process (`StepReplacesJob`),
to the others (`StepKeepsOthers`) and to the tables (`StepKeepsStoreType`).

For `CompletedFrozen` one must know that a process never works on a completed run.
`OwnershipInv` says that the status of a run follows the step of its only process, that
no two live processes share a run, and that the pointer names a completed run. The lemma
`StepConfined` says a process touches its own run and no other. If two processes could
share a run the first conjunct would fail, which is why `ExclusiveResume` is needed; the
observation about two overlapping resumes is the same fact from the other side.

`LedgerInv` ties the ledger to the process: what it expects of a committed chunk, which
chunks an attempt skips and how far the checks after the loop have come. On top of these
two (`CoreInv`) stand two invariants about rows. `OnceInv`: every table has at most first
copies, because what a process is about to write was removed from every table it has
passed since `begin_chunk`, and nobody else writes to the run. `IntactInv`: committed
chunks are whole, and so is the current one up to the batch and the table the process is at;
the cleanup of one chunk leaves the others alone because `IndexOf` is injective.
ServedComplete follows from either: with `IntactInv` the committed chunks are whole, and the
check of the control plane has seen that all are committed; with `OnceInv` a table whose
count is right has every row, as a set of first copies of full size is the full set.

*Versioning.* What holds without any discipline of the operator comes first.
CollectedStaysGone is inductive as it stands (`GoneInv`): each statement that would bring the
run back either violates a foreign key or updates no row, and the lemmas go through every
one of a process that does not know its run is gone. `SettledInv`: what the collector has
listed and found settled is still completed, out of use and left alone, since a process comes
to a run only while it is not completed (`BystanderKept`: a step changes the run its process
works on and no other). `gc.unsettled`, a record of the listing that no guard reads, says
which runs that leaves out. ServedRunKept follows from both: other processes keep
off, the collector's metadata transaction is stopped by the foreign key, and its vector
deletions by `SettledInv`.

`SharedInv` adds what the collector knows: the runs on its list are
completed or failed, not active, and nobody works on them (`CollectionInv`); this needs X
and G. `HistoryInv`: the active run is the last to have completed, and whole. `RetentionInv`
is the heart: a completed run that is damaged, or on the list, has a later one among
the previous runs that is safe. `NewestRetained` proves that a selection keeps the newest
previous run, out of the cut `retain` makes in the order of `finished_at` (`NewestPrevious`,
`DistinctStamps`); from it the two theorems about readers and rollback follow, since a
search reads the active run or the newest previous one (`ReaderInv`). For the refinement,
`Snapshot` can only change at Activate, and to a run that `ServedWhole` says is whole.

*Migration.* No discipline is assumed but the one in `MigrationNext` (not during a
collection). `LegacyInv`: no process works on the legacy run, as `find_resumable` looks for
a manifest hash it does not have, so its rows are only those the plan has copied, once.
`CopyInv`: past the PostgreSQL transaction, the tables the loop is through with are whole
unless a count was wrong. The model was corrected on the way: guard, deletion and
insertion could be of different dimensions, which the loop over the dimensions excludes,
and `CopyInv` was then not inductive.

*Cache.* `Inv` adds `PayloadIsCurrent`: between read and replace, the payload the owner
holds is what the file holds. With mutual exclusion it makes the replacement an extension.

*Relaxation.* `LadderInv` ties the passes to the program counter: in the ladder the last
pass came back short, and until the answer the response is the primary's. The two
searches that can become an answer, the primary with merged filters and the final one,
each apply `Manual` last (`PrimaryHonours`, `FinalHonours`). The probes do not, and the
proof does not need them to. `CountInv` says that the last pass was run with the constraints
that are still active; without telemetry filters the final search is that probe.

*Windows.* A chunk of length n owns the starts in `[c * n, (c + 1) * n)`, because of the
ceiling in `FirstIndex` (`Ceiling`) and the loop bound, so that every start of the video has
exactly one owner (`StartsOwned`, `StartsCovered`, `OwnersDiffer`). The halo of a chunk ends
with the video or a window behind every start it owns (`Halo`); in a dense video a sample that
has a frame at all has one within a gap, hence in the halo, and it is the same one that
decoding everything finds (`SampleFrames`). A sample without a frame is padded with the frame
of the last sampled one, or with the last frame decoded: then the halo reaches the end of the
video, and that frame is the video's (`PaddingAlike`). `StoreInv` is the part about
interruptions: only windows of their chunk are stored, and all of those of a chunk that is
committed or behind the generator. `AllStored` concludes that at the end there is exactly one
window per start, and `StartsCounted` that the starts are the first `Estimate` multiples of
the stride.

*Clips.* A temporary file has one writer, but any prune may unlink it. So `TemporaryInv` is
conditional: between the end of ffmpeg and the rename the file is the whole clip of its
request, if it is there. Every step but Rename adds nothing to the directory except under the
thread's own temporary name (`Unpublished`); Rename is the one that publishes. `AnsweredInv`
is the unconditional half, for a thread that is alone: the file it needs next is there at
every step (`Fine`), its own prune never dooms its clip (`State`), and so it never raises.

The size of the directory is the subject of `SizeInv`. While nobody was killed, either the
published clips fit the limit or are one (`Small`), or some thread still cares
(`CoverInv`): it is about to list the directory, or it has, and every clip in the directory is
among the files it has seen. That thread may not finish its prune before the directory is
small, since its own total counts every file that is there; and a thread that publishes a clip
the lister has not seen is itself about to list, and so takes the duty over. A listing that leaves
early needs no excuse, as only an encoder's failure keeps a thread from its prune, and
then it has published nothing (`Unfailed`). `Total` is a cardinality, so that removing one entry
takes away its own units (`UnitsOfOne`) by the theorems on finite sets.

*Bundle.* The size loop first: with `rest` bytes and a number of `d` digits the directory
has `rest + d` bytes, `d` is at most 21, and no two powers of ten lie so close, so over the
window of sizes the loop can meet `Digits` grows by one at most; the fourth round is
stable (`FourthRoundStable`), and `RoundSize` gives the size of each round before. `JobInv`
ties an exporter's job to its step, and says of a finished one that manifest and archive name
the same image, which is why the recorded image must come from the archive and not from the
tag. `OutputInv`: what is at an output passes all static checks and stays. `BundleInv`: the
checksums on the target are an export's or damaged, so files that match them are an export's
(`VerifiedIsExported`). `InstallInv` collects what each check has established, and for a
rejected bundle the only two reasons an intact one can have.

*Algorithms.* The theorems are about the operators themselves, for every field schema, and
the invariants of the run *algorithms* follow because its questions are of the right types
(`TypedAlways`). A filter is a conjunction over its fields (`SelectsByField`), and where no bound
comes between a value and its rounding every column is on the same side of the bounds as
what was stored (`Columns`). So each reading is compared with the
others one predicate and one value at a time (`PredicateFacts`, `Clauses`). On headings the
only arithmetic is that of one turn (`Turn`, `OnArc`). That the two dictionaries of a request
share no key is a condition of UnversionedReadsSame that its proof asked for, and TLC
confirmed (see Observations). For plans, the dictionary keeps the largest lower and the
smallest upper bound of a field, and a value that satisfies these satisfies all
(`AtLeastLargest`, `AtMostSmallest`). That finitely many numbers have an extreme is
`FirstExists`, by the smallest subset that had none. `LlmPlanSound` and `RulesPlanSound` say that
what the parsers let through has every bound its operator needs.

*Telemetry.* Monotonic compares neighbours only; that the whole series is in order follows from
the first sample that were not (`SeriesOrdered`). The rows around a boundary are then
neighbours in the series (`NextToEachOther`), and a quotient of a way from 0 to d stays on it
(`PartOfTheWay`), on the circle in the direction `ShorterWay` says (`BetweenLies`). For locality
the nearest sample on either side is compared with the nearest one among those that are
near: they are the same, or the first one was too far away to count (`BoundaryIsLocal`). The value
stored is a rank statistic: the set of values with a given rank is never empty (`Ranks`), the
quotient of two values lies between them (`MedianWithin`), and rounding to a whole number passes
no whole number (`RoundedWithin`), which is why an integer field has to hold whole numbers.
A sampled heading may lie outside 0 to 360 and an interpolated one never does, so that `Lies`
had to compare headings modulo the circle before the statement became true of every series.

Model-checked only: EventuallyServed and RequestsEnd, liveness under fairness. Liveness, ENABLED,
and what a definition computes by recursion over data are out of the prover's reach. The modules
use no RECURSIVE operators, which it does not support.

## 5. Not modelled

- Nearest-neighbour search, reranking, embedding models, detector enrichment: numeric or
  external. Approximate search can return fewer results than exist; the model's exact
  search cannot.
- Telemetry: the circular mean, CSV reading, manifest validation, an aggregation other than the
  type's default. Parsers: the matching of
  words, the prompt and the model call; what they can yield is an input of QueryPlanning.
- Milvus and the exact NumPy search, which have no pushdown.
- Offline bundle: pinned database images (the same in every export), the GPU smoke test,
  the probing of the target host.
- The unversioned loader `ingestion/load_dataset.py`: superseded by the manifest ingest.
- HTTP layer, settings, UI, benchmarks, evaluation scripts, notebooks: no shared state of
  their own. They are most of the repository's lines, and straight-line measurement,
  plotting and presentation.
- Within modelled parts: reports, hashes, logging, enrichment updates, timings, probing of
  video files, timestamp discontinuities (a `ChunkError` to the ingest).

## 6. Plan

Done, in this order: RunStore, IngestRuns, RunGC, ActiveRun, RunVersioning, QueryCache,
SearchRelaxation, VideoWindows; LegacyMigration, MediaCache, FilterTranslation, QueryPlanning,
TelemetryAlignment, OfflineBundle; and the proofs of section 4. Next:

1. VideoWindows: a chunk length per attempt, and what a resume under another one loses.
2. The unversioned loader, as far as deployments still use it.
