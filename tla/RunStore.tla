------------------------------ MODULE RunStore ------------------------------
(***************************************************************************)
(* The tables of the run-versioned ingest of ONE dataset: the PostgreSQL   *)
(* control plane (ingest_runs, ingest_chunks, dataset_active_runs), the    *)
(* PostgreSQL run_segments metadata and one vector table per enabled       *)
(* backend:dimension pair (a "target").  The programs that work on them    *)
(* are in IngestRuns (ingest), RunGC (garbage collector) and RunVersioning *)
(* (both, with the search that reads the active run); their own state is   *)
(* here too, so that each program can say what it leaves alone.            *)
(*                                                                         *)
(* Runs are numbered in creation order (started_at).  The manifest is      *)
(* fixed: chunk c is the c-th (video, chunk index) pair of the decode      *)
(* order and IndexOf[c] is its index inside its video, so chunks with the  *)
(* same index are chunks of different videos.  A batch stands for the      *)
(* segments of one DB_WRITE_BATCH_SIZE slice, written and counted as one.  *)
(***************************************************************************)
EXTENDS Naturals, FiniteSets

CONSTANTS
  MaxRuns,          \* bound: how many runs are ever created
  NumChunks,        \* length of the manifest
  BatchesPerChunk,  \* write batches per chunk
  IndexOf,          \* chunk -> chunk_index inside its video
  Targets,          \* enabled backend:dimension pairs
  ClickHouse,       \* the targets in MergeTree tables: rows are appended
  PgVector,         \* the targets in PostgreSQL; the others are in Qdrant
  MaxCopies,        \* bound: copies of a row an appending target can hold
  MaxClock,         \* bound: ticks of the wall clock
  Ingestors         \* ingest processes that may be alive at once

ASSUME StoreAssumption ==
  /\ MaxRuns \in Nat /\ NumChunks \in Nat \ {0} /\ BatchesPerChunk \in Nat \ {0}
  /\ IndexOf \in [1..NumChunks -> Nat]
  /\ ClickHouse \subseteq Targets /\ PgVector \subseteq Targets
  /\ MaxCopies \in Nat \ {0} /\ MaxClock \in Nat

Runs == 1..MaxRuns
NoRun == 0
Chunks == 1..NumChunks
Batches == 1..BatchesPerChunk
Segments == Chunks \X Batches
Copies == 1..MaxCopies
Rows == Chunks \X Batches \X Copies

RunStatuses == {"none", "preflight_passed", "ingesting", "validating",
                "completed", "failed", "deleted"}
ChunkStatuses == {"none", "writing", "committed", "failed"}
LedgerRow == [status : ChunkStatuses, expected : 0..BatchesPerChunk]

VARIABLES
  status,      \* ingest_runs.status; "none": not created, "deleted": collected
  finishedAt,  \* ingest_runs.finished_at, 0 while NULL
  active,      \* dataset_active_runs.active_run_id
  ledger,      \* ingest_chunks
  meta,        \* run_segments, keyed (run_id, segment_id)
  rows,        \* the vector tables
  clock,       \* now()
  job,         \* per ingest process: program counter and locals (IngestRuns)
  gc,          \* the collector: program counter and locals (RunGC)
  reader       \* the run a search in progress reads, or NoRun (RunVersioning)

storeVars == <<status, finishedAt, active, ledger, meta, rows, clock>>
beside == <<gc, reader>>

At(j, step) == job[j].pc = step
Live(j) == ~At(j, "idle")
WorkedOn(r) == \E j \in Ingestors : Live(j) /\ job[j].run = r

\* run_gc and its locals: the candidates still to delete, the one being deleted, its
\* targets not reached yet, and the target whose guard has just passed.  unsettled
\* is no local but a record of the listing: the candidates that were failed, or that
\* a process worked on, at that moment.
IdleGc == [pc |-> "idle", list |-> {}, unsettled |-> {}, run |-> NoRun, todo |-> {},
           cleared |-> {}]

StoreTypeOK ==
  /\ status \in [Runs -> RunStatuses]
  /\ finishedAt \in [Runs -> 0..MaxClock]
  /\ active \in Runs \cup {NoRun}
  /\ ledger \in [Runs -> [Chunks -> LedgerRow]]
  /\ meta \in [Runs -> SUBSET Segments]
  /\ rows \in [Runs -> [Targets -> SUBSET Rows]]
  /\ clock \in 0..MaxClock

NoChunkYet == [c \in Chunks |-> [status |-> "none", expected |-> 0]]

StoreInit ==
  /\ status = [r \in Runs |-> "none"]
  /\ finishedAt = [r \in Runs |-> 0]
  /\ active = NoRun
  /\ ledger = [r \in Runs |-> NoChunkYet]
  /\ meta = [r \in Runs |-> {}]
  /\ rows = [r \in Runs |-> [t \in Targets |-> {}]]
  /\ clock = 0
  /\ gc = IdleGc /\ reader = NoRun

-----------------------------------------------------------------------------
(* Statements on the tables.                                               *)

\* get_active_run_snapshot: the pointer joined with a run that is completed.
Snapshot ==
  IF active # NoRun /\ status[active] = "completed" THEN active ELSE NoRun

\* The guard in front of a destructive statement on run r in target t:
\* pgvector looks at the pointer, ClickHouse and Qdrant at the snapshot.
GuardedInactive(t, r) ==
  IF t \in PgVector THEN active # r ELSE Snapshot # r

\* Mutant of RunExists: no foreign key notices that the row has been deleted.
RunExistsEver(r) == status[r] # "none"

RunExists(r) == status[r] \notin {"none", "deleted"}

\* UPDATE ingest_runs SET status: unconditional, a no-op on a deleted row;
\* finished_at is stamped for failed runs and otherwise kept.
SetRunStatus(r, s) ==
  /\ status' = [status EXCEPT ![r] = IF RunExists(r) THEN s ELSE @]
  /\ finishedAt' = [finishedAt EXCEPT ![r] =
                      IF RunExists(r) /\ s = "failed" THEN clock ELSE @]

\* The ingest_chunks upsert; the foreign key needs the run's row.
SetChunkStatus(r, c, s, n) ==
  /\ RunExists(r)
  /\ ledger' = [ledger EXCEPT ![r][c] = [status |-> s, expected |-> n]]

CommittedChunks(r) == {c \in Chunks : ledger[r][c].status = "committed"}

\* sum(expected_segments) over the committed ledger rows, as the size of the
\* set of segments those rows stand for.
CommittedTotal(r) ==
  Cardinality({s \in Segments : /\ s[1] \in CommittedChunks(r)
                                /\ s[2] <= ledger[r][s[1]].expected})

\* The vector table S after batch b of chunk c is written.  An upsert leaves
\* one copy; a MergeTree insert adds n to the copies already there.
Upsert(S, c, b) == S \cup {<<c, b, 1>>}

CopiesOf(S, c, b) == {k \in Copies : <<c, b, k>> \in S}

Insert(S, c, b, n) ==
  LET present == Cardinality(CopiesOf(S, c, b))
  IN  S \cup {<<c, b, k>> : k \in {i \in Copies : present < i /\ i <= present + n}}

\* Mutant of WithoutIndex: the chunk_index predicate is missing.
WithoutAnyIndex(S, i) == {}

\* DELETE ... WHERE run_id, dataset_id, chunk_index: every backend deletes by
\* chunk index alone, the video is not part of the predicate.
WithoutIndex(S, i) == {x \in S : IndexOf[x[1]] # i}

-----------------------------------------------------------------------------
(* What complete means.                                                    *)

\* Chunk c of run r is stored once and entirely in target t.
StoredOnce(r, t, c) ==
  {x \in rows[r][t] : x[1] = c} = {<<c, b, 1>> : b \in Batches}

ChunkStored(r, c) ==
  /\ \A b \in Batches : <<c, b>> \in meta[r]
  /\ \A t \in Targets : StoredOnce(r, t, c)

RunStored(r) == \A c \in Chunks : ChunkStored(r, c)

=============================================================================
