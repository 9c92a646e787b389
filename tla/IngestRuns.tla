----------------------------- MODULE IngestRuns -----------------------------
(***************************************************************************)
(* Ingest processes (ingest_manifest, GenericIngestor.run, _flush_pending) *)
(* with the RunCoordinator that brackets each chunk and activates the run. *)
(* A process is a sequential program whose steps are the calls it makes on *)
(* the stores: every call commits on its own, so other processes, a crash  *)
(* or an exception can come between any two of them.                       *)
(***************************************************************************)
EXTENDS RunStore

CONSTANTS
  ExclusiveResume,   \* TRUE: the operator resumes a run only when no live
                     \* process works on it (nothing in the code checks it)
  GcOverlapsResume,  \* FALSE: nor while a collection is in progress (nothing
                     \* checks that either)
  FailOnVideoError,  \* the manifest's policy.fail_on_video_error
  MaxCrashes,        \* bound: process deaths
  MaxErrors,         \* bound: exceptions while a chunk is processed
  MaxAmbiguous       \* bound: ClickHouse inserts applied, then reported lost

ASSUME IngestAssumption ==
  /\ ExclusiveResume \in BOOLEAN /\ GcOverlapsResume \in BOOLEAN
  /\ FailOnVideoError \in BOOLEAN
  /\ MaxCrashes \in Nat /\ MaxErrors \in Nat /\ MaxAmbiguous \in Nat

VARIABLES crashes, errors, ambiguous   \* how much of each bound is used up

jobVars == <<job, crashes, errors, ambiguous>>
ingestVars == <<storeVars, beside, jobVars>>

\* The steps inside the try block of the chunk loop, and all the others.
ChunkSteps ==
  {"check", "purge", "mark", "purgeMeta", "wipeMeta", "meta", "vectors", "commit"}
Steps == ChunkSteps \cup {"idle", "resolved", "marking", "counting", "next",
                          "close", "validate", "counts", "conclude"}

Job == [pc : Steps,
        run : Runs \cup {NoRun},      \* run_spec.run_id
        skip : SUBSET Chunks,         \* committed: the chunks a resume skips
        chunk : 0..NumChunks,         \* the last chunk taken from the iterator
        batch : 0..BatchesPerChunk,   \* batches whose metadata was written
        todo : SUBSET Targets,        \* targets the current loop has not reached
        cleared : SUBSET Targets,     \* the target whose guard has just passed
        total : Nat,                  \* total_segments
        failed : BOOLEAN,             \* failed (and, when validating, errors)
        exhausted : BOOLEAN]          \* the decode iterator has died

IdleJob == [pc |-> "idle", run |-> NoRun, skip |-> {}, chunk |-> 0, batch |-> 0,
            todo |-> {}, cleared |-> {}, total |-> 0, failed |-> FALSE,
            exhausted |-> FALSE]

IngestTypeOK ==
  /\ StoreTypeOK
  /\ job \in [Ingestors -> Job]
  /\ crashes \in 0..MaxCrashes /\ errors \in 0..MaxErrors
  /\ ambiguous \in 0..MaxAmbiguous

IngestInit ==
  /\ StoreInit
  /\ job = [j \in Ingestors |-> IdleJob]
  /\ crashes = 0 /\ errors = 0 /\ ambiguous = 0

budgets == <<crashes, errors, ambiguous>>

Goto(j, step) == job' = [job EXCEPT ![j].pc = step]

-----------------------------------------------------------------------------
(* ingest_manifest: a new run, or the newest resumable one.                *)

NewRun(r) == status[r] = "none" /\ \A q \in Runs : q < r => status[q] # "none"

\* new_run_spec and PostgresRunStore.create(status='preflight_passed').
CreateRun(j, r) ==
  /\ At(j, "idle") /\ NewRun(r)
  /\ status' = [status EXCEPT ![r] = "preflight_passed"]
  /\ job' = [job EXCEPT ![j] = [IdleJob EXCEPT !.pc = "marking", !.run = r]]
  /\ UNCHANGED <<finishedAt, active, ledger, meta, rows, clock, beside, budgets>>

\* Mutant of Resumable: every run on record, completed ones included.
ResumableAny == {r \in Runs : status[r] \notin {"none", "deleted"}}

Resumable == {r \in Runs : status[r] \in {"preflight_passed", "ingesting", "failed"}}

\* find_resumable: ORDER BY started_at DESC LIMIT 1.
ResumeRun(j, r) ==
  /\ At(j, "idle")
  /\ r \in Resumable /\ \A q \in Resumable : q <= r
  /\ ExclusiveResume => ~WorkedOn(r)
  /\ GcOverlapsResume \/ gc.pc = "idle"
  /\ job' = [job EXCEPT ![j] = [IdleJob EXCEPT !.pc = "resolved", !.run = r]]
  /\ UNCHANGED <<storeVars, beside, budgets>>

\* run(resume=True): the ledger read that fixes which chunks are skipped.
ReadCommitted(j) ==
  /\ At(j, "resolved")
  /\ job' = [job EXCEPT ![j].pc = "marking",
                        ![j].skip = CommittedChunks(job[j].run)]
  /\ UNCHANGED <<storeVars, beside, budgets>>

MarkIngesting(j) ==
  /\ At(j, "marking")
  /\ SetRunStatus(job[j].run, "ingesting")
  /\ Goto(j, "counting")
  /\ UNCHANGED <<active, ledger, meta, rows, clock, beside, budgets>>

\* The second ledger read: total_segments starts from the committed chunks.
CountCommitted(j) ==
  /\ At(j, "counting")
  /\ job' = [job EXCEPT ![j].pc = "next", ![j].total = CommittedTotal(job[j].run)]
  /\ UNCHANGED <<storeVars, beside, budgets>>

-----------------------------------------------------------------------------
(* The chunk loop.  Leaving it by break or by a dead iterator is "close".  *)

\* The exception handler: the ledger row becomes failed with expected 0.  The
\* loop breaks under fail_on_video_error, and ends anyway when the decoder
\* raised, because a generator that raised yields nothing more.
FailChunk(j, dead) ==
  /\ SetChunkStatus(job[j].run, job[j].chunk, "failed", 0)
  /\ job' = [job EXCEPT ![j].pc = IF FailOnVideoError THEN "close" ELSE "next",
                        ![j].failed = TRUE, ![j].exhausted = dead,
                        ![j].batch = 0, ![j].todo = {}, ![j].cleared = {}]
  /\ UNCHANGED <<status, finishedAt, active, meta, rows, clock, beside>>

Unseen(j) == {c \in Chunks \ job[j].skip : c > job[j].chunk /\ ~job[j].exhausted}

NextChunk(j) ==
  /\ At(j, "next") /\ Unseen(j) # {}
  /\ \E c \in Unseen(j) :
       /\ \A d \in Unseen(j) : c <= d
       /\ job' = [job EXCEPT ![j].pc = "check", ![j].chunk = c]
  /\ UNCHANGED <<storeVars, beside, budgets>>

\* Mutant of BeginChunk: a retry does not clear the vector tables first.
BeginChunkUnpurged(j) ==
  /\ At(j, "check")
  /\ Snapshot # job[j].run
  /\ Goto(j, "mark")
  /\ UNCHANGED <<storeVars, beside, budgets>>

\* begin_chunk: the coordinator's own guard.
BeginChunk(j) ==
  /\ At(j, "check")
  /\ Snapshot # job[j].run
  /\ job' = [job EXCEPT ![j].pc = "purge", ![j].todo = Targets]
  /\ UNCHANGED <<storeVars, beside, budgets>>

\* delete_inactive_chunk in target t: the guard is one statement, the DELETE
\* another.
PurgeGuard(j, t) ==
  /\ At(j, "purge") /\ t \in job[j].todo /\ job[j].cleared = {}
  /\ GuardedInactive(t, job[j].run)
  /\ job' = [job EXCEPT ![j].todo = @ \ {t}, ![j].cleared = {t}]
  /\ UNCHANGED <<storeVars, beside, budgets>>

PurgeTarget(j, t) ==
  /\ At(j, "purge") /\ t \in job[j].cleared
  /\ rows' = [rows EXCEPT ![job[j].run][t] = WithoutIndex(@, IndexOf[job[j].chunk])]
  /\ job' = [job EXCEPT ![j].cleared = {},
                        ![j].pc = IF job[j].todo = {} THEN "mark" ELSE "purge"]
  /\ UNCHANGED <<status, finishedAt, active, ledger, meta, clock, beside, budgets>>

\* A guard found the run active: it raises into the chunk's handler.
GuardRejects(j) ==
  /\ \/ At(j, "check") /\ Snapshot = job[j].run
     \/ /\ At(j, "purge") /\ job[j].cleared = {}
        /\ \E t \in job[j].todo : ~GuardedInactive(t, job[j].run)
     \/ At(j, "purgeMeta") /\ active = job[j].run
  /\ FailChunk(j, FALSE)
  /\ UNCHANGED budgets

MarkWriting(j) ==
  /\ At(j, "mark")
  /\ SetChunkStatus(job[j].run, job[j].chunk, "writing", 0)
  /\ Goto(j, "purgeMeta")
  /\ UNCHANGED <<status, finishedAt, active, meta, rows, clock, beside, budgets>>

\* postgres.delete_inactive_metadata_chunk: one transaction, but READ COMMITTED
\* and without a lock, so that the pointer may move behind its first statement.
PurgeMetadataGuard(j) ==
  /\ At(j, "purgeMeta") /\ active # job[j].run
  /\ Goto(j, "wipeMeta")
  /\ UNCHANGED <<storeVars, beside, budgets>>

\* Its DELETEs, scoped by video and index.
PurgeMetadata(j) ==
  /\ At(j, "wipeMeta")
  /\ meta' = [meta EXCEPT ![job[j].run] = {s \in @ : s[1] # job[j].chunk}]
  /\ Goto(j, "meta")
  /\ UNCHANGED <<status, finishedAt, active, ledger, rows, clock, beside, budgets>>

\* _flush_pending: the metadata transaction of the next batch comes first ...
WriteMetadata(j) ==
  /\ At(j, "meta") /\ RunExists(job[j].run)
  /\ meta' = [meta EXCEPT ![job[j].run] = @ \cup {<<job[j].chunk, job[j].batch + 1>>}]
  /\ job' = [job EXCEPT ![j].pc = "vectors", ![j].batch = @ + 1, ![j].todo = Targets]
  /\ UNCHANGED <<status, finishedAt, active, ledger, rows, clock, beside, budgets>>

\* Mutant of AfterWrite: one batch too many is flushed.
AfterWriteExtra(j, t) ==
  job' = [job EXCEPT ![j].todo = @ \ {t},
                     ![j].pc = IF job[j].todo # {t} THEN "vectors"
                               ELSE IF job[j].batch <= BatchesPerChunk THEN "meta"
                               ELSE "commit"]

AfterWrite(j, t) ==
  job' = [job EXCEPT ![j].todo = @ \ {t},
                     ![j].pc = IF job[j].todo # {t} THEN "vectors"
                               ELSE IF job[j].batch < BatchesPerChunk THEN "meta"
                               ELSE "commit"]

\* ... then the batch goes to every target, one call each.  pgvector and
\* Qdrant upsert; a ClickHouse insert appends.
WriteVectors(j, t) ==
  /\ At(j, "vectors") /\ t \in job[j].todo
  /\ rows' = [rows EXCEPT ![job[j].run][t] =
                IF t \in ClickHouse THEN Insert(@, job[j].chunk, job[j].batch, 1)
                                    ELSE Upsert(@, job[j].chunk, job[j].batch)]
  /\ AfterWrite(j, t)
  /\ UNCHANGED <<status, finishedAt, active, ledger, meta, clock, beside, budgets>>

\* _with_reconnect around write_run_chunk: the server applied the insert, the
\* connection broke before the answer, and the insert is sent again.
WriteVectorsTwice(j, t) ==
  /\ At(j, "vectors") /\ t \in job[j].todo \cap ClickHouse
  /\ ambiguous < MaxAmbiguous /\ ambiguous' = ambiguous + 1
  /\ rows' = [rows EXCEPT ![job[j].run][t] = Insert(@, job[j].chunk, job[j].batch, 2)]
  /\ AfterWrite(j, t)
  /\ UNCHANGED <<status, finishedAt, active, ledger, meta, clock, beside, crashes, errors>>

\* commit_chunk.  The counts it compares are the batch sizes each writer
\* returned, len(rows) for all of them, so they always agree.
CommitChunk(j) ==
  /\ At(j, "commit")
  /\ SetChunkStatus(job[j].run, job[j].chunk, "committed", job[j].batch)
  /\ job' = [job EXCEPT ![j].pc = "next", ![j].total = @ + job[j].batch,
                        ![j].batch = 0]
  /\ UNCHANGED <<status, finishedAt, active, meta, rows, clock, beside, budgets>>

\* Any other exception while a chunk is processed.  The embedder and the stores
\* raise at any step; the decoder raises when a batch is pulled from it.
ChunkError(j) ==
  /\ job[j].pc \in ChunkSteps
  /\ errors < MaxErrors /\ errors' = errors + 1
  /\ \E dead \in {FALSE, At(j, "meta") /\ ~FailOnVideoError} : FailChunk(j, dead)
  /\ UNCHANGED <<crashes, ambiguous>>

\* The run's row is gone: the foreign keys of run_segments and ingest_chunks
\* reject the write, and then also the handler's own, which ends the process.
RunVanished(j) ==
  /\ job[j].pc \in {"mark", "meta", "commit"} /\ ~RunExists(job[j].run)
  /\ job' = [job EXCEPT ![j] = IdleJob]
  /\ UNCHANGED <<storeVars, beside, budgets>>

-----------------------------------------------------------------------------
(* After the loop: finalize_run, or the run is marked failed.              *)

LeaveLoop(j) ==
  /\ At(j, "next") /\ Unseen(j) = {}
  /\ Goto(j, "close")
  /\ UNCHANGED <<storeVars, beside, budgets>>

FailRun(j) ==
  /\ At(j, "close") /\ job[j].failed
  /\ SetRunStatus(job[j].run, "failed")
  /\ job' = [job EXCEPT ![j] = IdleJob]
  /\ UNCHANGED <<active, ledger, meta, rows, clock, beside, budgets>>

\* Mutant of StartValidation: the pointer moves before the run is checked.
StartValidationPublishes(j) ==
  /\ At(j, "close") /\ ~job[j].failed
  /\ SetRunStatus(job[j].run, "validating")
  /\ active' = job[j].run
  /\ Goto(j, "validate")
  /\ UNCHANGED <<ledger, meta, rows, clock, beside, budgets>>

StartValidation(j) ==
  /\ At(j, "close") /\ ~job[j].failed
  /\ SetRunStatus(job[j].run, "validating")
  /\ Goto(j, "validate")
  /\ UNCHANGED <<active, ledger, meta, rows, clock, beside, budgets>>

\* Ledger rows that are not committed, and the metadata count.  The duplicate
\* count groups by the primary key and is always 0.
CheckControlPlane(j) ==
  LET r == job[j].run
      wrong == \/ \E c \in Chunks : ledger[r][c].status \notin {"none", "committed"}
               \/ Cardinality(meta[r]) # job[j].total
  IN  /\ At(j, "validate")
      /\ job' = [job EXCEPT ![j].pc = "counts", ![j].todo = Targets, ![j].failed = wrong]
      /\ UNCHANGED <<storeVars, beside, budgets>>

\* Mutant of CheckTarget: only missing rows count as a mismatch.
CheckTargetMissing(j, t) ==
  /\ At(j, "counts") /\ t \in job[j].todo
  /\ job' = [job EXCEPT
       ![j].todo = @ \ {t},
       ![j].pc = IF job[j].todo = {t} THEN "conclude" ELSE "counts",
       ![j].failed = @ \/ Cardinality(rows[job[j].run][t]) < job[j].total]
  /\ UNCHANGED <<storeVars, beside, budgets>>

\* count_run in target t against expected_segments.
CheckTarget(j, t) ==
  /\ At(j, "counts") /\ t \in job[j].todo
  /\ job' = [job EXCEPT
       ![j].todo = @ \ {t},
       ![j].pc = IF job[j].todo = {t} THEN "conclude" ELSE "counts",
       ![j].failed = @ \/ Cardinality(rows[job[j].run][t]) # job[j].total]
  /\ UNCHANGED <<storeVars, beside, budgets>>

RejectRun(j) ==
  /\ At(j, "conclude") /\ job[j].failed
  /\ SetRunStatus(job[j].run, "failed")
  /\ job' = [job EXCEPT ![j] = IdleJob]
  /\ UNCHANGED <<active, ledger, meta, rows, clock, beside, budgets>>

\* PostgresRunStore.activate: one transaction moves the status and the pointer.
\* Requests are short: one in progress sees at most one activation go by.
Activate(j) ==
  /\ At(j, "conclude") /\ ~job[j].failed
  /\ status[job[j].run] = "validating"
  /\ job[j].run # active => reader \in {NoRun, active}
  /\ status' = [status EXCEPT ![job[j].run] = "completed"]
  /\ finishedAt' = [finishedAt EXCEPT ![job[j].run] = clock]
  /\ active' = job[j].run
  /\ job' = [job EXCEPT ![j] = IdleJob]
  /\ UNCHANGED <<ledger, meta, rows, clock, beside, budgets>>

\* The status moved on under the process: the update matches no row and raises.
ActivationRefused(j) ==
  /\ At(j, "conclude") /\ ~job[j].failed
  /\ status[job[j].run] # "validating"
  /\ job' = [job EXCEPT ![j] = IdleJob]
  /\ UNCHANGED <<storeVars, beside, budgets>>

\* The process dies, or an exception outside the chunk handler ends it.
Crash(j) ==
  /\ Live(j)
  /\ crashes < MaxCrashes /\ crashes' = crashes + 1
  /\ job' = [job EXCEPT ![j] = IdleJob]
  /\ UNCHANGED <<storeVars, beside, errors, ambiguous>>

-----------------------------------------------------------------------------
\* What a live process does next by itself, failures aside.
Progress(j) ==
  \/ ReadCommitted(j) \/ MarkIngesting(j) \/ CountCommitted(j)
  \/ NextChunk(j) \/ BeginChunk(j) \/ GuardRejects(j)
  \/ \E t \in Targets : PurgeGuard(j, t) \/ PurgeTarget(j, t)
  \/ MarkWriting(j) \/ PurgeMetadataGuard(j) \/ PurgeMetadata(j) \/ WriteMetadata(j)
  \/ \E t \in Targets : WriteVectors(j, t) \/ WriteVectorsTwice(j, t)
  \/ CommitChunk(j) \/ RunVanished(j) \/ LeaveLoop(j) \/ FailRun(j) \/ StartValidation(j)
  \/ CheckControlPlane(j) \/ \E t \in Targets : CheckTarget(j, t)
  \/ RejectRun(j) \/ Activate(j) \/ ActivationRefused(j)

IngestStep(j) ==
  \/ \E r \in Runs : CreateRun(j, r) \/ ResumeRun(j, r)
  \/ Progress(j) \/ ChunkError(j) \/ Crash(j)

IngestNext == \E j \in Ingestors : IngestStep(j)

IngestSpec == IngestInit /\ [][IngestNext]_ingestVars

\* A live process keeps running, and the operator issues "ingest --resume"
\* again and again while the dataset has no active run.
OperatorRetries(j) ==
  /\ active = NoRun
  /\ \E r \in Runs : \/ ResumeRun(j, r)
                     \/ Resumable = {} /\ CreateRun(j, r)

IngestFairSpec ==
  /\ IngestSpec
  /\ \A j \in Ingestors : WF_ingestVars(Progress(j)) /\ WF_ingestVars(OperatorRetries(j))

-----------------------------------------------------------------------------
(* Properties.                                                             *)

\* The run searches are sent to is completed and stores every segment of the
\* manifest, exactly once in every enabled target and in the metadata.
ServedComplete == active # NoRun => status[active] = "completed" /\ RunStored(active)

\* A chunk the ledger calls committed has all its segments in the metadata and
\* in every target, whatever crashed, failed or was retried since: a resume
\* skips the chunk for good, so nothing would ever put a lost row back.
CommittedIntact ==
  \A r \in Runs : \A c \in CommittedChunks(r) : \A b \in Batches :
    /\ <<c, b>> \in meta[r]
    /\ \A t \in Targets : CopiesOf(rows[r][t], c, b) # {}

\* Retries never leave a second copy of a committed row in a vector table.
CommittedOnce ==
  \A r \in Runs : \A c \in CommittedChunks(r) : \A t \in Targets, b \in Batches :
    Cardinality(CopiesOf(rows[r][t], c, b)) <= 1

\* A completed run, active or kept for rollback, is frozen: no process changes
\* its status, its ledger, its metadata or any of its vector rows.
CompletedFrozen ==
  [][\A r \in Runs : status[r] = "completed" =>
        /\ status'[r] \in {"completed", "deleted"}
        /\ status'[r] = "completed" =>
             /\ ledger'[r] = ledger[r] /\ meta'[r] = meta[r] /\ rows'[r] = rows[r]]_ingestVars

\* A chunk retry removes rows of the chunk being retried and of no other.
RetryRemovesOnlyItsChunk ==
  [][\A j \in Ingestors, t \in Targets : PurgeTarget(j, t) =>
        \A x \in rows[job[j].run][t] \ rows'[job[j].run][t] : x[1] = job[j].chunk]_ingestVars

\* However the attempts fail, the operator's retries end with a served dataset.
EventuallyServed == <>(active # NoRun)
=============================================================================
