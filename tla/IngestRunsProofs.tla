-------------------------- MODULE IngestRunsProofs --------------------------
(***************************************************************************)
(* Theorems about IngestRuns, for every manifest, set of targets, number   *)
(* of processes, crashes and errors.                                       *)
(***************************************************************************)
EXTENDS IngestRuns, FiniteSetTheorems, TLAPS

LEMMA SegmentsFinite == IsFiniteSet(Segments)
<1>1. IsFiniteSet(Chunks) /\ IsFiniteSet(Batches)
  BY StoreAssumption, FS_Interval DEF Chunks, Batches
<1>. QED
  BY <1>1, FS_Product DEF Segments

\* A total is a number: it counts a subset of the manifest's segments.
LEMMA CommittedTotalType ==
  ASSUME NEW r
  PROVE  CommittedTotal(r) \in Nat
<1>. DEFINE T == {s \in Segments : s[1] \in CommittedChunks(r) /\ s[2] <= ledger[r][s[1]].expected}
<1>1. T \subseteq Segments
  OBVIOUS
<1>2. IsFiniteSet(T)
  BY <1>1, SegmentsFinite, FS_Subset
<1>. QED
  BY <1>2, FS_CardinalityType DEF CommittedTotal

LEMMA RowTypes ==
  ASSUME NEW S \in SUBSET Rows, NEW c \in Chunks, NEW b \in Batches, NEW n, NEW i
  PROVE  /\ Upsert(S, c, b) \in SUBSET Rows
         /\ Insert(S, c, b, n) \in SUBSET Rows
         /\ WithoutIndex(S, i) \in SUBSET Rows
BY StoreAssumption DEF Rows, Upsert, Insert, WithoutIndex, Copies

-----------------------------------------------------------------------------
(* Type correctness.  The type invariant alone is not inductive: that a       *)
(* batch number stays within a chunk, and that what a process writes belongs  *)
(* to a chunk of the manifest, depends on where the process is.               *)

SoundJob ==
  {k \in Job : /\ k.pc # "idle" => k.run \in Runs
               /\ k.pc \in ChunkSteps => k.chunk \in Chunks
               /\ k.pc \notin {"meta", "vectors", "commit"} => k.batch = 0
               /\ k.pc = "meta" => k.batch < BatchesPerChunk
               /\ k.pc = "vectors" => k.batch \in Batches}

IngestInv ==
  /\ StoreTypeOK
  /\ job \in [Ingestors -> SoundJob]
  /\ crashes \in 0..MaxCrashes /\ errors \in 0..MaxErrors
  /\ ambiguous \in 0..MaxAmbiguous

USE DEF At, Live

LEMMA IdleJobSound == IdleJob \in SoundJob /\ IdleJob.batch = 0
BY StoreAssumption DEF SoundJob, IdleJob, Job, Steps, ChunkSteps, Runs, NoRun

LEMMA FailChunkSound ==
  ASSUME NEW j \in Ingestors, job \in [Ingestors -> SoundJob], job[j].pc # "idle",
         NEW dead \in BOOLEAN, FailChunk(j, dead)
  PROVE  job'[j] \in SoundJob
<1>. DEFINE p == IF FailOnVideoError THEN "close" ELSE "next"
            k == [job[j] EXCEPT !.pc = p, !.failed = TRUE, !.exhausted = dead,
                                !.batch = 0, !.todo = {}, !.cleared = {}]
<1>1. job[j] \in SoundJob /\ job'[j] = k
  BY DEF FailChunk
<1>2. p \in {"close", "next"} /\ 0 \in 0..BatchesPerChunk
  BY StoreAssumption
<1>. HIDE DEF p
<1>3. k \in Job
  BY <1>1, <1>2 DEF SoundJob, Job, Steps
<1>4. k.pc = p /\ k.run \in Runs /\ k.batch = 0
  BY <1>1 DEF SoundJob, Job
<1>. QED
  BY <1>1, <1>2, <1>3, <1>4 DEF SoundJob, ChunkSteps

\* Every step of a process replaces its own record by another sound one.
LEMMA StepReplacesJob ==
  ASSUME IngestInv, NEW j \in Ingestors, IngestStep(j)
  PROVE  job'[j] \in SoundJob
<1>. USE StoreAssumption
<1>1. job \in [Ingestors -> SoundJob] /\ job[j] \in SoundJob
  BY DEF IngestInv
<1>b. /\ NumChunks \in Nat /\ BatchesPerChunk \in Nat
      /\ 0 \in 0..BatchesPerChunk /\ Chunks \subseteq 0..NumChunks
  BY DEF Chunks
<1>2. ASSUME NEW r \in Runs, CreateRun(j, r) \/ ResumeRun(j, r)
      PROVE  job'[j] \in SoundJob
  <2>1. PICK p \in {"marking", "resolved"} : job' = [job EXCEPT ![j] = [IdleJob EXCEPT !.pc = p, !.run = r]]
    BY <1>2 DEF CreateRun, ResumeRun
  <2>. QED
    <3>. DEFINE k == [IdleJob EXCEPT !.pc = p, !.run = r]
    <3>1. job'[j] = k
      BY <1>1, <2>1
    <3>2. k \in Job
      BY IdleJobSound DEF SoundJob, Job, Steps
    <3>3. k.pc = p /\ k.run = r /\ k.batch = 0
      BY IdleJobSound DEF SoundJob, Job
    <3>. QED
      BY <3>1, <3>2, <3>3 DEF SoundJob, ChunkSteps
<1>3. CASE ReadCommitted(j)
  BY <1>1, <1>3
  DEF ReadCommitted, CommittedChunks, SoundJob, Job, Steps, ChunkSteps
<1>4. CASE MarkIngesting(j)
  BY <1>1, <1>4
  DEF MarkIngesting, Goto, SoundJob, Job, Steps, ChunkSteps
<1>5. CASE CountCommitted(j)
  BY <1>1, CommittedTotalType, <1>5
  DEF CountCommitted, SoundJob, Job, Steps, ChunkSteps
<1>6. CASE NextChunk(j)
  <2>1. PICK c \in Chunks : job' = [job EXCEPT ![j].pc = "check", ![j].chunk = c]
    BY <1>6 DEF NextChunk, Unseen
  <2>. QED
    <3>. DEFINE k == [job[j] EXCEPT !.pc = "check", !.chunk = c]
    <3>1. job'[j] = k
      BY <1>1, <2>1
    <3>2. job[j].pc = "next" /\ job[j].run \in Runs /\ job[j].batch = 0
      BY <1>1, <1>6 DEF NextChunk, SoundJob
    <3>3. k \in Job
      BY <1>1, <1>b DEF SoundJob, Job, Steps, ChunkSteps
    <3>4. k.pc = "check" /\ k.run \in Runs /\ k.chunk = c /\ k.batch = 0
      BY <1>1, <3>2 DEF SoundJob, Job
    <3>. QED
      BY <3>1, <3>3, <3>4 DEF SoundJob, ChunkSteps
<1>7. CASE BeginChunk(j)
  BY <1>1, <1>7
  DEF BeginChunk, Chunks, SoundJob, Job, Steps, ChunkSteps
<1>8. CASE GuardRejects(j)
  BY <1>1, <1>8, FailChunkSound DEF GuardRejects
<1>9. CASE MarkWriting(j)
  BY <1>1, <1>9
  DEF MarkWriting, Goto, SoundJob, Job, Steps, ChunkSteps
<1>28. CASE PurgeMetadataGuard(j)
  BY <1>1, <1>28
  DEF PurgeMetadataGuard, Goto, SoundJob, Job, Steps, ChunkSteps
<1>10. CASE PurgeMetadata(j)
  <2>1. job[j].pc = "wipeMeta" /\ job' = [job EXCEPT ![j].pc = "meta"]
    BY <1>10 DEF PurgeMetadata, Goto
  <2>2. job[j].batch = 0 /\ 0 < BatchesPerChunk /\ job[j].run \in Runs /\ job[j].chunk \in Chunks
    BY <1>1, <2>1 DEF SoundJob, ChunkSteps
  <2>3. job'[j] \in Job
    BY <1>1, <2>1 DEF SoundJob, Job, Steps, ChunkSteps
  <2>4. job'[j].pc = "meta" /\ job'[j].run = job[j].run /\ job'[j].chunk = job[j].chunk /\ job'[j].batch = job[j].batch
    BY <1>1, <2>1 DEF SoundJob, Job
  <2>. QED
    BY <2>2, <2>3, <2>4 DEF SoundJob, ChunkSteps
<1>11. CASE WriteMetadata(j)
  <2>1. /\ job[j].pc = "meta"
        /\ job' = [job EXCEPT ![j].pc = "vectors", ![j].batch = @ + 1, ![j].todo = Targets]
    BY <1>11, Zenon DEF WriteMetadata
  <2>2. /\ job[j].batch \in 0..BatchesPerChunk /\ job[j].batch < BatchesPerChunk
        /\ job[j].run \in Runs /\ job[j].chunk \in Chunks
    BY <1>1, <2>1 DEF SoundJob, Job, ChunkSteps
  <2>3. job[j].batch + 1 \in Batches /\ job[j].batch + 1 \in 0..BatchesPerChunk
    BY <2>2, StoreAssumption DEF Batches
  <2>4. job'[j] \in Job /\ job'[j].batch = job[j].batch + 1
    BY <1>1, <2>1, <2>3 DEF SoundJob, Job, Steps, ChunkSteps
  <2>5. /\ job'[j].pc = "vectors" /\ job'[j].run = job[j].run
        /\ job'[j].chunk = job[j].chunk
    BY <1>1, <2>1 DEF SoundJob, Job
  <2>. QED
    BY <2>2, <2>3, <2>4, <2>5 DEF SoundJob, ChunkSteps, Batches
<1>12. CASE CommitChunk(j)
  <2>1. /\ job[j].pc = "commit"
        /\ job' = [job EXCEPT ![j].pc = "next", ![j].total = @ + job[j].batch,
                              ![j].batch = 0]
    BY <1>12 DEF CommitChunk
  <2>2. job[j].total + job[j].batch \in Nat
    BY <1>1 DEF SoundJob, Job
  <2>. QED
    <3>. DEFINE k == [job[j] EXCEPT !.pc = "next", !.total = @ + job[j].batch, !.batch = 0]
    <3>1. job'[j] = k
      BY <1>1, <2>1
    <3>2. k \in Job
      BY <1>1, <1>b, <2>2 DEF SoundJob, Job, Steps
    <3>3. k.pc = "next" /\ k.run = job[j].run /\ k.batch = 0
      BY <1>1 DEF SoundJob, Job
    <3>. QED
      BY <1>1, <2>1, <3>1, <3>2, <3>3 DEF SoundJob, ChunkSteps
<1>13. CASE RunVanished(j)
  BY <1>1, IdleJobSound, <1>13
  DEF RunVanished, SoundJob, Job, Steps, ChunkSteps
<1>14. CASE LeaveLoop(j)
  BY <1>1, <1>14
  DEF LeaveLoop, Goto, SoundJob, Job, Steps, ChunkSteps
<1>15. CASE FailRun(j)
  BY <1>1, IdleJobSound, <1>15
  DEF FailRun, SoundJob, Job, Steps, ChunkSteps
<1>16. CASE StartValidation(j)
  BY <1>1, <1>16
  DEF StartValidation, Goto, SoundJob, Job, Steps, ChunkSteps
<1>17. CASE CheckControlPlane(j)
  BY <1>1, <1>17
  DEF CheckControlPlane, SoundJob, Job, Steps, ChunkSteps
<1>18. CASE RejectRun(j)
  BY <1>1, IdleJobSound, <1>18
  DEF RejectRun, SoundJob, Job, Steps, ChunkSteps
<1>19. CASE Activate(j)
  BY <1>1, IdleJobSound, <1>19
  DEF Activate, SoundJob, Job, Steps, ChunkSteps
<1>20. CASE ActivationRefused(j)
  BY <1>1, IdleJobSound, <1>20
  DEF ActivationRefused, SoundJob, Job, Steps, ChunkSteps
<1>21. CASE ChunkError(j)
  <2>1. FailChunk(j, TRUE) \/ FailChunk(j, FALSE)
    BY <1>21, Zenon DEF ChunkError
  <2>2. job[j].pc # "idle"
    BY <1>21 DEF ChunkError, ChunkSteps
  <2>. QED
    BY <1>1, <2>1, <2>2, FailChunkSound
<1>22. CASE Crash(j)
  BY <1>1, IdleJobSound, <1>22
  DEF Crash, SoundJob, Job, Steps, ChunkSteps
<1>23. ASSUME NEW t \in Targets, PurgeGuard(j, t)
      PROVE  job'[j] \in SoundJob
  BY <1>1, <1>23
  DEF PurgeGuard, SoundJob, Job, Steps, ChunkSteps
<1>24. ASSUME NEW t \in Targets, PurgeTarget(j, t)
      PROVE  job'[j] \in SoundJob
  BY <1>1, <1>24
  DEF PurgeTarget, SoundJob, Job, Steps, ChunkSteps
<1>25. ASSUME NEW t \in Targets, WriteVectors(j, t)
      PROVE  job'[j] \in SoundJob
  BY <1>1, <1>25
  DEF WriteVectors, AfterWrite, Batches, SoundJob, Job, Steps, ChunkSteps
<1>26. ASSUME NEW t \in Targets, WriteVectorsTwice(j, t)
      PROVE  job'[j] \in SoundJob
  BY <1>1, <1>26
  DEF WriteVectorsTwice, AfterWrite, Batches, SoundJob, Job, Steps, ChunkSteps
<1>27. ASSUME NEW t \in Targets, CheckTarget(j, t)
      PROVE  job'[j] \in SoundJob
  BY <1>1, <1>27
  DEF CheckTarget, SoundJob, Job, Steps, ChunkSteps
<1>. QED
  BY <1>2, <1>3, <1>4, <1>5, <1>6, <1>7, <1>8, <1>9, <1>10, <1>11, <1>12, <1>13, <1>14, <1>15, <1>16, <1>17, <1>18, <1>19, <1>20, <1>21, <1>22, <1>23, <1>24, <1>25, <1>26, <1>27, <1>28 DEF IngestStep, Progress

\* The records of the other processes stay as they are.
LEMMA StepKeepsOthers ==
  ASSUME NEW D, job \in [Ingestors -> D], NEW j \in Ingestors, IngestStep(j)
  PROVE  job' = [job EXCEPT ![j] = job'[j]]
<1>1. ASSUME NEW r \in Runs, CreateRun(j, r) \/ ResumeRun(j, r)
      PROVE  job' = [job EXCEPT ![j] = job'[j]]
  BY <1>1 DEF CreateRun, ResumeRun
<1>2. CASE ReadCommitted(j) \/ MarkIngesting(j) \/ CountCommitted(j) \/ BeginChunk(j)
  BY <1>2 DEF ReadCommitted, MarkIngesting, CountCommitted, BeginChunk, Goto
<1>3. CASE NextChunk(j)
  BY <1>3 DEF NextChunk
<1>4. ASSUME NEW dead, FailChunk(j, dead)
      PROVE  job' = [job EXCEPT ![j] = job'[j]]
  BY <1>4 DEF FailChunk
<1>5. CASE GuardRejects(j) \/ ChunkError(j)
  BY <1>4, <1>5, Zenon DEF GuardRejects, ChunkError
<1>6. CASE MarkWriting(j) \/ PurgeMetadataGuard(j) \/ PurgeMetadata(j) \/ WriteMetadata(j)
           \/ CommitChunk(j)
  BY <1>6 DEF MarkWriting, PurgeMetadataGuard, PurgeMetadata, WriteMetadata, CommitChunk, Goto
<1>7. CASE RunVanished(j) \/ LeaveLoop(j) \/ FailRun(j) \/ StartValidation(j)
  BY <1>7 DEF RunVanished, LeaveLoop, FailRun, StartValidation, Goto
<1>8. CASE CheckControlPlane(j)
  BY <1>8 DEF CheckControlPlane
<1>9. CASE RejectRun(j) \/ Activate(j) \/ ActivationRefused(j) \/ Crash(j)
  BY <1>9 DEF RejectRun, Activate, ActivationRefused, Crash
<1>10. ASSUME NEW t \in Targets,
              PurgeGuard(j, t) \/ PurgeTarget(j, t) \/ CheckTarget(j, t)
       PROVE  job' = [job EXCEPT ![j] = job'[j]]
  BY <1>10 DEF PurgeGuard, PurgeTarget, CheckTarget
<1>11. ASSUME NEW t \in Targets, WriteVectors(j, t) \/ WriteVectorsTwice(j, t)
       PROVE  job' = [job EXCEPT ![j] = job'[j]]
  BY <1>11 DEF WriteVectors, WriteVectorsTwice, AfterWrite
<1>. QED
  BY <1>1, <1>2, <1>3, <1>5, <1>6, <1>7, <1>8, <1>9, <1>10, <1>11 DEF IngestStep, Progress

\* Steps keep the type of the store.
LEMMA StepKeepsStoreType ==
  ASSUME IngestInv, NEW j \in Ingestors, IngestStep(j)
  PROVE  StoreTypeOK'
<1>. DEFINE r == job[j].run
            c == job[j].chunk
            b == job[j].batch
<1>1. StoreTypeOK /\ job[j] \in SoundJob
  BY DEF IngestInv
<1>2. r \in Runs \cup {NoRun} /\ b \in 0..BatchesPerChunk
  BY <1>1 DEF SoundJob, Job
<1>3. ASSUME NEW s \in RunStatuses, SetRunStatus(r, s),
             UNCHANGED <<active, ledger, meta, rows, clock>>
      PROVE  StoreTypeOK'
  BY <1>1, <1>3 DEF SetRunStatus, StoreTypeOK
<1>4. ASSUME NEW s \in ChunkStatuses, NEW n \in 0..BatchesPerChunk,
             SetChunkStatus(r, c, s, n),
             UNCHANGED <<status, finishedAt, active, meta, rows, clock>>
      PROVE  StoreTypeOK'
  BY <1>1, <1>4 DEF SetChunkStatus, StoreTypeOK, LedgerRow
<1>5. ASSUME UNCHANGED storeVars
      PROVE  StoreTypeOK'
  BY <1>1, <1>5 DEF storeVars, StoreTypeOK
<1>6. ASSUME NEW q \in Runs, CreateRun(j, q) \/ ResumeRun(j, q)
      PROVE  StoreTypeOK'
  <2>1. CASE CreateRun(j, q)
    BY <1>1, <2>1 DEF CreateRun, StoreTypeOK, RunStatuses
  <2>2. CASE ResumeRun(j, q)
    BY <1>5, <2>2 DEF ResumeRun
  <2>. QED BY <1>6, <2>1, <2>2
<1>7. CASE ReadCommitted(j) \/ CountCommitted(j) \/ NextChunk(j) \/ BeginChunk(j)
           \/ PurgeMetadataGuard(j) \/ RunVanished(j) \/ LeaveLoop(j) \/ CheckControlPlane(j)
           \/ ActivationRefused(j) \/ Crash(j)
  BY <1>5, <1>7, Zenon DEF ReadCommitted, CountCommitted, NextChunk, BeginChunk,
     PurgeMetadataGuard, RunVanished, LeaveLoop, CheckControlPlane, ActivationRefused, Crash
<1>8. CASE MarkIngesting(j) \/ FailRun(j) \/ StartValidation(j) \/ RejectRun(j)
  <2>1. {"ingesting", "failed", "validating"} \subseteq RunStatuses
    BY DEF RunStatuses
  <2>. QED
    BY <1>3, <1>8, <2>1 DEF MarkIngesting, FailRun, StartValidation, RejectRun
<1>9. CASE GuardRejects(j) \/ ChunkError(j) \/ MarkWriting(j) \/ CommitChunk(j)
  <2>1. {"writing", "failed", "committed"} \subseteq ChunkStatuses /\ 0 \in 0..BatchesPerChunk
    BY StoreAssumption DEF ChunkStatuses
  <2>. QED
    BY <1>2, <1>4, <1>9, <2>1
    DEF GuardRejects, ChunkError, FailChunk, MarkWriting, CommitChunk
<1>10. CASE PurgeMetadata(j)
  BY <1>1, <1>10 DEF PurgeMetadataGuard, PurgeMetadata, StoreTypeOK
<1>11. CASE WriteMetadata(j)
  <2>1. <<c, b + 1>> \in Segments
    BY <1>1, <1>11, StoreAssumption
    DEF WriteMetadata, SoundJob, Job, ChunkSteps, Segments, Batches
  <2>. QED
    BY <1>1, <1>11, <2>1 DEF WriteMetadata, StoreTypeOK
<1>12. CASE Activate(j)
  BY <1>1, <1>2, <1>12 DEF Activate, StoreTypeOK, RunStatuses
<1>13. ASSUME NEW t \in Targets, NEW F \in SUBSET Rows,
              rows' = [rows EXCEPT ![r][t] = F],
              UNCHANGED <<status, finishedAt, active, ledger, meta, clock>>
       PROVE  StoreTypeOK'
  BY <1>1, <1>13 DEF StoreTypeOK
<1>14. ASSUME NEW t \in Targets, PurgeGuard(j, t) \/ CheckTarget(j, t)
       PROVE  StoreTypeOK'
  BY <1>5, <1>14, Zenon DEF PurgeGuard, CheckTarget
<1>15. ASSUME NEW t \in Targets, PurgeTarget(j, t)
       PROVE  StoreTypeOK'
  <2>1. PurgeTarget(j, t) => r \in Runs /\ rows[r][t] \in SUBSET Rows
    BY <1>1 DEF PurgeTarget, SoundJob, StoreTypeOK
  <2>2. WithoutIndex(rows[r][t], IndexOf[c]) \in SUBSET Rows
    BY <1>15, <2>1 DEF WithoutIndex
  <2>. QED
    BY <1>13, <1>15, <2>2 DEF PurgeTarget
<1>16. ASSUME NEW t \in Targets, WriteVectors(j, t) \/ WriteVectorsTwice(j, t)
       PROVE  StoreTypeOK'
  <2>1. r \in Runs /\ c \in Chunks /\ b \in Batches
    BY <1>1, <1>16 DEF WriteVectors, WriteVectorsTwice, SoundJob, ChunkSteps
  <2>2. rows[r][t] \in SUBSET Rows
    BY <1>1, <2>1 DEF StoreTypeOK
  <2>3. /\ Upsert(rows[r][t], c, b) \in SUBSET Rows
        /\ Insert(rows[r][t], c, b, 1) \in SUBSET Rows
        /\ Insert(rows[r][t], c, b, 2) \in SUBSET Rows
    BY <2>1, <2>2, RowTypes
  <2>. QED
    BY <1>13, <1>16, <2>3 DEF WriteVectors, WriteVectorsTwice
<1>. QED
  BY <1>6, <1>7, <1>8, <1>9, <1>10, <1>11, <1>12, <1>14, <1>15, <1>16
  DEF IngestStep, Progress

LEMMA InitSound == IngestInit => IngestInv
<1>. SUFFICES ASSUME IngestInit PROVE IngestInv
  OBVIOUS
<1>1. StoreTypeOK
  BY StoreAssumption
  DEF IngestInit, StoreInit, StoreTypeOK, RunStatuses, NoChunkYet, LedgerRow, ChunkStatuses
<1>2. job \in [Ingestors -> SoundJob]
  BY IdleJobSound DEF IngestInit
<1>. QED
  BY <1>1, <1>2, IngestAssumption DEF IngestInit, IngestInv

LEMMA StepSound ==
  ASSUME IngestInv, [IngestNext]_ingestVars
  PROVE  IngestInv'
<1>1. CASE UNCHANGED ingestVars
  BY <1>1 DEF ingestVars, storeVars, jobVars, IngestInv, StoreTypeOK
<1>2. ASSUME NEW j \in Ingestors, IngestStep(j)
      PROVE  IngestInv'
  <2>1. job' \in [Ingestors -> SoundJob]
    BY <1>2, StepReplacesJob, StepKeepsOthers DEF IngestInv
  <2>2. StoreTypeOK'
    BY <1>2, StepKeepsStoreType
  <2>3. crashes' \in 0..MaxCrashes /\ errors' \in 0..MaxErrors /\ ambiguous' \in 0..MaxAmbiguous
    <3>. DEFINE Within == crashes' \in 0..MaxCrashes /\ errors' \in 0..MaxErrors
                          /\ ambiguous' \in 0..MaxAmbiguous
    <3>1. UNCHANGED budgets => Within
      BY DEF IngestInv, budgets
    <3>2. CASE \E t \in Targets : WriteVectorsTwice(j, t)
      BY <3>2, IngestAssumption DEF WriteVectorsTwice, IngestInv
    <3>3. CASE ChunkError(j) \/ Crash(j)
      <4>1. \/ errors < MaxErrors /\ errors' = errors + 1 /\ UNCHANGED <<crashes, ambiguous>>
            \/ crashes < MaxCrashes /\ crashes' = crashes + 1 /\ UNCHANGED <<errors, ambiguous>>
        BY <3>3, Zenon DEF ChunkError, Crash
      <4>. QED
        BY <4>1, IngestAssumption DEF IngestInv
    <3>4. CASE \E r \in Runs : CreateRun(j, r) \/ ResumeRun(j, r)
      BY <3>1, <3>4, Zenon DEF CreateRun, ResumeRun, budgets
    <3>5. CASE Progress(j) /\ ~\E t \in Targets : WriteVectorsTwice(j, t)
      <4>1. UNCHANGED budgets
        BY <3>5, Zenon DEF Progress, ReadCommitted, MarkIngesting, CountCommitted, NextChunk,
           BeginChunk, GuardRejects, PurgeGuard, PurgeTarget, MarkWriting, PurgeMetadataGuard, PurgeMetadata,
           WriteMetadata, WriteVectors, CommitChunk, RunVanished, LeaveLoop, FailRun,
           StartValidation, CheckControlPlane, CheckTarget, RejectRun, Activate,
           ActivationRefused, budgets
      <4>. QED BY <3>1, <4>1
    <3>. QED
      BY <1>2, <3>2, <3>3, <3>4, <3>5 DEF IngestStep
  <2>. QED
    BY <2>1, <2>2, <2>3 DEF IngestInv
<1>. QED
  BY <1>1, <1>2 DEF IngestNext

\* Every reachable state of the ingest is well typed: in particular a process
\* never writes a chunk or a batch outside the manifest.
THEOREM IngestTypeCorrect == IngestSpec => []IngestTypeOK
<1>1. IngestInv => IngestTypeOK
  BY DEF IngestInv, IngestTypeOK, SoundJob
<1>. QED
  BY <1>1, InitSound, StepSound, PTL DEF IngestSpec

-----------------------------------------------------------------------------
(* A completed run is frozen.  The argument is ownership: no two live         *)
(* processes work on the same run, so the status a process last gave its run  *)
(* is still there, and a run with a process on it is not completed.  It needs *)
(* the operator's discipline, ExclusiveResume: the code does not enforce it,  *)
(* and two processes on one run can change it after it is completed.          *)

\* The statuses of a run whose process is at a step.
StatusAt(step) ==
  IF step \in {"resolved", "marking"} THEN {"preflight_passed", "ingesting", "failed"}
  ELSE IF step \in {"validate", "counts", "conclude"} THEN {"validating"}
  ELSE {"ingesting"}

OwnershipInv ==
  /\ \A j \in Ingestors : Live(j) => status[job[j].run] \in StatusAt(job[j].pc)
  /\ \A i, j \in Ingestors : i # j /\ Live(i) /\ Live(j) => job[i].run # job[j].run
  /\ active # NoRun => status[active] = "completed"

\* What process j does while it works on run r: it touches no other run, moves
\* the pointer only to r and only when r is completed, and stays with r.
ConfinedTo(j, r) ==
  /\ \A q \in Runs \ {r} : /\ status'[q] = status[q] /\ finishedAt'[q] = finishedAt[q]
                           /\ ledger'[q] = ledger[q] /\ meta'[q] = meta[q] /\ rows'[q] = rows[q]
  /\ active' # active => active' = r /\ status'[r] = "completed"
  /\ job'[j].pc # "idle" => job'[j].run = r /\ status'[r] \in StatusAt(job'[j].pc)

LEMMA ProgressConfined ==
  ASSUME IngestInv, OwnershipInv, NEW j \in Ingestors, Live(j),
         Progress(j) \/ ChunkError(j) \/ Crash(j)
  PROVE  ConfinedTo(j, job[j].run)
<1>. DEFINE r == job[j].run
<1>1. /\ r \in Runs /\ job \in [Ingestors -> SoundJob] /\ job[j] \in SoundJob
      /\ StoreTypeOK /\ status[r] \in StatusAt(job[j].pc)
  BY DEF IngestInv, OwnershipInv, SoundJob
<1>2. ASSUME UNCHANGED storeVars, NEW p, job'[j].pc = p, job'[j].run = r,
             StatusAt(job[j].pc) = StatusAt(p)
      PROVE  ConfinedTo(j, r)
  BY <1>1, <1>2 DEF ConfinedTo, storeVars
<1>3. ASSUME UNCHANGED storeVars, job'[j] = IdleJob
      PROVE  ConfinedTo(j, r)
  BY <1>1, <1>3 DEF ConfinedTo, storeVars, IdleJob
<1>4. CASE \/ ReadCommitted(j) \/ CountCommitted(j) \/ NextChunk(j) \/ BeginChunk(j)
           \/ LeaveLoop(j) \/ PurgeMetadataGuard(j)
  <2>1. CASE ReadCommitted(j)
    BY <1>1, <1>2, <2>1 DEF ReadCommitted, Goto, StatusAt
  <2>2. CASE CountCommitted(j)
    BY <1>1, <1>2, <2>2 DEF CountCommitted, Goto, StatusAt
  <2>3. CASE NextChunk(j)
    BY <1>1, <1>2, <2>3 DEF NextChunk, Goto, StatusAt
  <2>4. CASE BeginChunk(j)
    BY <1>1, <1>2, <2>4 DEF BeginChunk, Goto, StatusAt
  <2>5. CASE LeaveLoop(j)
    BY <1>1, <1>2, <2>5 DEF LeaveLoop, Goto, StatusAt
  <2>6. CASE PurgeMetadataGuard(j)
    BY <1>1, <1>2, <2>6 DEF PurgeMetadataGuard, Goto, StatusAt
  <2>. QED
    BY <1>4, <2>1, <2>2, <2>3, <2>4, <2>5, <2>6
<1>5. CASE CheckControlPlane(j)
  BY <1>1, <1>2, <1>5 DEF CheckControlPlane, StatusAt
<1>6. CASE RunVanished(j) \/ ActivationRefused(j) \/ Crash(j)
  BY <1>1, <1>3, <1>6, Zenon DEF RunVanished, ActivationRefused, Crash
<1>7. ASSUME NEW t \in Targets, PurgeGuard(j, t) \/ CheckTarget(j, t)
      PROVE  ConfinedTo(j, r)
  <2>1. CASE PurgeGuard(j, t)
    BY <1>1, <1>2, <2>1 DEF PurgeGuard, StatusAt
  <2>2. CASE CheckTarget(j, t)
    <3>1. /\ UNCHANGED storeVars /\ job'[j].run = r
          /\ job[j].pc = "counts" /\ job'[j].pc \in {"counts", "conclude"}
      <4>. DEFINE p == IF job[j].todo = {t} THEN "conclude" ELSE "counts"
                  f == job[j].failed \/ Cardinality(rows[job[j].run][t]) # job[j].total
      <4>1. job' = [job EXCEPT ![j].todo = @ \ {t}, ![j].pc = p, ![j].failed = f]
        BY <2>2, Zenon DEF CheckTarget
      <4>3. p \in {"conclude", "counts"}
        OBVIOUS
      <4>. HIDE DEF p, f
      <4>2. UNCHANGED storeVars /\ job[j].pc = "counts"
        BY <2>2, Zenon DEF CheckTarget
      <4>4. job'[j] = [job[j] EXCEPT !.todo = @ \ {t}, !.pc = p, !.failed = f]
        BY <1>1, <4>1
      <4>5. job'[j].pc = p /\ job'[j].run = r
        BY <1>1, <4>4 DEF SoundJob, Job
      <4>. QED
        BY <4>2, <4>3, <4>5
    <3>2. StatusAt(job[j].pc) = StatusAt(job'[j].pc)
      BY <3>1 DEF StatusAt
    <3>. QED
      BY <1>2, <3>1, <3>2
  <2>. QED
    BY <1>7, <2>1, <2>2
<1>8. RunExists(r)
  BY <1>1 DEF RunExists, StatusAt
<1>9. CASE MarkIngesting(j) \/ StartValidation(j)
  <2>1. CASE MarkIngesting(j)
    BY <1>1, <1>8, <2>1 DEF MarkIngesting, SetRunStatus, Goto,
       ConfinedTo, StatusAt, StoreTypeOK
  <2>2. CASE StartValidation(j)
    BY <1>1, <1>8, <2>2 DEF StartValidation, SetRunStatus, Goto,
       ConfinedTo, StatusAt, StoreTypeOK
  <2>. QED
    BY <1>9, <2>1, <2>2
<1>10. CASE FailRun(j) \/ RejectRun(j) \/ Activate(j)
  <2>1. CASE FailRun(j)
    BY <1>1, <1>8, <2>1 DEF FailRun, SetRunStatus,
       ConfinedTo, StatusAt, StoreTypeOK, IdleJob
  <2>2. CASE RejectRun(j)
    BY <1>1, <1>8, <2>2 DEF RejectRun, SetRunStatus,
       ConfinedTo, StatusAt, StoreTypeOK, IdleJob
  <2>3. CASE Activate(j)
    BY <1>1, <1>8, <2>3 DEF Activate, SetRunStatus,
       ConfinedTo, StatusAt, StoreTypeOK, IdleJob
  <2>. QED
    BY <1>10, <2>1, <2>2, <2>3
<1>11. ASSUME NEW dead, FailChunk(j, dead), job[j].pc \in ChunkSteps
       PROVE  ConfinedTo(j, r)
  BY <1>1, <1>11
  DEF FailChunk, SetChunkStatus, ConfinedTo, StatusAt, StoreTypeOK, ChunkSteps
<1>12. CASE GuardRejects(j) \/ ChunkError(j)
  <2>1. job[j].pc \in ChunkSteps
    BY <1>12, Zenon DEF GuardRejects, ChunkError, ChunkSteps
  <2>. QED
    BY <1>11, <1>12, <2>1, Zenon DEF GuardRejects, ChunkError
<1>13. CASE MarkWriting(j) \/ CommitChunk(j)
  <2>1. /\ job'[j].run = r /\ StatusAt(job'[j].pc) = {"ingesting"} /\ StatusAt(job[j].pc) = {"ingesting"}
        /\ UNCHANGED <<status, finishedAt, active, meta, rows>>
        /\ \A q \in Runs \ {r} : ledger'[q] = ledger[q]
    <3>1. CASE MarkWriting(j)
      BY <1>1, <3>1 DEF MarkWriting, SetChunkStatus, Goto, StatusAt, StoreTypeOK
    <3>2. CASE CommitChunk(j)
      BY <1>1, <3>2 DEF CommitChunk, SetChunkStatus, StatusAt, StoreTypeOK
    <3>. QED
      BY <1>13, <3>1, <3>2
  <2>. QED
    BY <1>1, <2>1 DEF ConfinedTo
<1>14. CASE PurgeMetadata(j) \/ WriteMetadata(j)
  <2>1. /\ job'[j].run = r /\ StatusAt(job'[j].pc) = {"ingesting"} /\ StatusAt(job[j].pc) = {"ingesting"}
        /\ UNCHANGED <<status, finishedAt, active, ledger, rows>>
    <3>1. CASE PurgeMetadata(j)
      BY <1>1, <3>1 DEF PurgeMetadataGuard, PurgeMetadata, Goto, StatusAt
    <3>2. CASE WriteMetadata(j)
      BY <1>1, <3>2 DEF WriteMetadata, StatusAt
    <3>. QED
      BY <1>14, <3>1, <3>2
  <2>2. \A q \in Runs \ {r} : meta'[q] = meta[q]
    BY <1>1, <1>14 DEF PurgeMetadataGuard, PurgeMetadata, WriteMetadata, StoreTypeOK
  <2>. QED
    BY <1>1, <2>1, <2>2 DEF ConfinedTo
<1>15. ASSUME NEW t \in Targets, NEW F, NEW p,
              rows' = [rows EXCEPT ![r][t] = F], job'[j].pc = p, job'[j].run = r,
              UNCHANGED <<status, finishedAt, active, ledger, meta, clock>>,
              StatusAt(job[j].pc) = StatusAt(p)
       PROVE  ConfinedTo(j, r)
  BY <1>1, <1>15 DEF ConfinedTo, StoreTypeOK
<1>16. ASSUME NEW t \in Targets,
              PurgeTarget(j, t) \/ WriteVectors(j, t) \/ WriteVectorsTwice(j, t)
       PROVE  ConfinedTo(j, r)
  <2>1. job'[j].run = r /\ StatusAt(job[j].pc) = StatusAt(job'[j].pc)
    <3>1. CASE PurgeTarget(j, t)
      BY <1>1, <3>1 DEF PurgeTarget, StatusAt
    <3>2. CASE WriteVectors(j, t)
      BY <1>1, <3>2 DEF WriteVectors, AfterWrite, StatusAt
    <3>3. CASE WriteVectorsTwice(j, t)
      BY <1>1, <3>3 DEF WriteVectorsTwice, AfterWrite, StatusAt
    <3>. QED
      BY <1>16, <3>1, <3>2, <3>3
  <2>2. /\ \E F : rows' = [rows EXCEPT ![r][t] = F]
        /\ UNCHANGED <<status, finishedAt, active, ledger, meta, clock>>
    BY <1>16, Zenon DEF PurgeTarget, WriteVectors, WriteVectorsTwice
  <2>. QED
    BY <1>15, <2>1, <2>2
<1>. QED
  BY <1>4, <1>5, <1>6, <1>7, <1>9, <1>10, <1>12, <1>13, <1>14, <1>16 DEF Progress

\* A process that takes one of its own steps is alive.
LEMMA WorkingIsLive ==
  ASSUME NEW j \in Ingestors, Progress(j) \/ ChunkError(j) \/ Crash(j)
  PROVE  Live(j)
BY Zenon DEF Crash, ChunkError, ChunkSteps, Progress, ReadCommitted, MarkIngesting,
   CountCommitted, NextChunk, BeginChunk, GuardRejects, PurgeGuard, PurgeTarget, MarkWriting,
   PurgeMetadataGuard, PurgeMetadata, WriteMetadata, WriteVectors, WriteVectorsTwice,
   CommitChunk, RunVanished, LeaveLoop, FailRun, StartValidation, CheckControlPlane,
   CheckTarget, RejectRun, Activate, ActivationRefused

\* A step starts work on a run nobody works on, or continues with its own.
LEMMA StepConfined ==
  ASSUME ExclusiveResume, IngestInv, OwnershipInv, NEW j \in Ingestors, IngestStep(j)
  PROVE  \E r \in Runs : /\ status[r] # "completed"
                         /\ ConfinedTo(j, r)
                         /\ \A i \in Ingestors \ {j} : Live(i) => job[i].run # r
                         /\ \/ Live(j) /\ r = job[j].run
                            \/ status[r] = "none" \/ ResumeRun(j, r)
<1>1. /\ job \in [Ingestors -> SoundJob] /\ StoreTypeOK
      /\ \A i \in Ingestors : Live(i) => job[i].run \in Runs
  BY DEF IngestInv, SoundJob
<1>2. ASSUME NEW r \in Runs, CreateRun(j, r)
      PROVE  /\ status[r] = "none" /\ ConfinedTo(j, r)
  <2>1. status[r] = "none" /\ status' = [status EXCEPT ![r] = "preflight_passed"]
    BY <1>2 DEF CreateRun, NewRun
  <2>2. /\ job'[j].pc = "marking" /\ job'[j].run = r
        /\ UNCHANGED <<finishedAt, active, ledger, meta, rows>>
    BY <1>1, <1>2 DEF CreateRun, IdleJob
  <2>. QED
    BY <1>1, <2>1, <2>2 DEF ConfinedTo, StatusAt, StoreTypeOK
<1>3. ASSUME NEW r \in Runs, ResumeRun(j, r)
      PROVE  /\ status[r] \in {"preflight_passed", "ingesting", "failed"}
             /\ ConfinedTo(j, r) /\ ~WorkedOn(r)
  <2>1. status[r] \in {"preflight_passed", "ingesting", "failed"} /\ ~WorkedOn(r)
    BY <1>3 DEF ResumeRun, Resumable
  <2>2. job'[j].pc = "resolved" /\ job'[j].run = r /\ UNCHANGED storeVars
    BY <1>1, <1>3 DEF ResumeRun, IdleJob
  <2>. QED
    BY <2>1, <2>2 DEF ConfinedTo, StatusAt, storeVars
<1>4. CASE \E r \in Runs : CreateRun(j, r)
  <2>1. PICK r \in Runs : CreateRun(j, r)
    BY <1>4
  <2>2. \A i \in Ingestors : Live(i) => status[job[i].run] # "none"
    BY DEF OwnershipInv, StatusAt
  <2>. QED
    BY <1>2, <2>1, <2>2
<1>5. CASE \E r \in Runs : ResumeRun(j, r)
  BY <1>3, <1>5 DEF WorkedOn
<1>6. CASE Progress(j) \/ ChunkError(j) \/ Crash(j)
  <2>1. Live(j)
    BY <1>6, WorkingIsLive
  <2>2. status[job[j].run] # "completed"
    BY <2>1 DEF OwnershipInv, StatusAt
  <2>. QED
    BY <1>1, <1>6, <2>1, <2>2, ProgressConfined DEF OwnershipInv
<1>. QED
  BY <1>4, <1>5, <1>6 DEF IngestStep

LEMMA OwnershipKept ==
  ASSUME ExclusiveResume, IngestInv, OwnershipInv, [IngestNext]_ingestVars
  PROVE  OwnershipInv'
<1>1. CASE UNCHANGED ingestVars
  BY <1>1 DEF ingestVars, storeVars, jobVars, OwnershipInv
<1>2. ASSUME NEW j \in Ingestors, IngestStep(j)
      PROVE  OwnershipInv'
  <2>1. PICK r \in Runs : /\ status[r] # "completed"
                          /\ ConfinedTo(j, r)
                          /\ \A i \in Ingestors \ {j} : Live(i) => job[i].run # r
    BY <1>2, StepConfined
  <2>2. \A i \in Ingestors \ {j} : job'[i] = job[i]
    BY <1>2, StepKeepsOthers DEF IngestInv
  <2>3. \A i \in Ingestors : Live(i) => job[i].run \in Runs
    BY DEF IngestInv, SoundJob
  <2>4. active \in Runs \cup {NoRun}
    BY DEF IngestInv, StoreTypeOK
  <2>5. \A i \in Ingestors : Live(i)' => (status[job[i].run] \in StatusAt(job[i].pc))'
    BY <2>1, <2>2, <2>3 DEF OwnershipInv, ConfinedTo
  <2>6. \A i, k \in Ingestors : i # k /\ Live(i)' /\ Live(k)' => (job[i].run # job[k].run)'
    BY <2>1, <2>2 DEF OwnershipInv, ConfinedTo
  <2>7. active' # NoRun => status'[active'] = "completed"
    BY <2>1, <2>4 DEF OwnershipInv, ConfinedTo
  <2>. QED
    BY <2>5, <2>6, <2>7 DEF OwnershipInv
<1>. QED
  BY <1>1, <1>2 DEF IngestNext

LEMMA OwnershipInit == IngestInit => OwnershipInv
BY DEF IngestInit, StoreInit, OwnershipInv, IdleJob

\* As long as no run is resumed under a live process, completed runs are
\* frozen: retries, cleanups and finalization never reach the active run or a
\* rollback target.
THEOREM CompletedRunsFrozen ==
  ASSUME ExclusiveResume PROVE IngestSpec => CompletedFrozen
<1>. DEFINE Frozen == \A r \in Runs : status[r] = "completed" =>
              /\ status'[r] \in {"completed", "deleted"}
              /\ status'[r] = "completed" =>
                   /\ ledger'[r] = ledger[r] /\ meta'[r] = meta[r] /\ rows'[r] = rows[r]
<1>1. ASSUME IngestInv, OwnershipInv, [IngestNext]_ingestVars
      PROVE  [Frozen]_ingestVars
  <2>1. ASSUME NEW j \in Ingestors, IngestStep(j)
        PROVE  Frozen
    BY <1>1, <2>1, StepConfined DEF ConfinedTo
  <2>. QED
    BY <1>1, <2>1 DEF IngestNext
<1>. HIDE DEF Frozen
<1>2. IngestSpec => [][Frozen]_ingestVars
  BY <1>1, InitSound, StepSound, OwnershipInit, OwnershipKept, PTL DEF IngestSpec
<1>. QED
  BY <1>2 DEF CompletedFrozen, Frozen
-----------------------------------------------------------------------------
(* What a process knows of its run.  The safety invariants of the ingest are  *)
(* not inductive: that a chunk is stored when the ledger says so, and that    *)
(* the counts of finalize_run mean what they are taken for, depends on what   *)
(* the process that owns the run has already done.  Three strengthenings, one *)
(* for the ledger, one for duplicates, one for lost rows, say it per run and  *)
(* per process; a step disturbs only its own run's part (StepConfined).       *)

InLoop == ChunkSteps \cup {"next"}

\* CommittedChunks as a function of the ledger rows of one run.
CommittedIn(L) == {c \in Chunks : L[c].status = "committed"}

\* The ledger of a run nobody has created is empty, and a committed chunk
\* expects all its batches.
LedgerRun(r) ==
  /\ status[r] = "none" => ledger[r] = NoChunkYet
  /\ \A c \in CommittedIn(ledger[r]) : ledger[r][c].expected = BatchesPerChunk

\* All counts of run r, as far as the process has taken them, are the total.
CountsAgree(j) ==
  LET r == job[j].run
      counted == IF job[j].pc = "counts" THEN Targets \ job[j].todo ELSE Targets
  IN  /\ Cardinality(meta[r]) = job[j].total
      /\ \A t \in counted : Cardinality(rows[r][t]) = job[j].total

\* Process j against its run's ledger: chunks are skipped only if committed; the
\* chunk in progress is not committed; the process that has not failed leaves no
\* chunk behind; total_segments counts the committed batches.
LedgerJob(j) ==
  LET k == job[j]
      C == CommittedIn(ledger[job[j].run])
  IN  /\ k.pc # "resolved" => k.skip \subseteq C
      /\ k.pc \in {"resolved", "marking", "counting"} =>
           k.chunk = 0 /\ ~k.failed /\ ~k.exhausted
      /\ k.pc \in {"marking", "counting"} => k.skip = C
      /\ k.pc = "next" => \A c \in C \ k.skip : c <= k.chunk
      /\ k.pc \in ChunkSteps => \A c \in C \ k.skip : c < k.chunk
      /\ k.pc \in ChunkSteps => k.chunk \notin k.skip
      /\ k.pc \in InLoop /\ ~k.failed => ~k.exhausted
      /\ k.pc = "next" /\ ~k.failed => \A c \in Chunks : c <= k.chunk => c \in C
      /\ k.pc \in ChunkSteps /\ ~k.failed => \A c \in Chunks : c < k.chunk => c \in C
      /\ k.pc = "commit" => k.batch = BatchesPerChunk
      /\ k.pc \in InLoop \cup {"close", "validate", "counts", "conclude"} =>
           k.total = Cardinality(C \X Batches)
      /\ k.pc = "close" /\ ~k.failed => C = Chunks
      /\ k.pc \in {"validate", "counts", "conclude"} => C = Chunks
      /\ k.pc \in {"counts", "conclude"} /\ ~k.failed => CountsAgree(j)

LedgerInv ==
  /\ \A r \in Runs : LedgerRun(r)
  /\ \A j \in Ingestors : Live(j) => LedgerJob(j)

\* Table S has no row of batch b of chunk c.
Lacks(S, c, b) == CopiesOf(S, c, b) = {}

\* No vector table holds a second copy, and one nobody has created holds none.
OnceRun(r) ==
  /\ status[r] = "none" => \A t \in Targets : rows[r][t] = {}
  /\ \A t \in Targets : rows[r][t] \subseteq Chunks \X Batches \X {1}

\* Process j finds no row of what it is about to write: begin_chunk has removed
\* the chunk from every table it has passed, and nobody else writes to the run.
OnceJob(j) ==
  LET k == job[j]
      S(t) == rows[k.run][t]
  IN  /\ \A t, u \in k.cleared : t = u
      /\ k.pc = "purge" =>
           \A t \in Targets \ (k.todo \cup k.cleared), b \in Batches : Lacks(S(t), k.chunk, b)
      /\ k.pc \in {"mark", "purgeMeta", "wipeMeta"} =>
           \A t \in Targets, b \in Batches : Lacks(S(t), k.chunk, b)
      /\ k.pc \in {"meta", "vectors"} =>
           \A t \in Targets, b \in Batches : b > k.batch => Lacks(S(t), k.chunk, b)
      /\ k.pc = "vectors" => \A t \in k.todo : Lacks(S(t), k.chunk, k.batch)

OnceInv ==
  /\ \A r \in Runs : OnceRun(r)
  /\ \A j \in Ingestors : Live(j) => OnceJob(j)

\* Batch b of chunk c is in the metadata, and in table t, of run r.
InMeta(r, c, b) == <<c, b>> \in meta[r]
InTable(r, t, c, b) == <<c, b, 1>> \in rows[r][t]

\* Committed chunks are whole, and the first copy of a row goes last.
IntactRun(r) ==
  /\ \A c \in CommittedIn(ledger[r]), b \in Batches :
       InMeta(r, c, b) /\ \A t \in Targets : InTable(r, t, c, b)
  /\ \A t \in Targets : \A x \in rows[r][t] : InTable(r, t, x[1], x[2])

\* Process j has stored every batch of its chunk before the current one, and the
\* current one as far as it has come.
IntactJob(j) ==
  LET k == job[j]
  IN  k.pc \in {"meta", "vectors", "commit"} =>
        \A b \in Batches : b <= k.batch =>
          /\ InMeta(k.run, k.chunk, b)
          /\ \A t \in Targets :
               k.pc # "vectors" \/ b < k.batch \/ t \notin k.todo => InTable(k.run, t, k.chunk, b)

IntactInv ==
  /\ \A r \in Runs : IntactRun(r)
  /\ \A j \in Ingestors : Live(j) => IntactJob(j)

\* The record of process j after each step of it, field by field.
LEMMA FieldsOutside ==
  ASSUME IngestInv, NEW j \in Ingestors
  PROVE  LET k == job[j]
             n == job'[j]
         IN  /\ ReadCommitted(j) =>
                  /\ n.pc = "marking" /\ n.run = k.run /\ n.skip = CommittedChunks(k.run)
                  /\ n.chunk = k.chunk /\ n.failed = k.failed /\ n.exhausted = k.exhausted
                  /\ n.cleared = k.cleared
             /\ MarkIngesting(j) =>
                  /\ n.pc = "counting" /\ n.run = k.run /\ n.skip = k.skip
                  /\ n.chunk = k.chunk /\ n.failed = k.failed /\ n.exhausted = k.exhausted
                  /\ n.cleared = k.cleared
             /\ CountCommitted(j) =>
                  /\ n.pc = "next" /\ n.run = k.run /\ n.skip = k.skip
                  /\ n.chunk = k.chunk /\ n.failed = k.failed /\ n.exhausted = k.exhausted
                  /\ n.total = CommittedTotal(k.run) /\ n.cleared = k.cleared
             /\ LeaveLoop(j) =>
                  /\ n.pc = "close" /\ n.run = k.run /\ n.skip = k.skip
                  /\ n.failed = k.failed /\ n.total = k.total /\ n.cleared = k.cleared
             /\ StartValidation(j) =>
                  /\ n.pc = "validate" /\ n.run = k.run /\ n.skip = k.skip /\ n.total = k.total
                  /\ n.cleared = k.cleared
             /\ CheckControlPlane(j) =>
                  /\ n.pc = "counts" /\ n.run = k.run /\ n.skip = k.skip /\ n.total = k.total
                  /\ n.todo = Targets /\ n.cleared = k.cleared
                  /\ ~n.failed => Cardinality(meta[k.run]) = k.total
             /\ \A t \in Targets : CheckTarget(j, t) =>
                  /\ n.run = k.run /\ n.skip = k.skip /\ n.total = k.total
                  /\ n.todo = k.todo \ {t} /\ n.cleared = k.cleared
                  /\ n.pc = IF k.todo = {t} THEN "conclude" ELSE "counts"
                  /\ ~n.failed => ~k.failed /\ Cardinality(rows[k.run][t]) = k.total
<1>. DEFINE k == job[j]
            n == job'[j]
<1>1. job \in [Ingestors -> SoundJob] /\ k \in Job
  BY DEF IngestInv, SoundJob
<1>2. ASSUME ReadCommitted(j)
      PROVE  /\ n.pc = "marking" /\ n.run = k.run /\ n.skip = CommittedChunks(k.run)
             /\ n.chunk = k.chunk /\ n.failed = k.failed /\ n.exhausted = k.exhausted
             /\ n.cleared = k.cleared
  BY <1>1, <1>2 DEF ReadCommitted, Job
<1>3. ASSUME MarkIngesting(j)
      PROVE  /\ n.pc = "counting" /\ n.run = k.run /\ n.skip = k.skip
             /\ n.chunk = k.chunk /\ n.failed = k.failed /\ n.exhausted = k.exhausted
             /\ n.cleared = k.cleared
  BY <1>1, <1>3 DEF MarkIngesting, Goto, Job
<1>4. ASSUME CountCommitted(j)
      PROVE  /\ n.pc = "next" /\ n.run = k.run /\ n.skip = k.skip
             /\ n.chunk = k.chunk /\ n.failed = k.failed /\ n.exhausted = k.exhausted
             /\ n.total = CommittedTotal(k.run) /\ n.cleared = k.cleared
  BY <1>1, <1>4 DEF CountCommitted, Job
<1>5. ASSUME LeaveLoop(j)
      PROVE  /\ n.pc = "close" /\ n.run = k.run /\ n.skip = k.skip
             /\ n.failed = k.failed /\ n.total = k.total /\ n.cleared = k.cleared
  BY <1>1, <1>5 DEF LeaveLoop, Goto, Job
<1>6. ASSUME StartValidation(j)
      PROVE  /\ n.pc = "validate" /\ n.run = k.run /\ n.skip = k.skip /\ n.total = k.total
             /\ n.cleared = k.cleared
  BY <1>1, <1>6 DEF StartValidation, Goto, Job
<1>7. ASSUME CheckControlPlane(j)
      PROVE  /\ n.pc = "counts" /\ n.run = k.run /\ n.skip = k.skip /\ n.total = k.total
             /\ n.todo = Targets /\ n.cleared = k.cleared
             /\ ~n.failed => Cardinality(meta[k.run]) = k.total
  BY <1>1, <1>7 DEF CheckControlPlane, Job
<1>8. ASSUME NEW t \in Targets, CheckTarget(j, t)
      PROVE  /\ n.run = k.run /\ n.skip = k.skip /\ n.total = k.total
             /\ n.todo = k.todo \ {t} /\ n.cleared = k.cleared
             /\ n.pc = IF k.todo = {t} THEN "conclude" ELSE "counts"
             /\ ~n.failed => ~k.failed /\ Cardinality(rows[k.run][t]) = k.total
  <2>. DEFINE p == IF k.todo = {t} THEN "conclude" ELSE "counts"
              f == k.failed \/ Cardinality(rows[k.run][t]) # k.total
  <2>1. job' = [job EXCEPT ![j].todo = @ \ {t}, ![j].pc = p, ![j].failed = f]
    BY <1>8, Zenon DEF CheckTarget
  <2>. HIDE DEF p, f
  <2>2. /\ n.run = k.run /\ n.skip = k.skip /\ n.total = k.total
        /\ n.todo = k.todo \ {t} /\ n.cleared = k.cleared /\ n.pc = p /\ n.failed = f
    BY <1>1, <2>1 DEF Job
  <2>. QED
    BY <2>2, Zenon DEF p, f
<1>. QED
  BY <1>2, <1>3, <1>4, <1>5, <1>6, <1>7, <1>8, Zenon

LEMMA FieldsInLoop ==
  ASSUME IngestInv, NEW j \in Ingestors
  PROVE  LET k == job[j]
             n == job'[j]
         IN  /\ NextChunk(j) =>
                  /\ n.pc = "check" /\ n.run = k.run /\ n.skip = k.skip /\ n.total = k.total
                  /\ n.failed = k.failed /\ n.exhausted = k.exhausted /\ n.cleared = k.cleared
                  /\ n.chunk \in Unseen(j) /\ \A d \in Unseen(j) : n.chunk <= d
             /\ BeginChunk(j) =>
                  /\ n.pc = "purge" /\ n.run = k.run /\ n.chunk = k.chunk
                  /\ n.todo = Targets /\ n.cleared = k.cleared
             /\ \A t \in Targets : PurgeGuard(j, t) =>
                  /\ n.pc = "purge" /\ n.run = k.run /\ n.chunk = k.chunk
                  /\ n.todo = k.todo \ {t} /\ n.cleared = {t}
             /\ \A t \in Targets : PurgeTarget(j, t) =>
                  /\ n.pc = IF k.todo = {} THEN "mark" ELSE "purge"
                  /\ n.run = k.run /\ n.chunk = k.chunk
                  /\ n.todo = k.todo /\ n.cleared = {}
             /\ MarkWriting(j) =>
                  /\ n.pc = "purgeMeta" /\ n.run = k.run /\ n.chunk = k.chunk
                  /\ n.cleared = k.cleared
             /\ PurgeMetadataGuard(j) =>
                  /\ n.pc = "wipeMeta" /\ n.run = k.run /\ n.chunk = k.chunk
                  /\ n.cleared = k.cleared
             /\ PurgeMetadata(j) =>
                  /\ n.pc = "meta" /\ n.run = k.run /\ n.chunk = k.chunk
                  /\ n.batch = k.batch /\ n.cleared = k.cleared
             /\ WriteMetadata(j) =>
                  /\ n.pc = "vectors" /\ n.run = k.run /\ n.chunk = k.chunk
                  /\ n.batch = k.batch + 1 /\ n.todo = Targets /\ n.cleared = k.cleared
             /\ \A t \in Targets : AfterWrite(j, t) =>
                  /\ n.run = k.run /\ n.chunk = k.chunk /\ n.batch = k.batch
                  /\ n.todo = k.todo \ {t} /\ n.cleared = k.cleared
                  /\ n.pc = IF k.todo # {t} THEN "vectors"
                            ELSE IF k.batch < BatchesPerChunk THEN "meta" ELSE "commit"
             /\ CommitChunk(j) =>
                  /\ n.pc = "next" /\ n.run = k.run /\ n.skip = k.skip /\ n.chunk = k.chunk
                  /\ n.total = k.total + k.batch /\ n.cleared = k.cleared
                  /\ n.failed = k.failed /\ n.exhausted = k.exhausted
             /\ \A dead \in BOOLEAN : FailChunk(j, dead) =>
                  /\ n.pc \in {"next", "close"} /\ n.run = k.run /\ n.skip = k.skip
                  /\ n.chunk = k.chunk /\ n.total = k.total /\ n.failed /\ n.cleared = {}
<1>. DEFINE k == job[j]
            n == job'[j]
<1>1. job \in [Ingestors -> SoundJob] /\ k \in Job
  BY DEF IngestInv, SoundJob
<1>2. ASSUME NextChunk(j)
      PROVE  /\ n.pc = "check" /\ n.run = k.run /\ n.skip = k.skip /\ n.total = k.total
             /\ n.failed = k.failed /\ n.exhausted = k.exhausted /\ n.cleared = k.cleared
             /\ n.chunk \in Unseen(j) /\ \A d \in Unseen(j) : n.chunk <= d
  <2>1. PICK c \in Unseen(j) : /\ \A d \in Unseen(j) : c <= d
                               /\ job' = [job EXCEPT ![j].pc = "check", ![j].chunk = c]
    BY <1>2 DEF NextChunk
  <2>. QED
    BY <1>1, <2>1 DEF Job
<1>3. ASSUME BeginChunk(j)
      PROVE  /\ n.pc = "purge" /\ n.run = k.run /\ n.chunk = k.chunk
             /\ n.todo = Targets /\ n.cleared = k.cleared
  BY <1>1, <1>3 DEF BeginChunk, Job
<1>4. ASSUME NEW t \in Targets, PurgeGuard(j, t)
      PROVE  /\ n.pc = "purge" /\ n.run = k.run /\ n.chunk = k.chunk
             /\ n.todo = k.todo \ {t} /\ n.cleared = {t}
  BY <1>1, <1>4 DEF PurgeGuard, Job
<1>5. ASSUME NEW t \in Targets, PurgeTarget(j, t)
      PROVE  /\ n.pc = IF k.todo = {} THEN "mark" ELSE "purge"
             /\ n.run = k.run /\ n.chunk = k.chunk
             /\ n.todo = k.todo /\ n.cleared = {}
  BY <1>1, <1>5 DEF PurgeTarget, Job
<1>6. ASSUME MarkWriting(j)
      PROVE  /\ n.pc = "purgeMeta" /\ n.run = k.run /\ n.chunk = k.chunk
             /\ n.cleared = k.cleared
  BY <1>1, <1>6 DEF MarkWriting, Goto, Job
<1>12. ASSUME PurgeMetadataGuard(j)
      PROVE  /\ n.pc = "wipeMeta" /\ n.run = k.run /\ n.chunk = k.chunk
             /\ n.cleared = k.cleared
  BY <1>1, <1>12 DEF PurgeMetadataGuard, Goto, Job
<1>7. ASSUME PurgeMetadata(j)
      PROVE  /\ n.pc = "meta" /\ n.run = k.run /\ n.chunk = k.chunk
             /\ n.batch = k.batch /\ n.cleared = k.cleared
  BY <1>1, <1>7 DEF PurgeMetadata, Goto, Job
<1>8. ASSUME WriteMetadata(j)
      PROVE  /\ n.pc = "vectors" /\ n.run = k.run /\ n.chunk = k.chunk
             /\ n.batch = k.batch + 1 /\ n.todo = Targets /\ n.cleared = k.cleared
  BY <1>1, <1>8 DEF WriteMetadata, Job
<1>9. ASSUME NEW t \in Targets, AfterWrite(j, t)
      PROVE  /\ n.run = k.run /\ n.chunk = k.chunk /\ n.batch = k.batch
             /\ n.todo = k.todo \ {t} /\ n.cleared = k.cleared
             /\ n.pc = IF k.todo # {t} THEN "vectors"
                       ELSE IF k.batch < BatchesPerChunk THEN "meta" ELSE "commit"
  BY <1>1, <1>9 DEF AfterWrite, Job
<1>10. ASSUME CommitChunk(j)
       PROVE  /\ n.pc = "next" /\ n.run = k.run /\ n.skip = k.skip /\ n.chunk = k.chunk
              /\ n.total = k.total + k.batch /\ n.cleared = k.cleared
              /\ n.failed = k.failed /\ n.exhausted = k.exhausted
  BY <1>1, <1>10 DEF CommitChunk, Job
<1>11. ASSUME NEW dead \in BOOLEAN, FailChunk(j, dead)
       PROVE  /\ n.pc \in {"next", "close"} /\ n.run = k.run /\ n.skip = k.skip
              /\ n.chunk = k.chunk /\ n.total = k.total /\ n.failed /\ n.cleared = {}
  BY <1>1, <1>11 DEF FailChunk, Job
<1>. QED
  BY <1>2, <1>3, <1>4, <1>5, <1>6, <1>7, <1>8, <1>9, <1>10, <1>11, <1>12, Zenon

\* A rejected or failing chunk goes to the handler.
LEMMA FailureEffect ==
  ASSUME NEW j \in Ingestors, GuardRejects(j) \/ ChunkError(j)
  PROVE  job[j].pc \in ChunkSteps /\ \E dead \in BOOLEAN : FailChunk(j, dead)
<1>1. job[j].pc \in ChunkSteps
  BY Zenon DEF GuardRejects, ChunkError, ChunkSteps
<1>2. FALSE \in BOOLEAN /\ {FALSE, At(j, "meta") /\ ~FailOnVideoError} \subseteq BOOLEAN
  OBVIOUS
<1>. QED
  BY <1>1, <1>2, Zenon DEF GuardRejects, ChunkError

\* The steps after which a process is gone.
LEMMA LastSteps ==
  ASSUME IngestInv, NEW j \in Ingestors,
         \/ RunVanished(j) \/ FailRun(j) \/ RejectRun(j) \/ Activate(j)
         \/ ActivationRefused(j) \/ Crash(j)
  PROVE  job'[j] = IdleJob
BY DEF IngestInv, RunVanished, FailRun, RejectRun, Activate, ActivationRefused, Crash

-----------------------------------------------------------------------------
(* The ledger.                                                                *)

LEMMA OneChunkMore ==
  ASSUME NEW C \in SUBSET Chunks, NEW c \in Chunks \ C
  PROVE  Cardinality((C \cup {c}) \X Batches) = Cardinality(C \X Batches) + BatchesPerChunk
<1>1. IsFiniteSet(Batches) /\ IsFiniteSet(Chunks) /\ Cardinality(Batches) = BatchesPerChunk
  <2>1. NumChunks \in Nat /\ BatchesPerChunk \in Nat /\ BatchesPerChunk > 0 /\ 1 \in Int
    BY StoreAssumption
  <2>2. /\ IsFiniteSet(1..NumChunks) /\ IsFiniteSet(1..BatchesPerChunk)
        /\ Cardinality(1..BatchesPerChunk) = BatchesPerChunk - 1 + 1
    BY <2>1, FS_Interval
  <2>. QED
    BY <2>1, <2>2 DEF Batches, Chunks
<1>2. IsFiniteSet(C) /\ IsFiniteSet({c}) /\ Cardinality({c}) = 1
  BY <1>1, FS_Subset, FS_Singleton
<1>3. /\ IsFiniteSet(C \X Batches) /\ IsFiniteSet({c} \X Batches)
      /\ Cardinality({c} \X Batches) = Cardinality({c}) * Cardinality(Batches)
  BY <1>1, <1>2, FS_Product
<1>4. Cardinality({c} \X Batches) = BatchesPerChunk
  <2>1. 1 * BatchesPerChunk = BatchesPerChunk
    BY StoreAssumption
  <2>. QED
    BY <1>1, <1>2, <1>3, <2>1
<1>5. /\ (C \cup {c}) \X Batches = (C \X Batches) \cup ({c} \X Batches)
      /\ (C \X Batches) \cap ({c} \X Batches) = {}
  OBVIOUS
<1>6. /\ Cardinality((C \X Batches) \cup ({c} \X Batches))
         = Cardinality(C \X Batches) + BatchesPerChunk - Cardinality({})
      /\ Cardinality(C \X Batches) \in Nat
  BY <1>3, <1>4, <1>5, FS_Union, FS_CardinalityType
<1>7. Cardinality({}) = 0
  BY FS_EmptySet
<1>8. Cardinality((C \cup {c}) \X Batches)
        = Cardinality(C \X Batches) + BatchesPerChunk - Cardinality({})
  BY <1>5, <1>6
<1>. DEFINE n == Cardinality(C \X Batches)
<1>9. n \in Nat /\ BatchesPerChunk \in Nat
  BY <1>6, StoreAssumption
<1>. HIDE DEF n
<1>. QED
  BY <1>7, <1>8, <1>9 DEF n

\* While committed chunks expect all their batches, sum(expected_segments) is
\* the number of batches of the committed chunks.
LEMMA TotalIsCount ==
  ASSUME NEW r \in Runs, LedgerRun(r)
  PROVE  CommittedTotal(r) = Cardinality(CommittedIn(ledger[r]) \X Batches)
<1>. DEFINE T == {s \in Segments : s[1] \in CommittedChunks(r) /\ s[2] <= ledger[r][s[1]].expected}
            C == CommittedIn(ledger[r])
<1>1. \A c \in C : c \in Chunks /\ ledger[r][c].expected = BatchesPerChunk
  BY DEF LedgerRun, CommittedIn
<1>2. \A b \in Batches : b <= BatchesPerChunk
  BY StoreAssumption DEF Batches
<1>. HIDE DEF C
<1>3. T = C \X Batches
  BY <1>1, <1>2 DEF Segments, C, CommittedIn, CommittedChunks
<1>. QED
  BY <1>3 DEF CommittedTotal, C, CommittedChunks, CommittedIn

\* What the three kinds of ledger rows do to the set of committed chunks.
LEMMA LedgerAfter ==
  ASSUME StoreTypeOK, NEW r \in Runs, NEW c \in Chunks, NEW s, NEW n,
         SetChunkStatus(r, c, s, n), LedgerRun(r), status' = status
  PROVE  /\ s = "committed" => CommittedIn(ledger'[r]) = CommittedIn(ledger[r]) \cup {c}
         /\ s # "committed" /\ c \notin CommittedIn(ledger[r]) =>
              CommittedIn(ledger'[r]) = CommittedIn(ledger[r])
         /\ s # "committed" \/ n = BatchesPerChunk => LedgerRun(r)'
<1>1. /\ ledger' = [ledger EXCEPT ![r][c] = [status |-> s, expected |-> n]]
      /\ RunExists(r)
  BY DEF SetChunkStatus
<1>2. ledger \in [Runs -> [Chunks -> LedgerRow]]
  BY DEF StoreTypeOK
<1>3. ledger'[r][c].status = s /\ ledger'[r][c].expected = n
  BY <1>1, <1>2
<1>4. \A d \in Chunks \ {c} : ledger'[r][d] = ledger[r][d]
  BY <1>1, <1>2
<1>. QED
  BY <1>1, <1>3, <1>4 DEF LedgerRun, CommittedIn, RunExists

\* A step of a process leaves the ledger alone or writes the row of the chunk in
\* progress.
LEMMA LedgerEffect ==
  ASSUME NEW j \in Ingestors, IngestStep(j)
  PROVE  \/ UNCHANGED ledger
         \/ /\ job[j].pc \in ChunkSteps /\ UNCHANGED status
            /\ \E s \in {"writing", "failed"} : SetChunkStatus(job[j].run, job[j].chunk, s, 0)
         \/ /\ job[j].pc = "commit" /\ UNCHANGED status
            /\ SetChunkStatus(job[j].run, job[j].chunk, "committed", job[j].batch)
<1>1. CASE GuardRejects(j) \/ ChunkError(j)
  <2>1. job[j].pc \in ChunkSteps
    BY <1>1, FailureEffect
  <2>. QED
    BY <1>1, <2>1, Zenon DEF GuardRejects, ChunkError, FailChunk
<1>2. CASE MarkWriting(j) \/ CommitChunk(j)
  BY <1>2 DEF MarkWriting, CommitChunk, ChunkSteps
<1>3. CASE Progress(j) /\ ~GuardRejects(j) /\ ~MarkWriting(j) /\ ~CommitChunk(j)
  BY <1>3, Zenon DEF Progress, ReadCommitted, MarkIngesting, CountCommitted, NextChunk,
     BeginChunk, PurgeGuard, PurgeTarget, PurgeMetadataGuard, PurgeMetadata, WriteMetadata, WriteVectors,
     WriteVectorsTwice, RunVanished, LeaveLoop, FailRun, StartValidation, CheckControlPlane,
     CheckTarget, RejectRun, Activate, ActivationRefused, storeVars
<1>4. CASE Crash(j) \/ \E r \in Runs : CreateRun(j, r) \/ ResumeRun(j, r)
  BY <1>4, Zenon DEF Crash, CreateRun, ResumeRun, storeVars
<1>. QED
  BY <1>1, <1>2, <1>3, <1>4 DEF IngestStep

\* Only Activate completes a run, and no step of a process deletes one.
LEMMA StatusMoves ==
  ASSUME StoreTypeOK, NEW j \in Ingestors, IngestStep(j), NEW q \in Runs,
         status'[q] # status[q]
  PROVE  \/ status'[q] \in {"preflight_passed", "ingesting", "validating", "failed"}
         \/ Activate(j) /\ q = job[j].run /\ status'[q] = "completed"
<1>1. status \in [Runs -> RunStatuses]
  BY DEF StoreTypeOK
<1>2. ASSUME NEW r, NEW s \in {"ingesting", "validating", "failed"}, SetRunStatus(r, s)
      PROVE  status'[q] \in {"ingesting", "validating", "failed"}
  BY <1>1, <1>2 DEF SetRunStatus
<1>3. CASE MarkIngesting(j) \/ FailRun(j) \/ StartValidation(j) \/ RejectRun(j)
  BY <1>2, <1>3 DEF MarkIngesting, FailRun, StartValidation, RejectRun
<1>4. CASE \E r \in Runs : CreateRun(j, r)
  <2>1. PICK r : status' = [status EXCEPT ![r] = "preflight_passed"]
    BY <1>4, Zenon DEF CreateRun
  <2>. QED
    BY <1>1, <2>1
<1>5. CASE Activate(j)
  <2>1. status' = [status EXCEPT ![job[j].run] = "completed"]
    BY <1>5, Zenon DEF Activate
  <2>. QED
    BY <1>1, <1>5, <2>1
<1>6. CASE /\ Progress(j) \/ ChunkError(j) \/ Crash(j) \/ \E r \in Runs : ResumeRun(j, r)
           /\ ~(MarkIngesting(j) \/ FailRun(j) \/ StartValidation(j) \/ RejectRun(j) \/ Activate(j))
  <2>1. status' = status
    BY <1>6, Zenon DEF Progress, ReadCommitted, CountCommitted, NextChunk, ResumeRun, Crash,
       ChunkError, GuardRejects, FailChunk, MarkWriting, CommitChunk, SetChunkStatus,
       BeginChunk, PurgeGuard, PurgeTarget, PurgeMetadataGuard, PurgeMetadata, WriteMetadata, WriteVectors,
       WriteVectorsTwice, RunVanished, LeaveLoop, CheckControlPlane,
       CheckTarget, ActivationRefused, storeVars
  <2>. QED BY <2>1
<1>. QED
  BY <1>3, <1>4, <1>5, <1>6 DEF IngestStep

\* A run that exists does not become one nobody has created.
LEMMA StatusStays ==
  ASSUME StoreTypeOK, NEW j \in Ingestors, IngestStep(j), NEW q \in Runs, status'[q] = "none"
  PROVE  status[q] = "none"
BY StatusMoves

LEMMA StepKeepsLedgerRun ==
  ASSUME IngestInv, LedgerInv, NEW j \in Ingestors, IngestStep(j), NEW q \in Runs
  PROVE  LedgerRun(q)'
<1>1. /\ StoreTypeOK /\ job[j] \in SoundJob /\ LedgerRun(q)
      /\ status'[q] = "none" => status[q] = "none"
  BY StatusStays DEF IngestInv, LedgerInv
<1>2. CASE UNCHANGED ledger
  BY <1>1, <1>2 DEF LedgerRun, CommittedIn
<1>3. ASSUME NEW s, NEW n, SetChunkStatus(job[j].run, job[j].chunk, s, n), UNCHANGED status,
             job[j].pc \in ChunkSteps, s # "committed" \/ n = BatchesPerChunk
      PROVE  LedgerRun(q)'
  <2>1. job[j].run \in Runs /\ job[j].chunk \in Chunks
    BY <1>1, <1>3 DEF SoundJob, ChunkSteps
  <2>2. CASE q = job[j].run
    BY <1>1, <1>3, <2>1, <2>2, LedgerAfter
  <2>3. CASE q # job[j].run
    <3>1. ledger'[q] = ledger[q]
      BY <1>1, <1>3, <2>3 DEF SetChunkStatus, StoreTypeOK
    <3>. QED
      BY <1>1, <1>3, <3>1 DEF LedgerRun, CommittedIn
  <2>. QED
    BY <2>2, <2>3
<1>4. job[j].pc = "commit" => job[j].batch = BatchesPerChunk
  BY DEF LedgerInv, LedgerJob
<1>. QED
  BY <1>2, <1>3, <1>4, LedgerEffect DEF ChunkSteps

\* A process that goes on after a step still knows its run's ledger.
LEMMA StepKeepsLedgerJob ==
  ASSUME IngestInv, LedgerInv, NEW j \in Ingestors, IngestStep(j), job'[j].pc # "idle"
  PROVE  LedgerJob(j)'
<1>. DEFINE k == job[j]
            n == job'[j]
            C == CommittedIn(ledger[k.run])
            D == CommittedIn(ledger'[n.run])
<1>1. /\ StoreTypeOK /\ k \in SoundJob /\ job \in [Ingestors -> SoundJob]
      /\ k.pc # "idle" => k.run \in Runs /\ LedgerJob(j) /\ LedgerRun(k.run)
  BY DEF IngestInv, LedgerInv, SoundJob
<1>2. CommittedChunks(k.run) = C
  BY DEF CommittedChunks, CommittedIn
<1>3. C \subseteq Chunks
  BY DEF CommittedIn
<1>4. ASSUME NEW r \in Runs, CreateRun(j, r)
      PROVE  LedgerJob(j)'
  <2>1. status[r] = "none" /\ UNCHANGED ledger
    BY <1>4 DEF CreateRun, NewRun
  <2>2. /\ n.pc = "marking" /\ n.run = r /\ n.skip = {} /\ n.chunk = 0
        /\ ~n.failed /\ ~n.exhausted
    BY <1>1, <1>4 DEF CreateRun, IdleJob
  <2>3. CommittedIn(ledger[r]) = {}
    BY <2>1 DEF CommittedIn, LedgerInv, LedgerRun, NoChunkYet
  <2>. QED
    BY <1>2, <2>1, <2>2, <2>3 DEF LedgerJob, InLoop, ChunkSteps
<1>5. ASSUME NEW r \in Runs, ResumeRun(j, r)
      PROVE  LedgerJob(j)'
  <2>1. n.pc = "resolved" /\ n.chunk = 0 /\ ~n.failed /\ ~n.exhausted
    BY <1>1, <1>5 DEF ResumeRun, IdleJob
  <2>. QED
    BY <2>1 DEF LedgerJob, InLoop, ChunkSteps
<1>6. CASE ReadCommitted(j) \/ MarkIngesting(j)
  <2>1. k.pc \in {"resolved", "marking"} /\ UNCHANGED ledger
    BY <1>6 DEF ReadCommitted, MarkIngesting, storeVars
  <2>2. n.pc \in {"marking", "counting"} /\ n.run = k.run /\ n.skip = C
        /\ n.chunk = 0 /\ ~n.failed /\ ~n.exhausted
    BY <1>1, <1>2, <1>6, <2>1, FieldsOutside DEF LedgerJob, ReadCommitted, MarkIngesting
  <2>. QED
    BY <1>2, <2>1, <2>2 DEF LedgerJob, InLoop, ChunkSteps
<1>7. CASE CountCommitted(j)
  <2>1. k.pc = "counting" /\ UNCHANGED ledger
    BY <1>7 DEF CountCommitted, storeVars
  <2>2. k.skip = C /\ k.chunk = 0 /\ ~k.failed /\ ~k.exhausted
    BY <1>1, <2>1 DEF LedgerJob
  <2>3. CommittedTotal(k.run) = Cardinality(C \X Batches)
    BY <1>1, <2>1, TotalIsCount
  <2>4. \A c \in Chunks : ~(c <= 0)
    BY StoreAssumption DEF Chunks
  <2>. QED
    BY <1>2, <1>7, <2>1, <2>2, <2>3, <2>4, FieldsOutside DEF LedgerJob, InLoop, ChunkSteps
<1>8. CASE NextChunk(j)
  <2>1. k.pc = "next" /\ UNCHANGED ledger
    BY <1>8 DEF NextChunk, storeVars
  <2>2. /\ n.pc = "check" /\ n.run = k.run /\ n.skip = k.skip /\ n.total = k.total
        /\ n.failed = k.failed /\ n.exhausted = k.exhausted
        /\ n.chunk \in Unseen(j) /\ \A d \in Unseen(j) : n.chunk <= d
    BY <1>8, FieldsInLoop
  <2>3. /\ k.skip \subseteq C /\ \A c \in C \ k.skip : c <= k.chunk
        /\ ~k.failed => ~k.exhausted /\ \A c \in Chunks : c <= k.chunk => c \in C
        /\ k.total = Cardinality(C \X Batches)
    BY <1>1, <2>1 DEF LedgerJob, InLoop
  <2>4. n.chunk \in Chunks \ k.skip /\ n.chunk > k.chunk
    BY <2>2 DEF Unseen
  <2>5. k.chunk \in Nat /\ n.chunk \in Nat /\ \A c \in Chunks : c \in Nat
    BY <1>1, <2>4, StoreAssumption DEF SoundJob, Job, Chunks
  <2>6. \A c \in C \ k.skip : c < n.chunk
    BY <1>3, <2>3, <2>4, <2>5
  <2>7. ASSUME ~k.failed, NEW c \in Chunks, c < n.chunk
        PROVE  c \in C
    <3>1. c \notin Unseen(j)
      BY <2>2, <2>5, <2>7
    <3>. QED
      BY <2>3, <2>5, <2>7, <3>1 DEF Unseen
  <2>. QED
    BY <1>2, <2>1, <2>2, <2>3, <2>4, <2>6, <2>7 DEF LedgerJob, InLoop, ChunkSteps
<1>9. ASSUME k.pc \in ChunkSteps, n.pc \in ChunkSteps, D = C, n.run = k.run,
             n.skip = k.skip, n.chunk = k.chunk, n.total = k.total, n.failed = k.failed,
             n.exhausted = k.exhausted, n.pc = "commit" => n.batch = BatchesPerChunk
      PROVE  LedgerJob(j)'
  BY <1>1, <1>9 DEF LedgerJob, InLoop, ChunkSteps
<1>10. ASSUME k.pc \in ChunkSteps, UNCHANGED ledger,
              \/ BeginChunk(j) \/ PurgeMetadataGuard(j) \/ PurgeMetadata(j) \/ WriteMetadata(j)
              \/ \E t \in Targets : PurgeGuard(j, t) \/ PurgeTarget(j, t) \/ AfterWrite(j, t)
       PROVE  LedgerJob(j)'
  <2>1. /\ n.run = k.run /\ n.skip = k.skip /\ n.chunk = k.chunk /\ n.total = k.total
        /\ n.failed = k.failed /\ n.exhausted = k.exhausted
    <3>1. CASE BeginChunk(j) \/ PurgeMetadataGuard(j) \/ PurgeMetadata(j) \/ WriteMetadata(j)
      BY <1>1, <3>1 DEF SoundJob, Job, BeginChunk, PurgeMetadataGuard, PurgeMetadata, WriteMetadata, Goto
    <3>2. ASSUME NEW t \in Targets, PurgeGuard(j, t) \/ PurgeTarget(j, t) \/ AfterWrite(j, t)
          PROVE  /\ n.run = k.run /\ n.skip = k.skip /\ n.chunk = k.chunk /\ n.total = k.total
                 /\ n.failed = k.failed /\ n.exhausted = k.exhausted
      BY <1>1, <3>2 DEF SoundJob, Job, PurgeGuard, PurgeTarget, AfterWrite
    <3>. QED
      BY <1>10, <3>1, <3>2
  <2>2. k.batch \in 0..BatchesPerChunk /\ BatchesPerChunk \in Nat
    BY <1>1, StoreAssumption DEF SoundJob, Job
  <2>3. n.pc \in ChunkSteps /\ (n.pc = "commit" => n.batch = BatchesPerChunk)
    BY <1>10, <2>2, FieldsInLoop DEF ChunkSteps
  <2>. QED
    BY <1>2, <1>9, <1>10, <2>1, <2>3
<1>11. CASE MarkWriting(j)
  <2>1. /\ k.pc = "mark" /\ n.pc = "purgeMeta" /\ UNCHANGED status
        /\ SetChunkStatus(k.run, k.chunk, "writing", 0)
    BY <1>11, FieldsInLoop DEF MarkWriting
  <2>2. /\ n.run = k.run /\ n.skip = k.skip /\ n.chunk = k.chunk /\ n.total = k.total
        /\ n.failed = k.failed /\ n.exhausted = k.exhausted
    BY <1>1, <1>11 DEF MarkWriting, Goto, SoundJob, Job
  <2>3. k.chunk \in Chunks /\ k.chunk \notin C
    BY <1>1, <2>1, StoreAssumption DEF SoundJob, ChunkSteps, LedgerJob, Chunks
  <2>4. D = C
    BY <1>1, <2>1, <2>2, <2>3, LedgerAfter
  <2>. QED
    BY <1>9, <2>1, <2>2, <2>4 DEF ChunkSteps
<1>12. CASE CommitChunk(j)
  <2>1. /\ k.pc = "commit" /\ UNCHANGED status
        /\ SetChunkStatus(k.run, k.chunk, "committed", k.batch)
    BY <1>12 DEF CommitChunk
  <2>2. /\ n.pc = "next" /\ n.run = k.run /\ n.skip = k.skip /\ n.chunk = k.chunk
        /\ n.total = k.total + k.batch /\ n.failed = k.failed /\ n.exhausted = k.exhausted
    BY <1>12, FieldsInLoop
  <2>3. /\ k.chunk \in Chunks /\ k.chunk \notin C /\ k.skip \subseteq C
        /\ \A c \in C \ k.skip : c < k.chunk
        /\ ~k.failed => ~k.exhausted /\ \A c \in Chunks : c < k.chunk => c \in C
        /\ k.total = Cardinality(C \X Batches) /\ k.batch = BatchesPerChunk
    BY <1>1, <2>1, StoreAssumption DEF SoundJob, ChunkSteps, InLoop, LedgerJob, Chunks
  <2>4. D = C \cup {k.chunk}
    BY <1>1, <2>1, <2>2, <2>3, LedgerAfter
  <2>5. n.total = Cardinality(D \X Batches)
    BY <1>3, <2>2, <2>3, <2>4, OneChunkMore
  <2>6. \A c \in Chunks : c \in Nat
    BY StoreAssumption DEF Chunks
  <2>7. \A c \in D \ n.skip : c <= n.chunk
    BY <1>3, <2>2, <2>3, <2>4, <2>6
  <2>8. ~n.failed => \A c \in Chunks : c <= n.chunk => c \in D
    BY <2>2, <2>3, <2>4, <2>6
  <2>. QED
    BY <2>2, <2>3, <2>4, <2>5, <2>7, <2>8 DEF LedgerJob, InLoop, ChunkSteps
<1>13. ASSUME NEW dead \in BOOLEAN, FailChunk(j, dead), k.pc \in ChunkSteps
       PROVE  LedgerJob(j)'
  <2>1. /\ UNCHANGED status /\ SetChunkStatus(k.run, k.chunk, "failed", 0)
        /\ n.pc \in {"next", "close"} /\ n.run = k.run /\ n.skip = k.skip
        /\ n.chunk = k.chunk /\ n.total = k.total /\ n.failed
    <3>1. UNCHANGED status /\ SetChunkStatus(k.run, k.chunk, "failed", 0)
      BY <1>13 DEF FailChunk
    <3>. QED
      BY <1>13, <3>1, FieldsInLoop
  <2>2. /\ k.chunk \in Chunks /\ k.chunk \notin C /\ k.skip \subseteq C
        /\ \A c \in C \ k.skip : c < k.chunk
        /\ k.total = Cardinality(C \X Batches)
    BY <1>1, <1>13, StoreAssumption DEF SoundJob, ChunkSteps, InLoop, LedgerJob, Chunks
  <2>3. D = C
    BY <1>1, <1>13, <2>1, <2>2, LedgerAfter DEF ChunkSteps
  <2>4. \A c \in Chunks : c \in Nat
    BY StoreAssumption DEF Chunks
  <2>5. \A c \in D \ n.skip : c <= n.chunk
    BY <1>3, <2>1, <2>2, <2>3, <2>4
  <2>. QED
    BY <2>1, <2>2, <2>3, <2>5 DEF LedgerJob, InLoop, ChunkSteps
<1>14. CASE GuardRejects(j) \/ ChunkError(j)
  <2>1. k.pc \in ChunkSteps
    BY <1>14, FailureEffect
  <2>2. PICK dead \in BOOLEAN : FailChunk(j, dead)
    BY <1>14, FailureEffect
  <2>. QED
    BY <1>13, <2>1, <2>2
<1>15. CASE LeaveLoop(j)
  <2>1. k.pc = "next" /\ Unseen(j) = {} /\ UNCHANGED ledger
    BY <1>15 DEF LeaveLoop, storeVars
  <2>2. /\ k.skip \subseteq C /\ k.total = Cardinality(C \X Batches)
        /\ ~k.failed => ~k.exhausted /\ \A c \in Chunks : c <= k.chunk => c \in C
    BY <1>1, <2>1 DEF LedgerJob, InLoop
  <2>3. k.chunk \in Nat /\ \A c \in Chunks : c \in Nat
    BY <1>1, StoreAssumption DEF SoundJob, Job, Chunks
  <2>4. ~k.failed => C = Chunks
    <3>1. ASSUME ~k.failed, NEW c \in Chunks
          PROVE  c \in C
      BY <2>1, <2>2, <2>3, <3>1 DEF Unseen
    <3>. QED
      BY <1>3, <3>1
  <2>. QED
    BY <1>2, <1>15, <2>1, <2>2, <2>4, FieldsOutside DEF LedgerJob, InLoop, ChunkSteps
<1>16. CASE StartValidation(j)
  <2>1. k.pc = "close" /\ ~k.failed /\ UNCHANGED ledger
    BY <1>16 DEF StartValidation
  <2>2. k.skip \subseteq C /\ C = Chunks /\ k.total = Cardinality(C \X Batches)
    BY <1>1, <2>1 DEF LedgerJob
  <2>. QED
    BY <1>2, <1>16, <2>1, <2>2, FieldsOutside DEF LedgerJob, InLoop, ChunkSteps
<1>17. CASE CheckControlPlane(j)
  <2>1. k.pc = "validate" /\ UNCHANGED <<ledger, meta, rows>>
    BY <1>17 DEF CheckControlPlane, storeVars
  <2>2. k.skip \subseteq C /\ C = Chunks /\ k.total = Cardinality(C \X Batches)
    BY <1>1, <2>1 DEF LedgerJob
  <2>. QED
    BY <1>2, <1>17, <2>1, <2>2, FieldsOutside DEF LedgerJob, CountsAgree, InLoop, ChunkSteps
<1>18. ASSUME NEW t \in Targets, CheckTarget(j, t)
       PROVE  LedgerJob(j)'
  <2>1. k.pc = "counts" /\ t \in k.todo /\ UNCHANGED <<ledger, meta, rows>>
    BY <1>18, Zenon DEF CheckTarget, storeVars
  <2>2. /\ k.skip \subseteq C /\ C = Chunks /\ k.total = Cardinality(C \X Batches)
        /\ ~k.failed => CountsAgree(j)
    BY <1>1, <2>1 DEF LedgerJob
  <2>3. /\ n.run = k.run /\ n.skip = k.skip /\ n.total = k.total
        /\ n.todo = k.todo \ {t}
        /\ n.pc = IF k.todo = {t} THEN "conclude" ELSE "counts"
        /\ ~n.failed => ~k.failed /\ Cardinality(rows[k.run][t]) = k.total
    BY <1>18, FieldsOutside
  <2>4. ~n.failed => CountsAgree(j)'
    BY <2>1, <2>2, <2>3 DEF CountsAgree
  <2>. QED
    BY <1>2, <2>1, <2>2, <2>3, <2>4 DEF LedgerJob, InLoop, ChunkSteps
<1>19. CASE \/ RunVanished(j) \/ FailRun(j) \/ RejectRun(j) \/ Activate(j)
            \/ ActivationRefused(j) \/ Crash(j)
  <2>1. n = IdleJob
    BY <1>19, LastSteps
  <2>. QED
    BY <2>1 DEF IdleJob
<1>20. CASE \/ BeginChunk(j) \/ PurgeMetadataGuard(j) \/ PurgeMetadata(j) \/ WriteMetadata(j)
            \/ \E t \in Targets : \/ PurgeGuard(j, t) \/ PurgeTarget(j, t)
                                  \/ WriteVectors(j, t) \/ WriteVectorsTwice(j, t)
  <2>1. k.pc \in ChunkSteps /\ UNCHANGED ledger
    BY <1>20, Zenon DEF BeginChunk, PurgeMetadataGuard, PurgeMetadata, WriteMetadata, PurgeGuard, PurgeTarget,
       WriteVectors, WriteVectorsTwice, ChunkSteps, storeVars
  <2>2. \/ BeginChunk(j) \/ PurgeMetadataGuard(j) \/ PurgeMetadata(j) \/ WriteMetadata(j)
        \/ \E t \in Targets : PurgeGuard(j, t) \/ PurgeTarget(j, t) \/ AfterWrite(j, t)
    BY <1>20, Zenon DEF WriteVectors, WriteVectorsTwice
  <2>. QED
    BY <1>10, <2>1, <2>2
<1>. QED
  BY <1>4, <1>5, <1>6, <1>7, <1>8, <1>11, <1>12, <1>14, <1>15, <1>16, <1>17, <1>18, <1>19,
     <1>20 DEF IngestStep, Progress

\* The ledger as the processes know it survives every step of the ingest.
LEMMA LedgerKept ==
  ASSUME ExclusiveResume, IngestInv, OwnershipInv, LedgerInv, NEW j \in Ingestors, IngestStep(j)
  PROVE  LedgerInv'
<1>1. PICK r \in Runs : /\ ConfinedTo(j, r)
                        /\ \A i \in Ingestors \ {j} : Live(i) => job[i].run # r
  BY StepConfined
<1>2. \A i \in Ingestors \ {j} : job'[i] = job[i]
  BY StepKeepsOthers DEF IngestInv
<1>3. ASSUME NEW i \in Ingestors \ {j}, Live(i)'
      PROVE  LedgerJob(i)'
  <2>1. job'[i] = job[i] /\ LedgerJob(i) /\ job[i].run \in Runs \ {r}
    BY <1>1, <1>2, <1>3 DEF LedgerInv, IngestInv, SoundJob
  <2>2. LET q == job[i].run
        IN  /\ ledger'[q] = ledger[q]
            /\ meta'[q] = meta[q] /\ rows'[q] = rows[q]
    BY <1>1, <2>1 DEF ConfinedTo
  <2>. QED
    BY <2>1, <2>2 DEF LedgerJob, CountsAgree
<1>. QED
  BY <1>3, StepKeepsLedgerRun, StepKeepsLedgerJob DEF LedgerInv

-----------------------------------------------------------------------------
(* Duplicates.  With no insert sent twice (MaxAmbiguous = 0) a process only   *)
(* writes rows its tables lack, so every row stays the first copy.            *)

\* An append to a table without the row is an upsert.
LEMMA InsertIntoEmpty ==
  ASSUME NEW S, NEW c, NEW b, Lacks(S, c, b)
  PROVE  Insert(S, c, b, 1) = Upsert(S, c, b)
<1>1. Cardinality(CopiesOf(S, c, b)) = 0
  BY FS_EmptySet DEF Lacks
<1>2. {i \in Copies : 0 < i /\ i <= 0 + 1} = {1}
  BY StoreAssumption DEF Copies
<1>3. Insert(S, c, b, 1) = S \cup {<<c, b, k>> : k \in {i \in Copies : 0 < i /\ i <= 0 + 1}}
  BY <1>1 DEF Insert
<1>. QED
  BY <1>2, <1>3 DEF Upsert

\* A write of batch b of chunk c changes what is stored of no other batch.
LEMMA UpsertLacks ==
  ASSUME NEW S, NEW c, NEW b, NEW d, NEW e, Lacks(S, d, e), d # c \/ e # b
  PROVE  Lacks(Upsert(S, c, b), d, e)
BY DEF Lacks, CopiesOf, Upsert

LEMMA WithoutIndexLacks ==
  ASSUME NEW S, NEW c, NEW b
  PROVE  Lacks(WithoutIndex(S, IndexOf[c]), c, b)
BY DEF Lacks, CopiesOf, WithoutIndex

\* How a step changes the tables.
LEMMA RowsEffect ==
  ASSUME MaxAmbiguous = 0, IngestInv, OnceInv, NEW j \in Ingestors, IngestStep(j)
  PROVE  \/ UNCHANGED rows
         \/ \E t \in Targets :
              /\ PurgeTarget(j, t)
              /\ rows' = [rows EXCEPT ![job[j].run][t] =
                            WithoutIndex(@, IndexOf[job[j].chunk])]
         \/ \E t \in Targets :
              /\ WriteVectors(j, t)
              /\ rows' = [rows EXCEPT ![job[j].run][t] = Upsert(@, job[j].chunk, job[j].batch)]
<1>1. ASSUME NEW t \in Targets, WriteVectorsTwice(j, t)
      PROVE  FALSE
  BY <1>1 DEF WriteVectorsTwice, IngestInv
<1>2. ASSUME NEW t \in Targets, WriteVectors(j, t)
      PROVE  rows' = [rows EXCEPT ![job[j].run][t] = Upsert(@, job[j].chunk, job[j].batch)]
  <2>1. job[j].pc = "vectors" /\ t \in job[j].todo
    BY <1>2 DEF WriteVectors
  <2>2. Lacks(rows[job[j].run][t], job[j].chunk, job[j].batch)
    BY <2>1 DEF OnceInv, OnceJob
  <2>. QED
    BY <1>2, <2>2, InsertIntoEmpty DEF WriteVectors
<1>3. ASSUME NEW t \in Targets, PurgeTarget(j, t)
      PROVE  rows' = [rows EXCEPT ![job[j].run][t] = WithoutIndex(@, IndexOf[job[j].chunk])]
  BY <1>3, Zenon DEF PurgeTarget
<1>4. CASE \/ /\ Progress(j)
              /\ ~\E t \in Targets : \/ PurgeTarget(j, t) \/ WriteVectors(j, t)
                                     \/ WriteVectorsTwice(j, t)
           \/ ChunkError(j) \/ Crash(j) \/ \E r \in Runs : CreateRun(j, r) \/ ResumeRun(j, r)
  BY <1>4, Zenon DEF Progress, ReadCommitted, MarkIngesting, CountCommitted, NextChunk,
     BeginChunk, PurgeGuard, GuardRejects, ChunkError, FailChunk, MarkWriting, CommitChunk,
     PurgeMetadataGuard, PurgeMetadata, WriteMetadata, RunVanished, LeaveLoop, FailRun, StartValidation,
     CheckControlPlane, CheckTarget, RejectRun, Activate, ActivationRefused, Crash, CreateRun,
     ResumeRun, storeVars
<1>. QED
  BY <1>1, <1>2, <1>3, <1>4 DEF IngestStep

LEMMA StepKeepsOnceRun ==
  ASSUME MaxAmbiguous = 0, IngestInv, OnceInv, NEW j \in Ingestors, IngestStep(j),
         job[j].pc # "idle" => status[job[j].run] # "none", NEW q \in Runs
  PROVE  OnceRun(q)'
<1>1. /\ StoreTypeOK /\ job[j] \in SoundJob /\ OnceRun(q)
      /\ status'[q] = "none" => status[q] = "none"
  BY StatusStays DEF IngestInv, OnceInv
<1>2. CASE UNCHANGED rows
  BY <1>1, <1>2 DEF OnceRun
<1>3. ASSUME NEW t \in Targets, NEW F \in SUBSET (Chunks \X Batches \X {1}),
             rows' = [rows EXCEPT ![job[j].run][t] = F], job[j].pc # "idle"
      PROVE  OnceRun(q)'
  <2>1. \A u \in Targets : rows'[q][u] = IF q = job[j].run /\ u = t THEN F ELSE rows[q][u]
    BY <1>1, <1>3 DEF StoreTypeOK
  <2>. QED
    BY <1>1, <1>3, <2>1 DEF OnceRun
<1>4. ASSUME NEW t \in Targets, PurgeTarget(j, t),
             rows' = [rows EXCEPT ![job[j].run][t] = WithoutIndex(@, IndexOf[job[j].chunk])]
      PROVE  OnceRun(q)'
  <2>1. job[j].pc = "purge" /\ job[j].run \in Runs
    BY <1>1, <1>4 DEF PurgeTarget, SoundJob
  <2>2. WithoutIndex(rows[job[j].run][t], IndexOf[job[j].chunk]) \in SUBSET (Chunks \X Batches \X {1})
    BY <2>1 DEF WithoutIndex, OnceInv, OnceRun
  <2>. QED
    BY <1>3, <1>4, <2>1, <2>2
<1>5. ASSUME NEW t \in Targets, WriteVectors(j, t),
             rows' = [rows EXCEPT ![job[j].run][t] = Upsert(@, job[j].chunk, job[j].batch)]
      PROVE  OnceRun(q)'
  <2>1. /\ job[j].pc = "vectors" /\ job[j].run \in Runs
        /\ job[j].chunk \in Chunks /\ job[j].batch \in Batches
    BY <1>1, <1>5 DEF WriteVectors, SoundJob, ChunkSteps
  <2>2. Upsert(rows[job[j].run][t], job[j].chunk, job[j].batch) \in SUBSET (Chunks \X Batches \X {1})
    BY <2>1 DEF Upsert, OnceInv, OnceRun
  <2>. QED
    BY <1>3, <1>5, <2>1, <2>2
<1>. QED
  BY <1>2, <1>4, <1>5, RowsEffect

\* A process that goes on after a step still writes into tables that lack the rows.
LEMMA StepKeepsOnceJob ==
  ASSUME MaxAmbiguous = 0, IngestInv, OnceInv, NEW j \in Ingestors, IngestStep(j), job'[j].pc # "idle"
  PROVE  OnceJob(j)'
<1>. DEFINE k == job[j]
            n == job'[j]
            Writing == {"purge", "mark", "purgeMeta", "wipeMeta", "meta", "vectors"}
            S(t) == rows[k.run][t]
            T(t) == rows'[k.run][t]
<1>1. /\ rows \in [Runs -> [Targets -> SUBSET Rows]] /\ job \in [Ingestors -> SoundJob]
      /\ k \in SoundJob /\ k.cleared \subseteq Targets
      /\ k.pc # "idle" => k.run \in Runs /\ OnceJob(j)
  BY DEF IngestInv, StoreTypeOK, OnceInv, SoundJob, Job
<1>2. ASSUME n.pc \notin Writing, \A t, u \in n.cleared : t = u
      PROVE  OnceJob(j)'
  BY <1>2 DEF OnceJob
<1>3. CASE \E r \in Runs : CreateRun(j, r) \/ ResumeRun(j, r)
  <2>1. n.pc \in {"marking", "resolved"} /\ n.cleared = {}
    <3>1. PICK r \in Runs : CreateRun(j, r) \/ ResumeRun(j, r)
      BY <1>3
    <3>. QED
      BY <1>1, <3>1 DEF CreateRun, ResumeRun, IdleJob
  <2>. QED
    BY <1>2, <2>1
<1>4. ASSUME k.pc # "idle", n.pc \notin Writing, n.cleared \in {k.cleared, {}}
      PROVE  OnceJob(j)'
  BY <1>1, <1>2, <1>4 DEF OnceJob
<1>5. CASE \/ ReadCommitted(j) \/ MarkIngesting(j) \/ CountCommitted(j) \/ LeaveLoop(j)
           \/ StartValidation(j) \/ CheckControlPlane(j) \/ \E t \in Targets : CheckTarget(j, t)
  <2>1. k.pc # "idle"
    BY <1>5, Zenon DEF ReadCommitted, MarkIngesting, CountCommitted, LeaveLoop, StartValidation,
       CheckControlPlane, CheckTarget
  <2>2. n.pc \notin Writing /\ n.cleared = k.cleared
    BY <1>5, FieldsOutside
  <2>. QED
    BY <1>4, <2>1, <2>2
<1>6. CASE NextChunk(j) \/ CommitChunk(j)
  <2>1. k.pc # "idle"
    BY <1>6 DEF NextChunk, CommitChunk
  <2>2. n.pc \notin Writing /\ n.cleared = k.cleared
    BY <1>6, FieldsInLoop
  <2>. QED
    BY <1>4, <2>1, <2>2
<1>7. CASE GuardRejects(j) \/ ChunkError(j)
  <2>1. PICK dead \in BOOLEAN : FailChunk(j, dead)
    BY <1>7, FailureEffect
  <2>2. n.pc \in {"next", "close"} /\ n.cleared = {}
    BY <2>1, FieldsInLoop
  <2>. QED
    BY <1>2, <2>2
<1>8. CASE \/ RunVanished(j) \/ FailRun(j) \/ RejectRun(j) \/ Activate(j)
           \/ ActivationRefused(j) \/ Crash(j)
  <2>1. n = IdleJob
    BY <1>8, LastSteps
  <2>. QED
    BY <2>1 DEF IdleJob
<1>9. CASE BeginChunk(j)
  <2>1. k.pc = "check"
    BY <1>9 DEF BeginChunk
  <2>2. n.pc = "purge" /\ n.todo = Targets /\ n.cleared = k.cleared
    BY <1>9, FieldsInLoop
  <2>. QED
    BY <1>1, <2>1, <2>2 DEF OnceJob
<1>10. ASSUME NEW t \in Targets, PurgeGuard(j, t)
       PROVE  OnceJob(j)'
  <2>1. k.pc = "purge" /\ k.cleared = {} /\ UNCHANGED rows
    BY <1>10 DEF PurgeGuard, storeVars
  <2>2. /\ n.pc = "purge" /\ n.run = k.run /\ n.chunk = k.chunk
        /\ n.todo = k.todo \ {t} /\ n.cleared = {t}
    BY <1>10, FieldsInLoop
  <2>3. \A u \in Targets \ k.todo, b \in Batches : Lacks(S(u), k.chunk, b)
    BY <1>1, <2>1 DEF OnceJob
  <2>. QED
    BY <2>1, <2>2, <2>3 DEF OnceJob
<1>11. ASSUME NEW t \in Targets, PurgeTarget(j, t)
       PROVE  OnceJob(j)'
  <2>1. /\ k.pc = "purge" /\ t \in k.cleared /\ k.run \in Runs
        /\ rows' = [rows EXCEPT ![k.run][t] = WithoutIndex(@, IndexOf[k.chunk])]
    BY <1>1, <1>11, Zenon DEF PurgeTarget
  <2>2. /\ n.pc \in {"mark", "purge"}
        /\ n.pc = "mark" => k.todo = {}
        /\ n.run = k.run /\ n.chunk = k.chunk /\ n.todo = k.todo /\ n.cleared = {}
    BY <1>11, FieldsInLoop
  <2>3. k.cleared = {t}
    BY <1>1, <2>1 DEF OnceJob
  <2>4. \A u \in Targets \ {t} : T(u) = S(u)
    BY <1>1, <2>1
  <2>5. T(t) = WithoutIndex(S(t), IndexOf[k.chunk])
    BY <1>1, <2>1
  <2>6. \A u \in Targets \ (k.todo \cup {t}), b \in Batches : Lacks(S(u), k.chunk, b)
    BY <1>1, <2>1, <2>3 DEF OnceJob
  <2>. HIDE DEF S, T
  <2>7. \A u \in Targets \ k.todo, b \in Batches : Lacks(T(u), k.chunk, b)
    BY <2>4, <2>5, <2>6, WithoutIndexLacks
  <2>8. \A u, v \in {} : u = v
    OBVIOUS
  <2>9. CASE n.pc = "purge"
    BY <2>2, <2>7, <2>9 DEF OnceJob, T
  <2>10. CASE n.pc = "mark"
    BY <2>2, <2>7, <2>10 DEF OnceJob, T
  <2>. QED
    BY <2>2, <2>9, <2>10
<1>12. CASE MarkWriting(j) \/ PurgeMetadataGuard(j) \/ PurgeMetadata(j)
  <2>1. k.pc \in {"mark", "purgeMeta", "wipeMeta"} /\ UNCHANGED rows
    BY <1>12 DEF MarkWriting, PurgeMetadataGuard, PurgeMetadata, storeVars
  <2>2. /\ n.pc \in {"purgeMeta", "wipeMeta", "meta"} /\ n.run = k.run /\ n.chunk = k.chunk
        /\ n.cleared = k.cleared
    BY <1>12, FieldsInLoop
  <2>. QED
    BY <1>1, <2>1, <2>2 DEF OnceJob
<1>13. CASE WriteMetadata(j)
  <2>1. k.pc = "meta" /\ UNCHANGED rows
    BY <1>13 DEF WriteMetadata
  <2>2. /\ n.pc = "vectors" /\ n.run = k.run /\ n.chunk = k.chunk
        /\ n.batch = k.batch + 1 /\ n.todo = Targets /\ n.cleared = k.cleared
    BY <1>13, FieldsInLoop
  <2>3. /\ k.batch \in Nat /\ k.batch + 1 \in Batches /\ \A b \in Batches : b \in Nat
    BY <1>1, <2>1, StoreAssumption DEF SoundJob, Job, Batches
  <2>4. \A t \in Targets, b \in Batches : b > k.batch => Lacks(S(t), k.chunk, b)
    BY <1>1, <2>1 DEF OnceJob
  <2>5. \A b \in Batches : b > k.batch + 1 => b > k.batch
    BY <2>3
  <2>6. k.batch + 1 > k.batch
    BY <2>3
  <2>. QED
    BY <1>1, <2>1, <2>2, <2>3, <2>4, <2>5, <2>6 DEF OnceJob
<1>14. ASSUME NEW t \in Targets, WriteVectors(j, t)
       PROVE  OnceJob(j)'
  <2>1. /\ k.pc = "vectors" /\ t \in k.todo /\ k.run \in Runs /\ AfterWrite(j, t)
    BY <1>1, <1>14, Zenon DEF WriteVectors
  <2>2. rows' = [rows EXCEPT ![k.run][t] = Upsert(@, k.chunk, k.batch)]
    BY <1>14, <2>1, InsertIntoEmpty DEF WriteVectors, OnceInv, OnceJob
  <2>3. /\ n.pc = IF k.todo # {t} THEN "vectors"
                  ELSE IF k.batch < BatchesPerChunk THEN "meta" ELSE "commit"
        /\ n.run = k.run /\ n.chunk = k.chunk /\ n.batch = k.batch
        /\ n.todo = k.todo \ {t} /\ n.cleared = k.cleared
    BY <2>1, FieldsInLoop
  <2>4. /\ \A u \in Targets, b \in Batches : b > k.batch => Lacks(S(u), k.chunk, b)
        /\ \A u \in k.todo : Lacks(S(u), k.chunk, k.batch)
        /\ k.todo \subseteq Targets
    BY <1>1, <2>1 DEF OnceJob, SoundJob, Job
  <2>5. \A u \in Targets \ {t} : T(u) = S(u)
    BY <1>1, <2>2
  <2>6. T(t) = Upsert(S(t), k.chunk, k.batch)
    BY <1>1, <2>1, <2>2
  <2>7. \A b \in Batches : b > k.batch => b # k.batch
    BY <1>1, <2>1, StoreAssumption DEF SoundJob, Batches
  <2>. HIDE DEF S, T
  <2>8. \A u \in Targets, b \in Batches : b > k.batch => Lacks(T(u), k.chunk, b)
    BY <2>4, <2>5, <2>6, <2>7, UpsertLacks
  <2>9. \A u \in n.todo : Lacks(T(u), k.chunk, k.batch)
    BY <2>3, <2>4, <2>5
  <2>10. n.pc \in {"vectors", "meta", "commit"} /\ \A u, v \in k.cleared : u = v
    BY <1>1, <2>1, <2>3 DEF OnceJob
  <2>. QED
    BY <2>3, <2>8, <2>9, <2>10 DEF OnceJob, T
<1>15. ASSUME NEW t \in Targets, WriteVectorsTwice(j, t)
       PROVE  FALSE
  BY <1>15 DEF WriteVectorsTwice, IngestInv
<1>. QED
  BY <1>3, <1>5, <1>6, <1>7, <1>8, <1>9, <1>10, <1>11, <1>12, <1>13, <1>14, <1>15
  DEF IngestStep, Progress

\* No step of the ingest writes a row twice.
LEMMA OnceKept ==
  ASSUME MaxAmbiguous = 0, ExclusiveResume, IngestInv, OwnershipInv, OnceInv,
         NEW j \in Ingestors, IngestStep(j)
  PROVE  OnceInv'
<1>1. PICK r \in Runs : /\ ConfinedTo(j, r)
                        /\ \A i \in Ingestors \ {j} : Live(i) => job[i].run # r
  BY StepConfined
<1>2. \A i \in Ingestors \ {j} : job'[i] = job[i]
  BY StepKeepsOthers DEF IngestInv
<1>3. ASSUME NEW i \in Ingestors \ {j}, Live(i)'
      PROVE  OnceJob(i)'
  <2>1. job'[i] = job[i] /\ OnceJob(i) /\ job[i].run \in Runs \ {r}
    BY <1>1, <1>2, <1>3 DEF OnceInv, IngestInv, SoundJob
  <2>2. LET q == job[i].run IN rows'[q] = rows[q]
    BY <1>1, <2>1 DEF ConfinedTo
  <2>. QED
    BY <2>1, <2>2 DEF OnceJob
<1>4. job[j].pc # "idle" => status[job[j].run] # "none"
  BY DEF OwnershipInv, StatusAt
<1>. QED
  BY <1>3, <1>4, StepKeepsOnceRun, StepKeepsOnceJob DEF OnceInv

-----------------------------------------------------------------------------
(* Lost rows.  A backend deletes a chunk by its index alone, so this part     *)
(* needs a manifest whose chunks all have different indexes.                  *)

OneVideoOnly == \A c, d \in Chunks : IndexOf[c] = IndexOf[d] => c = d

\* In table S the first copy of a row is the last to go.
FirstCopies(S) == \A x \in S : <<x[1], x[2], 1>> \in S

\* However the row is written, and whatever copies there were, the table holds
\* the first copy afterwards and has lost nothing.
LEMMA WriteStores ==
  ASSUME NEW S, NEW c, NEW b, NEW n \in {1, 2}, FirstCopies(S),
         NEW T, T = Upsert(S, c, b) \/ T = Insert(S, c, b, n)
  PROVE  S \subseteq T /\ <<c, b, 1>> \in T /\ FirstCopies(T)
<1>1. CASE T = Upsert(S, c, b)
  BY <1>1 DEF Upsert, FirstCopies
<1>2. CASE T = Insert(S, c, b, n)
  <2>. DEFINE p == Cardinality(CopiesOf(S, c, b))
              New == {<<c, b, k>> : k \in {i \in Copies : p < i /\ i <= p + n}}
  <2>1. T = S \cup New
    BY <1>2 DEF Insert
  <2>2. CASE CopiesOf(S, c, b) = {}
    <3>1. p = 0
      BY <2>2, FS_EmptySet
    <3>2. 1 \in Copies
      BY StoreAssumption DEF Copies
    <3>. HIDE DEF p
    <3>3. <<c, b, 1>> \in New
      BY <3>1, <3>2
    <3>. QED
      BY <2>1, <3>3 DEF FirstCopies
  <2>3. CASE CopiesOf(S, c, b) # {}
    <3>. HIDE DEF p
    <3>1. PICK k : <<c, b, k>> \in S
      BY <2>3 DEF CopiesOf
    <3>2. <<c, b, 1>> \in S
      BY <3>1 DEF FirstCopies
    <3>. QED
      BY <2>1, <3>2 DEF FirstCopies
  <2>. QED
    BY <2>2, <2>3
<1>. QED
  BY <1>1, <1>2

\* Every effect of a step on the tables of runs, in one place.
LEMMA StoreEffect ==
  ASSUME NEW j \in Ingestors, IngestStep(j)
  PROVE  \/ UNCHANGED <<ledger, meta, rows>>
         \/ /\ job[j].pc \in ChunkSteps /\ UNCHANGED <<status, meta, rows>>
            /\ \E s \in {"writing", "failed"} : SetChunkStatus(job[j].run, job[j].chunk, s, 0)
         \/ CommitChunk(j) \/ PurgeMetadata(j) \/ WriteMetadata(j)
         \/ \E t \in Targets : PurgeTarget(j, t) \/ WriteVectors(j, t) \/ WriteVectorsTwice(j, t)
<1>1. CASE GuardRejects(j) \/ ChunkError(j)
  <2>1. job[j].pc \in ChunkSteps
    BY <1>1, FailureEffect
  <2>. QED
    BY <1>1, <2>1, Zenon DEF GuardRejects, ChunkError, FailChunk
<1>2. CASE MarkWriting(j)
  BY <1>2 DEF MarkWriting, ChunkSteps
<1>3. CASE /\ Progress(j) /\ ~GuardRejects(j) /\ ~MarkWriting(j) /\ ~CommitChunk(j)
           /\ ~PurgeMetadata(j) /\ ~WriteMetadata(j)
           /\ ~\E t \in Targets : \/ PurgeTarget(j, t) \/ WriteVectors(j, t)
                                  \/ WriteVectorsTwice(j, t)
  BY <1>3, Zenon DEF Progress, ReadCommitted, MarkIngesting, CountCommitted, NextChunk,
     BeginChunk, PurgeGuard, PurgeMetadataGuard, RunVanished, LeaveLoop, FailRun,
     StartValidation, CheckControlPlane, CheckTarget, RejectRun, Activate, ActivationRefused, storeVars
<1>4. CASE Crash(j) \/ \E r \in Runs : CreateRun(j, r) \/ ResumeRun(j, r)
  BY <1>4, Zenon DEF Crash, CreateRun, ResumeRun, storeVars
<1>. QED
  BY <1>1, <1>2, <1>3, <1>4 DEF IngestStep

LEMMA WriteEffect ==
  ASSUME NEW j \in Ingestors, NEW t \in Targets, WriteVectors(j, t) \/ WriteVectorsTwice(j, t),
         FirstCopies(rows[job[j].run][t])
  PROVE  \E T : /\ rows' = [rows EXCEPT ![job[j].run][t] = T]
                /\ rows[job[j].run][t] \subseteq T
                /\ <<job[j].chunk, job[j].batch, 1>> \in T /\ FirstCopies(T)
<1>. DEFINE S == rows[job[j].run][t]
            U == Upsert(S, job[j].chunk, job[j].batch)
            I(n) == Insert(S, job[j].chunk, job[j].batch, n)
<1>1. \A n \in {1, 2} :
        /\ S \subseteq U /\ <<job[j].chunk, job[j].batch, 1>> \in U /\ FirstCopies(U)
        /\ S \subseteq I(n) /\ <<job[j].chunk, job[j].batch, 1>> \in I(n) /\ FirstCopies(I(n))
  BY WriteStores
<1>2. \/ rows' = [rows EXCEPT ![job[j].run][t] = U]
      \/ rows' = [rows EXCEPT ![job[j].run][t] = I(1)]
      \/ rows' = [rows EXCEPT ![job[j].run][t] = I(2)]
  BY DEF WriteVectors, WriteVectorsTwice
<1>. HIDE DEF U, I
<1>. QED
  BY <1>1, <1>2

LEMMA StepKeepsIntactRun ==
  ASSUME OneVideoOnly, IngestInv, LedgerInv, IntactInv, NEW j \in Ingestors, IngestStep(j),
         NEW q \in Runs
  PROVE  IntactRun(q)'
<1>. DEFINE k == job[j]
            r == k.run
            C == CommittedIn(ledger[q])
            D == CommittedIn(ledger'[q])
<1>1. /\ StoreTypeOK /\ k \in SoundJob /\ IntactRun(q) /\ LedgerRun(q) /\ C \subseteq Chunks
      /\ \A t \in Targets : FirstCopies(rows[q][t])
      /\ k.pc \in ChunkSteps =>
           r \in Runs /\ k.chunk \in Chunks /\ IntactJob(j) /\ k.chunk \notin CommittedIn(ledger[r])
  <2>1. ASSUME k.pc \in ChunkSteps
        PROVE  /\ r \in Runs /\ k.chunk \in Chunks /\ IntactJob(j)
               /\ k.chunk \notin CommittedIn(ledger[r])
    <3>1. r \in Runs /\ k.chunk \in Chunks /\ IntactJob(j) /\ LedgerJob(j)
      BY <2>1 DEF IngestInv, SoundJob, ChunkSteps, IntactInv, LedgerInv
    <3>. QED
      BY <2>1, <3>1, StoreAssumption DEF LedgerJob, Chunks
  <2>. QED
    BY <2>1 DEF IngestInv, SoundJob, IntactInv, LedgerInv, CommittedIn, IntactRun, InTable,
       FirstCopies
<1>2. CASE UNCHANGED <<ledger, meta, rows>>
  BY <1>1, <1>2 DEF IntactRun, InMeta, InTable
<1>3. ASSUME k.pc \in ChunkSteps, UNCHANGED <<status, meta, rows>>, NEW s \in {"writing", "failed"},
             SetChunkStatus(r, k.chunk, s, 0)
      PROVE  IntactRun(q)'
  <2>1. D = C
    <3>1. CASE q = r
      BY <1>1, <1>3, <3>1, LedgerAfter
    <3>2. CASE q # r
      BY <1>1, <1>3, <3>2 DEF SetChunkStatus, StoreTypeOK
    <3>. QED
      BY <3>1, <3>2
  <2>. QED
    BY <1>1, <1>3, <2>1 DEF IntactRun, InMeta, InTable
<1>4. CASE CommitChunk(j)
  <2>1. /\ k.pc = "commit" /\ UNCHANGED <<status, meta, rows>>
        /\ SetChunkStatus(r, k.chunk, "committed", k.batch)
    BY <1>4 DEF CommitChunk
  <2>2. k.batch = BatchesPerChunk
    BY <2>1 DEF LedgerInv, LedgerJob
  <2>3. \A b \in Batches : /\ InMeta(r, k.chunk, b)
                           /\ \A t \in Targets : InTable(r, t, k.chunk, b)
    BY <1>1, <2>1, <2>2, StoreAssumption DEF IntactJob, Batches, ChunkSteps
  <2>4. D \subseteq C \/ (q = r /\ D = C \cup {k.chunk})
    <3>1. CASE q = r
      BY <1>1, <2>1, <2>2, <3>1, LedgerAfter DEF ChunkSteps
    <3>2. CASE q # r
      BY <1>1, <2>1, <3>2 DEF SetChunkStatus, StoreTypeOK
    <3>. QED
      BY <3>1, <3>2
  <2>. QED
    BY <1>1, <2>1, <2>3, <2>4 DEF IntactRun, InMeta, InTable
<1>5. ASSUME NEW M, UNCHANGED <<ledger, rows>>, r \in Runs, meta' = [meta EXCEPT ![r] = M],
             \A s \in meta[r] : s[1] # k.chunk => s \in M,
             k.chunk \notin CommittedIn(ledger[r])
      PROVE  IntactRun(q)'
  <2>1. meta'[q] = IF q = r THEN M ELSE meta[q]
    BY <1>1, <1>5 DEF StoreTypeOK
  <2>. QED
    BY <1>1, <1>5, <2>1 DEF IntactRun, InMeta, InTable
<1>6. CASE PurgeMetadata(j) \/ WriteMetadata(j)
  <2>1. k.pc \in ChunkSteps /\ UNCHANGED <<ledger, rows>>
    BY <1>6 DEF PurgeMetadataGuard, PurgeMetadata, WriteMetadata, ChunkSteps
  <2>2. PICK M : /\ meta' = [meta EXCEPT ![r] = M]
                 /\ \A s \in meta[r] : s[1] # k.chunk => s \in M
    <3>1. CASE PurgeMetadata(j)
      BY <3>1 DEF PurgeMetadata
    <3>2. CASE WriteMetadata(j)
      BY <3>2 DEF WriteMetadata
    <3>. QED
      BY <1>6, <3>1, <3>2
  <2>. QED
    BY <1>1, <1>5, <2>1, <2>2
<1>7. ASSUME NEW t \in Targets, NEW T, UNCHANGED <<ledger, meta>>, r \in Runs,
             rows' = [rows EXCEPT ![r][t] = T], FirstCopies(T),
             q = r => \A c \in C, b \in Batches : <<c, b, 1>> \in rows[r][t] => <<c, b, 1>> \in T
      PROVE  IntactRun(q)'
  <2>1. \A u \in Targets : rows'[q][u] = IF q = r /\ u = t THEN T ELSE rows[q][u]
    BY <1>1, <1>7 DEF StoreTypeOK
  <2>. QED
    BY <1>1, <1>7, <2>1 DEF IntactRun, InMeta, InTable, FirstCopies
<1>8. ASSUME NEW t \in Targets, PurgeTarget(j, t)
      PROVE  IntactRun(q)'
  <2>. DEFINE S == rows[r][t]
              T == WithoutIndex(S, IndexOf[k.chunk])
  <2>1. /\ k.pc \in ChunkSteps /\ UNCHANGED <<ledger, meta>>
        /\ rows' = [rows EXCEPT ![r][t] = WithoutIndex(@, IndexOf[k.chunk])]
    BY <1>8, Zenon DEF PurgeTarget, ChunkSteps
  <2>2. r \in Runs /\ k.chunk \in Chunks /\ S \in SUBSET Rows /\ FirstCopies(S)
    BY <1>1, <2>1 DEF StoreTypeOK, IntactInv, IntactRun, InTable, FirstCopies
  <2>3. rows' = [rows EXCEPT ![r][t] = T]
    BY <1>1, <2>1, <2>2 DEF StoreTypeOK
  <2>4. FirstCopies(T)
    <3>1. ASSUME NEW x \in T
          PROVE  <<x[1], x[2], 1>> \in T
      <4>1. x \in S /\ IndexOf[x[1]] # IndexOf[k.chunk]
        BY <3>1 DEF WithoutIndex
      <4>2. <<x[1], x[2], 1>> \in S
        BY <2>2, <4>1 DEF FirstCopies
      <4>. QED
        BY <4>1, <4>2 DEF WithoutIndex
    <3>. QED
      BY <3>1, Zenon DEF FirstCopies
  <2>5. ASSUME q = r, NEW c \in C, NEW b \in Batches, <<c, b, 1>> \in S
        PROVE  <<c, b, 1>> \in T
    <3>1. IndexOf[c] # IndexOf[k.chunk]
      BY <1>1, <2>1, <2>2, <2>5 DEF OneVideoOnly
    <3>. QED
      BY <2>5, <3>1 DEF WithoutIndex
  <2>. HIDE DEF T
  <2>. QED
    BY <1>7, <2>1, <2>2, <2>3, <2>4, <2>5
<1>9. ASSUME NEW t \in Targets, WriteVectors(j, t) \/ WriteVectorsTwice(j, t)
      PROVE  IntactRun(q)'
  <2>. DEFINE S == rows[r][t]
  <2>1. k.pc \in ChunkSteps /\ UNCHANGED <<ledger, meta>>
    BY <1>9, Zenon DEF WriteVectors, WriteVectorsTwice, ChunkSteps
  <2>2. r \in Runs /\ FirstCopies(S)
    BY <1>1, <2>1 DEF IntactInv, IntactRun, InTable, FirstCopies
  <2>3. PICK T : /\ rows' = [rows EXCEPT ![r][t] = T]
                 /\ S \subseteq T /\ <<k.chunk, k.batch, 1>> \in T /\ FirstCopies(T)
    BY <1>9, <2>2, WriteEffect
  <2>. QED
    BY <1>7, <2>1, <2>2, <2>3
<1>. QED
  BY <1>2, <1>3, <1>4, <1>6, <1>8, <1>9, StoreEffect

LEMMA StepKeepsIntactJob ==
  ASSUME IngestInv, IntactInv, NEW j \in Ingestors, IngestStep(j)
  PROVE  IntactJob(j)'
<1>. DEFINE k == job[j]
            n == job'[j]
            Storing == {"meta", "vectors", "commit"}
<1>1. /\ StoreTypeOK /\ job \in [Ingestors -> SoundJob] /\ k \in SoundJob
      /\ k.pc # "idle" => k.run \in Runs /\ IntactJob(j) /\ IntactRun(k.run)
  BY DEF IngestInv, IntactInv, SoundJob
<1>2. ASSUME n.pc \notin Storing
      PROVE  IntactJob(j)'
  BY <1>2 DEF IntactJob
<1>3. CASE PurgeMetadata(j)
  <2>1. n.pc = "meta" /\ n.batch = k.batch
    BY <1>3, FieldsInLoop
  <2>2. k.pc = "wipeMeta"
    BY <1>3 DEF PurgeMetadata
  <2>3. k.batch = 0 /\ \A b \in Batches : ~(b <= 0)
    BY <1>1, <2>2, StoreAssumption DEF SoundJob, Batches
  <2>. QED
    BY <2>1, <2>3 DEF IntactJob
<1>4. CASE WriteMetadata(j)
  <2>1. /\ k.pc = "meta" /\ UNCHANGED rows
        /\ meta' = [meta EXCEPT ![k.run] = @ \cup {<<k.chunk, k.batch + 1>>}]
    BY <1>4 DEF WriteMetadata
  <2>2. /\ n.pc = "vectors" /\ n.run = k.run /\ n.chunk = k.chunk
        /\ n.batch = k.batch + 1 /\ n.todo = Targets
    BY <1>4, FieldsInLoop
  <2>3. meta'[k.run] = meta[k.run] \cup {<<k.chunk, k.batch + 1>>}
    BY <1>1, <2>1 DEF StoreTypeOK
  <2>4. \A b \in Batches : b <= k.batch + 1 => b <= k.batch \/ b = k.batch + 1
    BY <1>1, <2>1, StoreAssumption DEF SoundJob, Job, Batches
  <2>5. \A b \in Batches : b < k.batch + 1 => b <= k.batch
    BY <1>1, <2>1, StoreAssumption DEF SoundJob, Job, Batches
  <2>. QED
    BY <1>1, <2>1, <2>2, <2>3, <2>4, <2>5 DEF IntactJob, InMeta, InTable
<1>5. ASSUME NEW t \in Targets, WriteVectors(j, t) \/ WriteVectorsTwice(j, t)
      PROVE  IntactJob(j)'
  <2>1. k.pc = "vectors" /\ k.run \in Runs /\ UNCHANGED meta /\ AfterWrite(j, t)
    BY <1>1, <1>5, Zenon DEF WriteVectors, WriteVectorsTwice
  <2>2. PICK T : /\ rows' = [rows EXCEPT ![k.run][t] = T]
                 /\ rows[k.run][t] \subseteq T /\ <<k.chunk, k.batch, 1>> \in T
    BY <1>1, <1>5, <2>1, WriteEffect DEF IntactRun, InTable, FirstCopies
  <2>3. /\ n.pc \in {"vectors", "meta", "commit"}
        /\ n.pc # "vectors" => k.todo = {t}
        /\ n.run = k.run /\ n.chunk = k.chunk /\ n.batch = k.batch /\ n.todo = k.todo \ {t}
    BY <2>1, FieldsInLoop
  <2>4. \A u \in Targets : rows'[k.run][u] = IF u = t THEN T ELSE rows[k.run][u]
    BY <1>1, <2>1, <2>2 DEF StoreTypeOK
  <2>5. \A b \in Batches : b <= k.batch =>
          /\ InMeta(k.run, k.chunk, b)
          /\ \A u \in Targets : b < k.batch \/ u \notin k.todo => InTable(k.run, u, k.chunk, b)
    BY <1>1, <2>1 DEF IntactJob
  <2>6. \A b \in Batches : b <= k.batch => b < k.batch \/ b = k.batch
    BY <1>1, <2>1, StoreAssumption DEF SoundJob, Batches
  <2>7. \A b \in Batches, u \in Targets :
          b <= k.batch /\ (b < k.batch \/ u \notin n.todo) => <<k.chunk, b, 1>> \in rows'[k.run][u]
    BY <2>2, <2>3, <2>4, <2>5, <2>6 DEF InTable
  <2>. QED
    BY <2>1, <2>3, <2>5, <2>6, <2>7 DEF IntactJob, InMeta, InTable
<1>6. CASE \E r \in Runs : CreateRun(j, r) \/ ResumeRun(j, r)
  <2>1. n.pc \notin Storing
    <3>1. PICK r \in Runs : CreateRun(j, r) \/ ResumeRun(j, r)
      BY <1>6
    <3>. QED
      BY <1>1, <3>1 DEF CreateRun, ResumeRun, IdleJob
  <2>. QED
    BY <1>2, <2>1
<1>7. CASE \/ ReadCommitted(j) \/ MarkIngesting(j) \/ CountCommitted(j) \/ LeaveLoop(j)
           \/ StartValidation(j) \/ CheckControlPlane(j) \/ \E t \in Targets : CheckTarget(j, t)
  BY <1>2, <1>7, FieldsOutside
<1>8. CASE \/ NextChunk(j) \/ BeginChunk(j) \/ MarkWriting(j) \/ CommitChunk(j)
           \/ PurgeMetadataGuard(j) \/ \E t \in Targets : PurgeGuard(j, t) \/ PurgeTarget(j, t)
  BY <1>2, <1>8, FieldsInLoop
<1>9. CASE GuardRejects(j) \/ ChunkError(j)
  <2>1. PICK dead \in BOOLEAN : FailChunk(j, dead)
    BY <1>9, FailureEffect
  <2>2. n.pc \notin Storing
    BY <2>1, FieldsInLoop
  <2>. QED
    BY <1>2, <2>2
<1>10. CASE \/ RunVanished(j) \/ FailRun(j) \/ RejectRun(j) \/ Activate(j)
            \/ ActivationRefused(j) \/ Crash(j)
  <2>1. n = IdleJob
    BY <1>10, LastSteps
  <2>. QED
    BY <1>2, <2>1 DEF IdleJob
<1>. QED
  BY <1>3, <1>4, <1>5, <1>6, <1>7, <1>8, <1>9, <1>10 DEF IngestStep, Progress

\* No step of the ingest loses a row of a committed chunk.
LEMMA IntactKept ==
  ASSUME OneVideoOnly, ExclusiveResume, IngestInv, OwnershipInv, LedgerInv, IntactInv,
         NEW j \in Ingestors, IngestStep(j)
  PROVE  IntactInv'
<1>1. PICK r \in Runs : /\ ConfinedTo(j, r)
                        /\ \A i \in Ingestors \ {j} : Live(i) => job[i].run # r
  BY StepConfined
<1>2. \A i \in Ingestors \ {j} : job'[i] = job[i]
  BY StepKeepsOthers DEF IngestInv
<1>3. ASSUME NEW i \in Ingestors \ {j}, Live(i)'
      PROVE  IntactJob(i)'
  <2>1. job'[i] = job[i] /\ IntactJob(i) /\ job[i].run \in Runs \ {r}
    BY <1>1, <1>2, <1>3 DEF IntactInv, IngestInv, SoundJob
  <2>2. LET q == job[i].run IN meta'[q] = meta[q] /\ rows'[q] = rows[q]
    BY <1>1, <2>1 DEF ConfinedTo
  <2>. QED
    BY <2>1, <2>2 DEF IntactJob, InMeta, InTable
<1>. QED
  BY <1>3, StepKeepsIntactRun, StepKeepsIntactJob DEF IntactInv

-----------------------------------------------------------------------------
(* The three safety invariants.                                               *)

CoreInv == IngestInv /\ OwnershipInv /\ LedgerInv

LEMMA CoreInit == IngestInit => CoreInv
<1>. SUFFICES ASSUME IngestInit PROVE CoreInv
  OBVIOUS
<1>1. IngestInv /\ OwnershipInv
  BY InitSound, OwnershipInit
<1>2. \A r \in Runs : LedgerRun(r)
  BY DEF IngestInit, StoreInit, LedgerRun, CommittedIn, NoChunkYet
<1>3. \A j \in Ingestors : ~Live(j)
  BY DEF IngestInit, IdleJob
<1>. QED
  BY <1>1, <1>2, <1>3 DEF CoreInv, LedgerInv

LEMMA CoreKept ==
  ASSUME ExclusiveResume, CoreInv, [IngestNext]_ingestVars
  PROVE  CoreInv'
<1>1. IngestInv' /\ OwnershipInv'
  BY StepSound, OwnershipKept DEF CoreInv
<1>2. CASE UNCHANGED ingestVars
  <2>1. LedgerInv'
    BY <1>2 DEF ingestVars, storeVars, jobVars, CoreInv, LedgerInv, LedgerRun, LedgerJob, CountsAgree
  <2>. QED
    BY <1>1, <2>1 DEF CoreInv
<1>3. ASSUME NEW j \in Ingestors, IngestStep(j)
      PROVE  CoreInv'
  BY <1>1, <1>3, LedgerKept DEF CoreInv
<1>. QED
  BY <1>2, <1>3 DEF IngestNext

LEMMA OnceInit == IngestInit => OnceInv
BY DEF IngestInit, StoreInit, OnceInv, OnceRun, IdleJob

LEMMA OnceStep ==
  ASSUME MaxAmbiguous = 0, ExclusiveResume, CoreInv, OnceInv, [IngestNext]_ingestVars
  PROVE  OnceInv'
<1>1. CASE UNCHANGED ingestVars
  BY <1>1 DEF ingestVars, storeVars, jobVars, OnceInv, OnceRun, OnceJob
<1>2. ASSUME NEW j \in Ingestors, IngestStep(j)
      PROVE  OnceInv'
  BY <1>2, OnceKept DEF CoreInv
<1>. QED
  BY <1>1, <1>2 DEF IngestNext

LEMMA IntactInit == IngestInit => IntactInv
BY DEF IngestInit, StoreInit, IntactInv, IntactRun, IdleJob, NoChunkYet, CommittedIn

LEMMA IntactStep ==
  ASSUME OneVideoOnly, ExclusiveResume, CoreInv, IntactInv, [IngestNext]_ingestVars
  PROVE  IntactInv'
<1>1. CASE UNCHANGED ingestVars
  BY <1>1 DEF ingestVars, storeVars, jobVars, IntactInv, IntactRun, IntactJob, InMeta, InTable
<1>2. ASSUME NEW j \in Ingestors, IngestStep(j)
      PROVE  IntactInv'
  BY <1>2, IntactKept DEF CoreInv
<1>. QED
  BY <1>1, <1>2 DEF IngestNext

\* In a single-video manifest nothing a retry, a crash or a later chunk does
\* takes a row away from a committed chunk.
THEOREM CommittedChunksIntact ==
  ASSUME ExclusiveResume, OneVideoOnly PROVE IngestSpec => []CommittedIntact
<1>1. IntactInv => CommittedIntact
  <2>. SUFFICES ASSUME IntactInv, NEW r \in Runs, NEW c \in CommittedChunks(r), NEW b \in Batches
                PROVE  /\ <<c, b>> \in meta[r]
                       /\ \A t \in Targets : CopiesOf(rows[r][t], c, b) # {}
    BY Zenon DEF CommittedIntact
  <2>1. c \in CommittedIn(ledger[r])
    BY DEF CommittedChunks, CommittedIn
  <2>2. <<c, b>> \in meta[r] /\ \A t \in Targets : <<c, b, 1>> \in rows[r][t]
    BY <2>1 DEF IntactInv, IntactRun, InMeta, InTable
  <2>3. 1 \in Copies
    BY StoreAssumption DEF Copies
  <2>. QED
    BY <2>2, <2>3 DEF CopiesOf
<1>. QED
  BY <1>1, CoreInit, CoreKept, IntactInit, IntactStep, PTL DEF IngestSpec

\* As long as no insert is repeated inside the ClickHouse client, retries, crashes
\* and resumes leave at most one copy of a row.
THEOREM CommittedChunksOnce ==
  ASSUME ExclusiveResume, MaxAmbiguous = 0 PROVE IngestSpec => []CommittedOnce
<1>1. OnceInv => CommittedOnce
  <2>. SUFFICES ASSUME OnceInv, NEW r \in Runs, NEW t \in Targets, NEW c, NEW b
                PROVE  Cardinality(CopiesOf(rows[r][t], c, b)) <= 1
    BY DEF CommittedOnce
  <2>1. CopiesOf(rows[r][t], c, b) \in SUBSET {1}
    BY DEF OnceInv, OnceRun, CopiesOf
  <2>2. IsFiniteSet({1}) /\ Cardinality({1}) = 1
    BY FS_Singleton
  <2>. QED
    BY <2>1, <2>2, FS_Subset
<1>. QED
  BY <1>1, CoreInit, CoreKept, OnceInit, OnceStep, PTL DEF IngestSpec

Full == Chunks \X Batches \X {1}

LEMMA FullCount == IsFiniteSet(Full) /\ Cardinality(Full) = Cardinality(Segments)
<1>. DEFINE f == [s \in Segments |-> <<s[1], s[2], 1>>]
            g == [x \in Full |-> <<x[1], x[2]>>]
<1>1. f \in Surjection(Segments, Full)
  <2>1. f \in [Segments -> Full]
    BY DEF Full, Segments
  <2>2. ASSUME NEW x \in Full
        PROVE  \E s \in Segments : f[s] = x
    <3>1. <<x[1], x[2]>> \in Segments /\ x = <<x[1], x[2], 1>>
      BY DEF Full, Segments
    <3>. QED
      BY <3>1
  <2>. QED
    BY <2>1, <2>2 DEF Surjection
<1>2. g \in Surjection(Full, Segments)
  <2>1. g \in [Full -> Segments]
    BY DEF Full, Segments
  <2>2. ASSUME NEW s \in Segments
        PROVE  \E x \in Full : g[x] = s
    <3>1. <<s[1], s[2], 1>> \in Full /\ s = <<s[1], s[2]>>
      BY DEF Full, Segments
    <3>. QED
      BY <3>1
  <2>. QED
    BY <2>1, <2>2 DEF Surjection
<1>. HIDE DEF f, g
<1>3. IsFiniteSet(Full) /\ Cardinality(Full) <= Cardinality(Segments)
  BY <1>1, SegmentsFinite, FS_Surjection
<1>4. Cardinality(Segments) <= Cardinality(Full)
  BY <1>2, <1>3, FS_Surjection
<1>5. Cardinality(Full) \in Nat /\ Cardinality(Segments) \in Nat
  BY <1>3, SegmentsFinite, FS_CardinalityType
<1>. QED
  BY <1>3, <1>4, <1>5

LEMMA RowsFinite == IsFiniteSet(Rows)
<1>. DEFINE f == [p \in Segments \X Copies |-> <<p[1][1], p[1][2], p[2]>>]
<1>1. f \in [Segments \X Copies -> Rows]
  BY DEF Segments, Rows
<1>2. ASSUME NEW x \in Rows
      PROVE  \E p \in Segments \X Copies : f[p] = x
  <2>1. /\ <<<<x[1], x[2]>>, x[3]>> \in Segments \X Copies
        /\ x = <<x[1], x[2], x[3]>>
    BY DEF Segments, Rows
  <2>. QED
    BY <2>1
<1>3. f \in Surjection(Segments \X Copies, Rows)
  BY <1>1, <1>2 DEF Surjection
<1>4. IsFiniteSet(Copies)
  BY StoreAssumption, FS_Interval DEF Copies
<1>5. IsFiniteSet(Segments \X Copies)
  BY <1>4, SegmentsFinite, FS_Product
<1>. HIDE DEF f
<1>. QED
  BY <1>3, <1>5, FS_Surjection

\* The counts of finalize_run prove a run complete when its tables hold either
\* nothing but first copies, or every first copy.
LEMMA CountsMeanStored ==
  ASSUME StoreTypeOK, NEW r \in Runs, Cardinality(meta[r]) = Cardinality(Segments),
         \A t \in Targets : /\ Cardinality(rows[r][t]) = Cardinality(Segments)
                            /\ rows[r][t] \subseteq Full \/ Full \subseteq rows[r][t]
  PROVE  meta[r] = Segments /\ \A t \in Targets : rows[r][t] = Full
<1>1. meta[r] \in SUBSET Segments
  BY DEF StoreTypeOK
<1>2. meta[r] = Segments
  BY <1>1, SegmentsFinite, FS_Subset
<1>3. ASSUME NEW t \in Targets
      PROVE  rows[r][t] = Full
  <2>1. rows[r][t] \in SUBSET Rows /\ Cardinality(rows[r][t]) = Cardinality(Full)
    BY FullCount DEF StoreTypeOK
  <2>2. IsFiniteSet(rows[r][t])
    BY <2>1, RowsFinite, FS_Subset
  <2>3. CASE rows[r][t] \in SUBSET Full
    BY <2>1, <2>3, FullCount, FS_Subset
  <2>4. CASE Full \in SUBSET rows[r][t]
    BY <2>1, <2>2, <2>4, FS_Subset
  <2>. QED
    BY <2>3, <2>4
<1>. QED
  BY <1>2, <1>3

LEMMA FullMeansStored ==
  ASSUME NEW r, meta[r] = Segments, \A t \in Targets : rows[r][t] = Full
  PROVE  RunStored(r)
<1>1. \A t \in Targets, c \in Chunks : {x \in Full : x[1] = c} = {<<c, b, 1>> : b \in Batches}
  BY DEF Full
<1>. QED
  BY <1>1 DEF RunStored, ChunkStored, StoredOnce, Segments

\* A process that may activate its run has counted every segment of it.
LEMMA ConcludedStored ==
  ASSUME CoreInv, NEW j \in Ingestors, job[j].pc = "conclude", ~job[j].failed,
         OnceInv \/ IntactInv
  PROVE  /\ meta[job[j].run] = Segments
         /\ \A t \in Targets : rows[job[j].run][t] = Full
<1>. DEFINE r == job[j].run
<1>1. StoreTypeOK /\ r \in Runs /\ LedgerJob(j)
  BY DEF CoreInv, IngestInv, SoundJob, LedgerInv
<1>2. CommittedIn(ledger[r]) = Chunks /\ job[j].total = Cardinality(Chunks \X Batches) /\ CountsAgree(j)
  BY <1>1 DEF LedgerJob
<1>3. /\ Cardinality(meta[r]) = Cardinality(Segments)
      /\ \A t \in Targets : Cardinality(rows[r][t]) = Cardinality(Segments)
  BY <1>2 DEF CountsAgree, Segments
<1>4. \A t \in Targets : rows[r][t] \subseteq Full \/ Full \subseteq rows[r][t]
  <2>1. CASE OnceInv
    BY <1>1, <2>1 DEF OnceInv, OnceRun, Full
  <2>2. CASE IntactInv
    <3>1. \A t \in Targets, c \in Chunks, b \in Batches : <<c, b, 1>> \in rows[r][t]
      BY <1>1, <1>2, <2>2 DEF IntactInv, IntactRun, InTable
    <3>2. \A x \in Full : x[1] \in Chunks /\ x[2] \in Batches /\ x = <<x[1], x[2], 1>>
      BY DEF Full
    <3>. QED
      BY <3>1, <3>2
  <2>. QED
    BY <2>1, <2>2
<1>. QED
  BY <1>1, <1>3, <1>4, CountsMeanStored

\* The pointer moves in Activate and nowhere else.
LEMMA PointerMoves ==
  ASSUME NEW j \in Ingestors, IngestStep(j), active' # active
  PROVE  Activate(j)
BY Zenon DEF IngestStep, Progress, ReadCommitted, MarkIngesting, CountCommitted, NextChunk,
   BeginChunk, PurgeGuard, PurgeTarget, GuardRejects, ChunkError, FailChunk, MarkWriting,
   CommitChunk, PurgeMetadataGuard, PurgeMetadata, WriteMetadata, WriteVectors, WriteVectorsTwice, RunVanished,
   LeaveLoop, FailRun, StartValidation, CheckControlPlane, CheckTarget, RejectRun,
   ActivationRefused, Crash, CreateRun, ResumeRun, storeVars

LEMMA ServedStep ==
  ASSUME ExclusiveResume, CoreInv, OnceInv \/ IntactInv, ServedComplete,
         [IngestNext]_ingestVars
  PROVE  ServedComplete'
<1>1. CASE UNCHANGED ingestVars
  BY <1>1 DEF ingestVars, storeVars, ServedComplete, RunStored, ChunkStored, StoredOnce
<1>2. ASSUME NEW j \in Ingestors, IngestStep(j), active' = active, active # NoRun
      PROVE  (status[active] = "completed" /\ RunStored(active))'
  <2>1. PICK r \in Runs : status[r] # "completed" /\ ConfinedTo(j, r)
    BY <1>2, StepConfined DEF CoreInv
  <2>2. /\ status[active] = "completed" /\ RunStored(active) /\ active \in Runs \ {r}
    BY <1>2, <2>1 DEF ServedComplete, CoreInv, IngestInv, StoreTypeOK
  <2>3. status'[active] = status[active] /\ meta'[active] = meta[active] /\ rows'[active] = rows[active]
    BY <2>1, <2>2 DEF ConfinedTo
  <2>. QED
    BY <1>2, <2>2, <2>3 DEF RunStored, ChunkStored, StoredOnce
<1>3. ASSUME NEW j \in Ingestors, Activate(j)
      PROVE  (status[active] = "completed" /\ RunStored(active))'
  <2>1. /\ job[j].pc = "conclude" /\ ~job[j].failed /\ active' = job[j].run
        /\ status' = [status EXCEPT ![job[j].run] = "completed"] /\ UNCHANGED <<meta, rows>>
    BY <1>3 DEF Activate
  <2>2. RunStored(job[j].run) /\ job[j].run \in Runs /\ StoreTypeOK
    BY <2>1, ConcludedStored, FullMeansStored DEF CoreInv, IngestInv, SoundJob
  <2>3. status'[active'] = "completed"
    BY <2>1, <2>2 DEF StoreTypeOK
  <2>. QED
    BY <2>1, <2>2, <2>3 DEF RunStored, ChunkStored, StoredOnce
<1>4. ASSUME NEW j \in Ingestors, IngestStep(j)
      PROVE  ServedComplete'
  BY <1>2, <1>3, <1>4, PointerMoves DEF ServedComplete
<1>. QED
  BY <1>1, <1>4 DEF IngestNext

\* Searches are sent only to completed runs that hold every segment of the
\* manifest once in every enabled target, if the manifest has one video, or else
\* if no insert is repeated inside the ClickHouse client.  (With both, a lost row
\* and a second copy can make the counts of finalize_run agree.)
THEOREM ServedRunsComplete ==
  ASSUME ExclusiveResume, OneVideoOnly \/ MaxAmbiguous = 0
  PROVE  IngestSpec => []ServedComplete
<1>1. IngestInit => ServedComplete
  BY DEF IngestInit, StoreInit, ServedComplete
<1>2. CASE OneVideoOnly
  BY <1>1, <1>2, CoreInit, CoreKept, IntactInit, IntactStep, ServedStep, PTL DEF IngestSpec
<1>3. CASE MaxAmbiguous = 0
  BY <1>1, <1>3, CoreInit, CoreKept, OnceInit, OnceStep, ServedStep, PTL DEF IngestSpec
<1>. QED
  BY <1>2, <1>3
=============================================================================
