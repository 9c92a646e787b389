------------------------ MODULE RunVersioningProofs -------------------------
(***************************************************************************)
(* Theorems about RunVersioning and LegacyMigration: the ingest, the       *)
(* collector and a search over the same tables, and the migration beside   *)
(* them, for any numbers of runs, processes, chunks and targets.  About    *)
(* the migration no discipline of the operator is assumed but the one that *)
(* MigrationNext states: no plan is applied while runs are collected.      *)
(***************************************************************************)
EXTENDS LegacyMigration, IngestRunsProofs

USE DEF At, Live

-----------------------------------------------------------------------------
(* Type correctness, and what the collector's steps change.                   *)

\* The collector's record and the search's snapshot.
BesideInv ==
  /\ gc \in [pc : {"idle", "pick", "vectors", "metadata"}, list : SUBSET Runs,
             unsettled : SUBSET Runs, run : Runs \cup {NoRun}, todo : SUBSET Targets, cleared : SUBSET Targets]
  /\ gc.pc \in {"vectors", "metadata"} => gc.run \in Runs \ gc.list
  /\ gc.pc = "idle" => gc.list = {}
  /\ reader \in Runs \cup {NoRun}

TypeInv == IngestInv /\ BesideInv

\* The runs the collection in progress may still delete from.
GcRuns == gc.list \cup {r \in Runs : gc.pc \in {"vectors", "metadata"} /\ r = gc.run}

LEMMA TypeInit == Init => TypeInv
<1>. SUFFICES ASSUME Init PROVE BesideInv
  BY InitSound DEF Init, TypeInv
<1>. QED
  BY DEF Init, IngestInit, StoreInit, BesideInv, IdleGc, NoRun

\* The candidates that the listing finds failed or worked on.
UnsettledCandidates == {r \in Candidates : status[r] = "failed" \/ WorkedOn(r)}

\* A collection starts from a listing of the runs ...
LEMMA GcStartEffect ==
  ASSUME BesideInv, GcStart
  PROVE  /\ gc.pc = "idle" /\ UNCHANGED storeVars
         /\ gc'.pc = "pick" /\ gc'.list = Candidates /\ gc'.unsettled = UnsettledCandidates
         /\ GcRuns = {} /\ GcRuns' = Candidates
<1>1. /\ gc.pc = "idle" /\ UNCHANGED storeVars /\ gc.list = {}
      /\ gc' = [gc EXCEPT !.pc = "pick", !.list = Candidates, !.unsettled = UnsettledCandidates]
  BY DEF GcStart, BesideInv, UnsettledCandidates
<1>2. gc'.pc = "pick" /\ gc'.list = Candidates /\ gc'.unsettled = UnsettledCandidates
  BY <1>1 DEF BesideInv
<1>. QED
  BY <1>1, <1>2 DEF GcRuns

\* ... goes on without adding a run to it ...
LEMMA GcMoves ==
  ASSUME BesideInv,
         \/ \E r \in Runs : GcPick(r)
         \/ \E t \in GcTargets : GcGuard(t)
         \/ GcRejected \/ GcEnd
  PROVE  /\ UNCHANGED storeVars /\ GcRuns' \subseteq GcRuns
         /\ gc'.unsettled = gc.unsettled \/ GcRuns' = {}
<1>1. CASE \E r \in Runs : GcPick(r)
  <2>1. PICK r \in Runs : GcPick(r)
    BY <1>1
  <2>2. /\ gc'.list = gc.list \ {r} /\ gc'.run = r /\ r \in gc.list /\ UNCHANGED storeVars
        /\ gc'.unsettled = gc.unsettled
    <3>1. /\ gc' = [gc EXCEPT !.pc = "vectors", !.list = @ \ {r}, !.run = r, !.todo = GcTargets]
          /\ r \in gc.list /\ UNCHANGED storeVars
      BY <2>1, Zenon DEF GcPick
    <3>. QED
      BY <3>1 DEF BesideInv
  <2>. QED
    BY <2>2 DEF GcRuns
<1>2. CASE \E t \in GcTargets : GcGuard(t)
  <2>1. PICK t \in GcTargets : GcGuard(t)
    BY <1>2
  <2>2. gc' = [gc EXCEPT !.todo = @ \ {t}, !.cleared = {t}] /\ UNCHANGED storeVars
    BY <2>1, Zenon DEF GcGuard
  <2>3. gc'.list = gc.list /\ gc'.run = gc.run /\ gc'.pc = gc.pc /\ gc'.unsettled = gc.unsettled
    BY <2>2 DEF BesideInv
  <2>. QED
    BY <2>2, <2>3 DEF GcRuns
<1>3. CASE GcRejected \/ GcEnd
  BY <1>3 DEF GcRejected, GcEnd, GcRuns, IdleGc
<1>. QED
  BY <1>1, <1>2, <1>3

\* ... and deletes either one table or the whole record of the run it has in hand.
LEMMA GcDeletes ==
  ASSUME BesideInv, StoreTypeOK
  PROVE  /\ \A t \in GcTargets : GcDeleteVectors(t) =>
              /\ gc.run \in GcRuns /\ GcRuns' = GcRuns /\ gc'.unsettled = gc.unsettled
              /\ rows' = [rows EXCEPT ![gc.run][t] = {}]
              /\ UNCHANGED <<status, finishedAt, active, ledger, meta, clock>>
         /\ GcDeleteMetadata =>
              /\ gc.run \in GcRuns /\ GcRuns' = GcRuns \ {gc.run} /\ active # gc.run
              /\ gc'.unsettled = gc.unsettled
              /\ status' = [status EXCEPT ![gc.run] = "deleted"]
              /\ finishedAt' = [finishedAt EXCEPT ![gc.run] = 0]
              /\ ledger' = [ledger EXCEPT ![gc.run] = NoChunkYet]
              /\ meta' = [meta EXCEPT ![gc.run] = {}]
              /\ UNCHANGED <<active, rows, clock>>
<1>1. ASSUME NEW t \in GcTargets, GcDeleteVectors(t)
      PROVE  gc.run \in GcRuns /\ GcRuns' = GcRuns /\ gc'.unsettled = gc.unsettled
  <2>1. gc.pc = "vectors" /\ gc.run \in Runs
    BY <1>1 DEF GcDeleteVectors, BesideInv
  <2>. DEFINE p == IF gc.todo = {} THEN "metadata" ELSE "vectors"
  <2>2. gc' = [gc EXCEPT !.cleared = {}, !.pc = p]
    BY <1>1 DEF GcDeleteVectors
  <2>3. p \in {"vectors", "metadata"}
    OBVIOUS
  <2>. HIDE DEF p
  <2>4. gc'.list = gc.list /\ gc'.run = gc.run /\ gc'.pc = p /\ gc'.unsettled = gc.unsettled
    BY <2>2 DEF BesideInv
  <2>. QED
    BY <2>1, <2>3, <2>4 DEF GcRuns
<1>2. ASSUME GcDeleteMetadata
      PROVE  gc.run \in GcRuns /\ GcRuns' = GcRuns \ {gc.run} /\ gc'.unsettled = gc.unsettled
  <2>1. gc.pc = "metadata" /\ gc.run \in Runs \ gc.list
    BY <1>2 DEF GcDeleteMetadata, BesideInv
  <2>2. gc'.list = gc.list /\ gc'.pc = "pick" /\ gc'.unsettled = gc.unsettled
    BY <1>2 DEF GcDeleteMetadata, BesideInv
  <2>. QED
    BY <2>1, <2>2 DEF GcRuns
<1>. QED
  BY <1>1, <1>2, Zenon DEF GcDeleteVectors, GcDeleteMetadata

LEMMA CollectSound ==
  ASSUME TypeInv, Collect
  PROVE  TypeInv'
<1>1. BesideInv /\ IngestInv /\ StoreTypeOK /\ GcNext /\ UNCHANGED <<jobVars, reader>>
  BY DEF TypeInv, IngestInv, Collect
<1>2. StoreTypeOK'
  <2>1. CASE UNCHANGED storeVars
    BY <1>1, <2>1 DEF StoreTypeOK, storeVars
  <2>2. ASSUME NEW t \in GcTargets, GcDeleteVectors(t)
        PROVE  StoreTypeOK'
    <3>1. gc.run \in Runs /\ t \in Targets
      BY <2>2, GcAssumption DEF GcDeleteVectors, BesideInv, TypeInv
    <3>2. rows' = [rows EXCEPT ![gc.run][t] = {}]
      BY <2>2 DEF GcDeleteVectors
    <3>3. rows' \in [Runs -> [Targets -> SUBSET Rows]]
      BY <3>1, <3>2, <1>1 DEF StoreTypeOK
    <3>. QED
      BY <1>1, <2>2, <3>3 DEF StoreTypeOK, GcDeleteVectors
  <2>3. CASE GcDeleteMetadata
    <3>1. "deleted" \in RunStatuses /\ 0 \in 0..MaxClock /\ NoChunkYet \in [Chunks -> LedgerRow]
      BY StoreAssumption DEF RunStatuses, NoChunkYet, LedgerRow, ChunkStatuses
    <3>. QED
      BY <1>1, <2>3, <3>1 DEF StoreTypeOK, GcDeleteMetadata
  <2>. QED
    BY <1>1, <2>1, <2>2, <2>3, GcStartEffect, GcMoves DEF GcNext
<1>3. IngestInv'
  BY <1>1, <1>2 DEF IngestInv, jobVars
<1>4. reader' \in Runs \cup {NoRun}
  BY <1>1 DEF BesideInv
<1>5. BesideInv'
  <2>1. CASE GcStart
    <3>1. gc' = [gc EXCEPT !.pc = "pick", !.list = Candidates, !.unsettled = UnsettledCandidates]
      BY <2>1 DEF GcStart, UnsettledCandidates
    <3>2. Candidates \in SUBSET Runs /\ UnsettledCandidates \in SUBSET Runs
      BY DEF Candidates, UnsettledCandidates
    <3>. QED
      BY <3>1, <3>2, <1>1, <1>4 DEF BesideInv
  <2>2. ASSUME NEW r \in Runs, GcPick(r)
        PROVE  BesideInv'
    BY <2>2, <1>1, <1>4, GcAssumption DEF GcPick, BesideInv
  <2>3. ASSUME NEW t \in GcTargets, GcGuard(t)
        PROVE  BesideInv'
    BY <2>3, <1>1, <1>4, GcAssumption DEF GcGuard, BesideInv
  <2>4. ASSUME NEW t \in GcTargets, GcDeleteVectors(t)
        PROVE  BesideInv'
    <3>. DEFINE p == IF gc.todo = {} THEN "metadata" ELSE "vectors"
    <3>1. gc' = [gc EXCEPT !.cleared = {}, !.pc = p] /\ gc.pc = "vectors"
      BY <2>4 DEF GcDeleteVectors
    <3>2. p \in {"vectors", "metadata"}
      OBVIOUS
    <3>. HIDE DEF p
    <3>. QED
      BY <3>1, <3>2, <1>1, <1>4 DEF BesideInv
  <2>5. CASE GcDeleteMetadata
    BY <2>5, <1>1, <1>4 DEF GcDeleteMetadata, BesideInv
  <2>6. CASE GcRejected \/ GcEnd
    BY <2>6, <1>4 DEF GcRejected, GcEnd, BesideInv, IdleGc, NoRun
  <2>. QED
    BY <1>1, <2>1, <2>2, <2>3, <2>4, <2>5, <2>6 DEF GcNext
<1>. QED
  BY <1>3, <1>5 DEF TypeInv

\* An ingest process does not touch the collector or the search.
LEMMA IngestBeside ==
  ASSUME NEW j \in Ingestors, IngestStep(j)
  PROVE  UNCHANGED <<beside, clock>>
BY Zenon DEF IngestStep, Progress, ReadCommitted, MarkIngesting, CountCommitted, NextChunk,
   BeginChunk, PurgeGuard, PurgeTarget, GuardRejects, ChunkError, FailChunk, MarkWriting,
   CommitChunk, PurgeMetadataGuard, PurgeMetadata, WriteMetadata, WriteVectors,
   WriteVectorsTwice, RunVanished, LeaveLoop, FailRun, StartValidation, CheckControlPlane, CheckTarget, RejectRun, Activate,
   ActivationRefused, Crash, CreateRun, ResumeRun, storeVars

LEMMA IngestTypeKept ==
  ASSUME TypeInv, NEW j \in Ingestors, IngestStep(j)
  PROVE  TypeInv'
<1>1. IngestInv'
  BY StepSound DEF TypeInv, IngestNext
<1>2. UNCHANGED <<gc, reader>>
  BY IngestBeside DEF beside
<1>. QED
  BY <1>1, <1>2 DEF TypeInv, BesideInv

\* A search and the clock leave everything but the snapshot and the clock alone.
SearchStep == SearchBegin \/ SearchEnd

LEMMA SearchTypeKept ==
  ASSUME TypeInv, SearchStep \/ Tick
  PROVE  TypeInv'
<1>1. CASE SearchStep
  <2>1. reader' \in Runs \cup {NoRun} /\ UNCHANGED <<storeVars, gc, jobVars>>
    BY <1>1 DEF SearchStep, SearchBegin, SearchEnd, Snapshot, TypeInv, IngestInv, StoreTypeOK
  <2>. QED
    BY <2>1 DEF TypeInv, IngestInv, StoreTypeOK, BesideInv, storeVars, jobVars
<1>2. CASE Tick
  <2>1. clock' \in 0..MaxClock
    BY <1>2, StoreAssumption DEF Tick, TypeInv, IngestInv, StoreTypeOK
  <2>. QED
    BY <1>2, <2>1 DEF Tick, TypeInv, IngestInv, StoreTypeOK, BesideInv, jobVars
<1>. QED
  BY <1>1, <1>2

LEMMA TypeKept ==
  ASSUME TypeInv, [Next]_vars
  PROVE  TypeInv'
<1>1. CASE UNCHANGED vars
  BY <1>1 DEF vars, ingestVars, storeVars, beside, jobVars, TypeInv, IngestInv, StoreTypeOK, BesideInv
<1>2. CASE Next
  BY <1>2, IngestTypeKept, CollectSound, SearchTypeKept DEF Next, IngestNext, SearchStep
<1>. QED
  BY <1>1, <1>2

-----------------------------------------------------------------------------
(* Without any discipline of the operator: a collected run is gone.           *)

\* A step of a process changes the run it works on and no other.
LEMMA OtherRunsAlone ==
  ASSUME IngestInv, NEW j \in Ingestors, IngestStep(j),
         NEW q \in Runs, q # job[j].run, q # job'[j].run
  PROVE  /\ status'[q] = status[q] /\ meta'[q] = meta[q] /\ rows'[q] = rows[q]
         /\ active' # active => active' # q
<1>1. StoreTypeOK /\ job \in [Ingestors -> SoundJob]
  BY DEF IngestInv
<1>2. status'[q] = status[q]
  <2>1. ASSUME NEW s, SetRunStatus(job[j].run, s)
        PROVE  status'[q] = status[q]
    BY <1>1, <2>1 DEF SetRunStatus, StoreTypeOK
  <2>2. CASE MarkIngesting(j) \/ FailRun(j) \/ StartValidation(j) \/ RejectRun(j)
    BY <2>1, <2>2 DEF MarkIngesting, FailRun, StartValidation, RejectRun
  <2>3. CASE \E r \in Runs : CreateRun(j, r)
    <3>1. PICK r \in Runs : /\ status' = [status EXCEPT ![r] = "preflight_passed"]
                            /\ job' = [job EXCEPT ![j] = [IdleJob EXCEPT !.pc = "marking", !.run = r]]
      BY <2>3, Zenon DEF CreateRun
    <3>2. job'[j].run = r
      BY <1>1, <3>1 DEF IdleJob
    <3>. QED
      BY <1>1, <3>1, <3>2 DEF StoreTypeOK
  <2>4. CASE Activate(j)
    <3>1. status' = [status EXCEPT ![job[j].run] = "completed"]
      BY <2>4, Zenon DEF Activate
    <3>. QED
      BY <1>1, <3>1 DEF StoreTypeOK
  <2>5. CASE /\ Progress(j) \/ ChunkError(j) \/ Crash(j) \/ \E r \in Runs : ResumeRun(j, r)
             /\ ~(MarkIngesting(j) \/ FailRun(j) \/ StartValidation(j) \/ RejectRun(j) \/ Activate(j))
    <3>1. status' = status
      BY <2>5, Zenon DEF Progress, ReadCommitted, CountCommitted, NextChunk, ResumeRun, Crash,
         ChunkError, GuardRejects, FailChunk, MarkWriting, CommitChunk, SetChunkStatus,
         BeginChunk, PurgeGuard, PurgeTarget, PurgeMetadataGuard, PurgeMetadata, WriteMetadata,
         WriteVectors, WriteVectorsTwice, RunVanished, LeaveLoop, CheckControlPlane,
         CheckTarget, ActivationRefused, storeVars
    <3>. QED BY <3>1
  <2>. QED
    BY <2>2, <2>3, <2>4, <2>5 DEF IngestStep
<1>3. meta'[q] = meta[q]
  <2>1. \/ UNCHANGED meta
        \/ \E F : meta' = [meta EXCEPT ![job[j].run] = F]
    BY StoreEffect, Zenon DEF CommitChunk, PurgeMetadata, WriteMetadata, PurgeTarget, WriteVectors,
       WriteVectorsTwice
  <2>. QED
    BY <1>1, <2>1 DEF StoreTypeOK
<1>4. rows'[q] = rows[q]
  <2>1. ASSUME NEW t \in Targets, PurgeTarget(j, t) \/ WriteVectors(j, t) \/ WriteVectorsTwice(j, t)
        PROVE  \E F : rows' = [rows EXCEPT ![job[j].run][t] = F]
    BY <2>1, Zenon DEF PurgeTarget, WriteVectors, WriteVectorsTwice
  <2>2. ASSUME CommitChunk(j) \/ PurgeMetadata(j) \/ WriteMetadata(j)
        PROVE  UNCHANGED rows
    BY <2>2, Zenon DEF CommitChunk, PurgeMetadata, WriteMetadata
  <2>3. UNCHANGED rows \/ \E t \in Targets : \E F : rows' = [rows EXCEPT ![job[j].run][t] = F]
    BY <2>1, <2>2, StoreEffect
  <2>. QED
    BY <1>1, <2>3 DEF StoreTypeOK
<1>5. ASSUME active' # active
      PROVE  active' # q
  <2>1. active' = job[j].run
    BY <1>5, PointerMoves, Zenon DEF Activate
  <2>. QED
    BY <2>1
<1>. QED
  BY <1>2, <1>3, <1>4, <1>5

\* A deleted run is neither served nor on record.
GoneInv ==
  \A r \in Runs : status[r] = "deleted" =>
    r # active /\ ledger[r] = NoChunkYet /\ meta[r] = {}

\* The foreign keys refuse what a process would still write for a deleted run.
LEMMA IngestKeepsGone ==
  ASSUME TypeInv, GoneInv, NEW j \in Ingestors, IngestStep(j)
  PROVE  GoneInv'
<1>1. /\ StoreTypeOK /\ IngestInv /\ job \in [Ingestors -> SoundJob]
      /\ ledger \in [Runs -> [Chunks -> LedgerRow]] /\ meta \in [Runs -> SUBSET Segments]
  BY DEF TypeInv, IngestInv, StoreTypeOK
<1>2. ASSUME NEW r \in Runs, status'[r] = "deleted"
      PROVE  status[r] = "deleted" /\ r # active /\ ledger[r] = NoChunkYet /\ meta[r] = {}
  BY <1>1, <1>2, StatusMoves DEF GoneInv
<1>3. ASSUME NEW r \in Runs, status'[r] = "deleted"
      PROVE  r # active'
  <2>1. CASE active' = active
    BY <1>2, <1>3, <2>1
  <2>2. CASE active' # active
    <3>1. active' = job[j].run /\ status[job[j].run] = "validating"
      BY <2>2, PointerMoves, Zenon DEF Activate
    <3>. QED
      BY <1>2, <1>3, <3>1
  <2>. QED
    BY <2>1, <2>2
<1>4. ASSUME NEW r \in Runs, status'[r] = "deleted"
      PROVE  ledger'[r] = NoChunkYet
  <2>1. ledger'[r] = ledger[r]
    <3>1. ASSUME NEW c, NEW s, NEW n, SetChunkStatus(job[j].run, c, s, n)
          PROVE  ledger'[r] = ledger[r]
      <4>1. /\ status[job[j].run] # "deleted"
            /\ ledger' = [ledger EXCEPT ![job[j].run][c] = [status |-> s, expected |-> n]]
        BY <3>1 DEF SetChunkStatus, RunExists
      <4>. QED
        BY <1>1, <1>2, <1>4, <4>1
    <3>2. CASE UNCHANGED ledger
      BY <3>2
    <3>3. CASE CommitChunk(j)
      BY <3>1, <3>3 DEF CommitChunk
    <3>4. CASE PurgeMetadata(j) \/ WriteMetadata(j)
      <4>1. UNCHANGED ledger
        BY <3>4, Zenon DEF PurgeMetadata, WriteMetadata
      <4>. QED
        BY <4>1
    <3>5. CASE \E t \in Targets : PurgeTarget(j, t) \/ WriteVectors(j, t) \/ WriteVectorsTwice(j, t)
      <4>1. UNCHANGED ledger
        BY <3>5, Zenon DEF PurgeTarget, WriteVectors, WriteVectorsTwice
      <4>. QED
        BY <4>1
    <3>. QED
      BY <3>1, <3>2, <3>3, <3>4, <3>5, StoreEffect
  <2>. QED
    BY <1>2, <1>4, <2>1
<1>5. ASSUME NEW r \in Runs, status'[r] = "deleted"
      PROVE  meta'[r] \subseteq meta[r]
  <2>1. CASE UNCHANGED meta
    BY <2>1
  <2>2. CASE PurgeMetadata(j)
    <3>1. meta' = [meta EXCEPT ![job[j].run] = {s \in @ : s[1] # job[j].chunk}]
      BY <2>2 DEF PurgeMetadata
    <3>. QED
      BY <1>1, <1>5, <3>1
  <2>3. CASE WriteMetadata(j)
    <3>1. /\ meta' = [meta EXCEPT ![job[j].run] = @ \cup {<<job[j].chunk, job[j].batch + 1>>}]
          /\ status[job[j].run] # "deleted"
      BY <2>3 DEF WriteMetadata, RunExists
    <3>. QED
      BY <1>1, <1>2, <1>5, <3>1
  <2>4. CASE CommitChunk(j) \/ \E t \in Targets : PurgeTarget(j, t) \/ WriteVectors(j, t) \/ WriteVectorsTwice(j, t)
    <3>1. UNCHANGED meta
      BY <2>4, Zenon DEF CommitChunk, PurgeTarget, WriteVectors, WriteVectorsTwice
    <3>. QED
      BY <3>1
  <2>. QED
    BY <2>1, <2>2, <2>3, <2>4, StoreEffect
<1>. QED
  BY <1>2, <1>3, <1>4, <1>5 DEF GoneInv

LEMMA CollectKeepsGone ==
  ASSUME TypeInv, GoneInv, Collect
  PROVE  GoneInv'
<1>1. /\ StoreTypeOK /\ BesideInv /\ GcNext
      /\ status \in [Runs -> RunStatuses] /\ ledger \in [Runs -> [Chunks -> LedgerRow]]
      /\ meta \in [Runs -> SUBSET Segments]
  BY DEF TypeInv, IngestInv, Collect, StoreTypeOK
<1>2. CASE UNCHANGED <<status, active, ledger, meta>>
  BY <1>2 DEF GoneInv
<1>3. CASE GcDeleteMetadata
  <2>1. /\ active # gc.run /\ active' = active
        /\ status' = [status EXCEPT ![gc.run] = "deleted"]
        /\ ledger' = [ledger EXCEPT ![gc.run] = NoChunkYet]
        /\ meta' = [meta EXCEPT ![gc.run] = {}]
    BY <1>3, Zenon DEF GcDeleteMetadata
  <2>. QED
    BY <1>1, <2>1 DEF GoneInv
<1>. QED
  BY <1>1, <1>2, <1>3, GcStartEffect, GcMoves, GcDeletes DEF GcNext, storeVars

LEMMA GoneInit == Init => GoneInv
BY DEF Init, IngestInit, StoreInit, GoneInv

LEMMA GoneKept ==
  ASSUME TypeInv, GoneInv, [Next]_vars
  PROVE  GoneInv'
<1>1. CASE SearchStep \/ Tick \/ UNCHANGED vars
  <2>1. UNCHANGED <<status, active, ledger, meta>>
    BY <1>1 DEF SearchStep, SearchBegin, SearchEnd, Tick, vars, ingestVars, storeVars
  <2>. QED
    BY <2>1 DEF GoneInv
<1>. QED
  BY <1>1, IngestKeepsGone, CollectKeepsGone DEF Next, IngestNext, SearchStep

\* However resumes overlap each other and a collection, a collected run is gone for
\* good: what a process still writes for it meets a foreign key or an UPDATE that
\* finds no row.
THEOREM CollectedRunsStayGone == Spec => []CollectedStaysGone
<1>1. GoneInv => CollectedStaysGone
  BY DEF GoneInv, CollectedStaysGone
<1>. QED
  BY <1>1, GoneInit, GoneKept, TypeInit, TypeKept, PTL DEF Spec

-----------------------------------------------------------------------------
(* Without any discipline of the operator: a completed run that nobody works  *)
(* on stays out of use, and what is served stays, while a collection that has *)
(* listed both before they came to that goes on.                              *)

\* What the listing found settled is still completed, out of use and left alone.
SettledInv ==
  \A r \in GcRuns \ gc.unsettled : status[r] = "completed" /\ r # active /\ ~WorkedOn(r)

\* A process stays with its run until it is gone.
LEMMA RunKept ==
  ASSUME IngestInv, NEW j \in Ingestors, Progress(j) \/ ChunkError(j) \/ Crash(j)
  PROVE  job'[j] = IdleJob \/ job'[j].run = job[j].run
<1>. DEFINE Same == job'[j].run = job[j].run
<1>1. CASE \/ ReadCommitted(j) \/ MarkIngesting(j) \/ CountCommitted(j) \/ LeaveLoop(j)
           \/ StartValidation(j) \/ CheckControlPlane(j) \/ \E t \in Targets : CheckTarget(j, t)
  <2>. Same
    BY <1>1, FieldsOutside, Zenon
  <2>. QED
    OBVIOUS
<1>2. CASE \/ NextChunk(j) \/ BeginChunk(j) \/ MarkWriting(j) \/ PurgeMetadataGuard(j)
           \/ PurgeMetadata(j) \/ WriteMetadata(j) \/ CommitChunk(j)
           \/ \E t \in Targets : PurgeGuard(j, t) \/ PurgeTarget(j, t)
  <2>. Same
    BY <1>2, FieldsInLoop, Zenon
  <2>. QED
    OBVIOUS
<1>3. CASE \E t \in Targets : WriteVectors(j, t) \/ WriteVectorsTwice(j, t)
  <2>1. \E t \in Targets : AfterWrite(j, t)
    BY <1>3, Zenon DEF WriteVectors, WriteVectorsTwice
  <2>. Same
    BY <2>1, FieldsInLoop, Zenon
  <2>. QED
    OBVIOUS
<1>4. CASE GuardRejects(j) \/ ChunkError(j)
  <2>1. \E dead \in BOOLEAN : FailChunk(j, dead)
    BY <1>4, FailureEffect
  <2>. Same
    BY <2>1, FieldsInLoop, Zenon
  <2>. QED
    OBVIOUS
<1>5. CASE \/ RunVanished(j) \/ FailRun(j) \/ RejectRun(j) \/ Activate(j)
           \/ ActivationRefused(j) \/ Crash(j)
  BY <1>5, LastSteps
<1>. QED
  BY <1>1, <1>2, <1>3, <1>4, <1>5, Zenon DEF Progress

\* A run that process j does not work on is changed by no step of j, but for being
\* created, and if it is completed then j does not turn to it either.
LEMMA BystanderKept ==
  ASSUME TypeInv, NEW j \in Ingestors, IngestStep(j),
         NEW q \in Runs, ~(Live(j) /\ job[j].run = q)
  PROVE  /\ meta'[q] = meta[q] /\ rows'[q] = rows[q]
         /\ status'[q] = status[q] \/ status'[q] = "preflight_passed"
         /\ active' # active => active' # q
         /\ status[q] = "completed" =>
              status'[q] = "completed" /\ ~(Live(j)' /\ job'[j].run = q)
<1>1. /\ IngestInv /\ job \in [Ingestors -> SoundJob]
      /\ status \in [Runs -> RunStatuses]
  BY DEF TypeInv, IngestInv, StoreTypeOK
<1>2. ASSUME NEW r \in Runs, CreateRun(j, r)
      PROVE  /\ job'[j].run = r /\ status[r] = "none"
             /\ status' = [status EXCEPT ![r] = "preflight_passed"]
             /\ UNCHANGED <<active, meta, rows>>
  <2>1. /\ status[r] = "none" /\ status' = [status EXCEPT ![r] = "preflight_passed"]
        /\ job' = [job EXCEPT ![j] = [IdleJob EXCEPT !.pc = "marking", !.run = r]]
        /\ UNCHANGED <<active, meta, rows>>
    BY <1>2, Zenon DEF CreateRun, NewRun
  <2>. QED
    BY <1>1, <2>1 DEF IdleJob
<1>3. ASSUME NEW r \in Runs, ResumeRun(j, r)
      PROVE  /\ job'[j].run = r /\ status[r] # "completed"
             /\ UNCHANGED <<status, active, meta, rows>>
  <2>1. /\ status[r] # "completed" /\ UNCHANGED <<status, active, meta, rows>>
        /\ job' = [job EXCEPT ![j] = [IdleJob EXCEPT !.pc = "resolved", !.run = r]]
    BY <1>3 DEF ResumeRun, Resumable, storeVars
  <2>. QED
    BY <1>1, <2>1 DEF IdleJob
<1>4. CASE Progress(j) \/ ChunkError(j) \/ Crash(j)
  <2>1. q # job[j].run
    BY <1>1, <1>4, WorkingIsLive
  <2>2. job'[j] = IdleJob \/ job'[j].run = job[j].run
    BY <1>1, <1>4, RunKept
  <2>3. IdleJob.run \notin Runs
    BY StoreAssumption DEF IdleJob, Runs, NoRun
  <2>4. q # job'[j].run
    BY <2>1, <2>2, <2>3
  <2>. QED
    BY <1>1, <2>1, <2>4, OtherRunsAlone
<1>. QED
  BY <1>1, <1>2, <1>3, <1>4 DEF IngestStep

\* One step keeps the active run that nobody works on.
ServedStays ==
  active # NoRun /\ active' = active /\ ~WorkedOn(active) =>
    /\ status'[active] # "deleted"
    /\ meta'[active] = meta[active]
    /\ active \notin gc.unsettled => rows'[active] = rows[active]

LEMMA IngestKeepsSettled ==
  ASSUME TypeInv, GoneInv, SettledInv, NEW j \in Ingestors, IngestStep(j)
  PROVE  SettledInv' /\ ServedStays
<1>1. /\ \A i \in Ingestors \ {j} : job'[i] = job[i]
      /\ active \in Runs \cup {NoRun} /\ GcRuns \subseteq Runs
  <2>1. job \in [Ingestors -> SoundJob] /\ active \in Runs \cup {NoRun} /\ GcRuns \subseteq Runs
    BY DEF TypeInv, IngestInv, StoreTypeOK, BesideInv, GcRuns
  <2>2. job' = [job EXCEPT ![j] = job'[j]]
    BY <2>1, StepKeepsOthers
  <2>. QED
    BY <2>1, <2>2
<1>2. GcRuns' = GcRuns /\ gc' = gc
  BY IngestBeside DEF GcRuns, beside
<1>3. ASSUME NEW q \in GcRuns \ gc.unsettled
      PROVE  status'[q] = "completed" /\ q # active' /\ ~WorkedOn(q)'
  <2>1. status[q] = "completed" /\ q # active /\ ~WorkedOn(q) /\ q \in Runs
    BY <1>1 DEF SettledInv
  <2>2. ~(Live(j) /\ job[j].run = q)
    BY <2>1 DEF WorkedOn
  <2>3. status'[q] = "completed" /\ q # active' /\ ~(Live(j)' /\ job'[j].run = q)
    BY <2>1, <2>2, BystanderKept
  <2>. QED
    BY <1>1, <2>1, <2>3 DEF WorkedOn
<1>4. ASSUME active # NoRun, active' = active, ~WorkedOn(active)
      PROVE  /\ status'[active] # "deleted"
             /\ meta'[active] = meta[active] /\ rows'[active] = rows[active]
  <2>1. ~(Live(j) /\ job[j].run = active) /\ active \in Runs
    BY <1>1, <1>4 DEF WorkedOn
  <2>2. /\ meta'[active] = meta[active] /\ rows'[active] = rows[active]
        /\ status'[active] = status[active] \/ status'[active] = "preflight_passed"
    BY <2>1, BystanderKept
  <2>. QED
    BY <2>1, <2>2 DEF GoneInv
<1>. QED
  BY <1>2, <1>3, <1>4 DEF SettledInv, ServedStays

LEMMA CollectKeepsSettled ==
  ASSUME TypeInv, GoneInv, SettledInv, Collect
  PROVE  SettledInv' /\ ServedStays
<1>1. /\ StoreTypeOK /\ BesideInv /\ GcNext /\ job' = job /\ GcTargets \subseteq Targets
      /\ status \in [Runs -> RunStatuses] /\ meta \in [Runs -> SUBSET Segments]
      /\ rows \in [Runs -> [Targets -> SUBSET Rows]]
      /\ active \in Runs \cup {NoRun} /\ GcRuns \subseteq Runs
  BY GcAssumption DEF TypeInv, IngestInv, Collect, jobVars, StoreTypeOK, BesideInv, GcRuns
<1>2. ASSUME UNCHANGED <<status, active, meta>>,
             \A r \in GcRuns' \ gc'.unsettled : status[r] = "completed" /\ r # active /\ ~WorkedOn(r),
             active # NoRun /\ active \notin gc.unsettled => rows'[active] = rows[active]
      PROVE  SettledInv' /\ ServedStays
  BY <1>1, <1>2 DEF SettledInv, ServedStays, GoneInv, WorkedOn
<1>3. CASE GcStart
  <2>1. /\ UNCHANGED <<status, active, meta, rows>>
        /\ GcRuns' = Candidates /\ gc'.unsettled = UnsettledCandidates
    BY <1>1, <1>3, GcStartEffect DEF storeVars
  <2>2. \A r \in Candidates \ UnsettledCandidates :
          status[r] = "completed" /\ r # active /\ ~WorkedOn(r)
    BY DEF Candidates, UnsettledCandidates, Kept
  <2>. QED
    BY <1>2, <2>1, <2>2
<1>4. CASE \/ \E r \in Runs : GcPick(r)
           \/ \E t \in GcTargets : GcGuard(t)
           \/ GcRejected \/ GcEnd
  <2>1. /\ UNCHANGED <<status, active, meta, rows>> /\ GcRuns' \subseteq GcRuns
        /\ gc'.unsettled = gc.unsettled \/ GcRuns' = {}
    BY <1>1, <1>4, GcMoves DEF storeVars
  <2>. QED
    BY <1>2, <2>1 DEF SettledInv
<1>5. ASSUME NEW t \in GcTargets, GcDeleteVectors(t)
      PROVE  SettledInv' /\ ServedStays
  <2>1. /\ gc.run \in GcRuns /\ GcRuns' = GcRuns /\ gc'.unsettled = gc.unsettled
        /\ rows' = [rows EXCEPT ![gc.run][t] = {}]
        /\ UNCHANGED <<status, active, meta>>
    BY <1>1, <1>5, GcDeletes
  <2>2. ASSUME active # NoRun, active \notin gc.unsettled
        PROVE  rows'[active] = rows[active]
    <3>1. active # gc.run
      BY <2>1, <2>2 DEF SettledInv
    <3>. QED
      BY <1>1, <2>1, <2>2, <3>1
  <2>. QED
    BY <1>2, <2>1, <2>2 DEF SettledInv
<1>6. CASE GcDeleteMetadata
  <2>1. /\ gc.run \in GcRuns /\ GcRuns' = GcRuns \ {gc.run} /\ active # gc.run
        /\ gc'.unsettled = gc.unsettled /\ active' = active /\ rows' = rows
        /\ status' = [status EXCEPT ![gc.run] = "deleted"]
        /\ meta' = [meta EXCEPT ![gc.run] = {}]
    BY <1>1, <1>6, GcDeletes
  <2>2. \A q \in Runs \ {gc.run} : status'[q] = status[q] /\ meta'[q] = meta[q]
    BY <1>1, <2>1
  <2>3. SettledInv'
    BY <1>1, <2>1, <2>2 DEF SettledInv, WorkedOn
  <2>4. ServedStays
    BY <1>1, <2>1, <2>2 DEF ServedStays, GoneInv
  <2>. QED
    BY <2>3, <2>4
<1>. QED
  BY <1>1, <1>3, <1>4, <1>5, <1>6 DEF GcNext

LEMMA SettledInit == Init => SettledInv
BY DEF Init, IngestInit, StoreInit, SettledInv, IdleGc, GcRuns

LEMMA SettledKept ==
  ASSUME TypeInv, GoneInv, SettledInv, [Next]_vars
  PROVE  SettledInv' /\ ServedStays
<1>1. CASE SearchStep \/ Tick \/ UNCHANGED vars
  <2>1. UNCHANGED <<status, active, meta, rows, job, gc>>
    BY <1>1 DEF SearchStep, SearchBegin, SearchEnd, Tick, vars, ingestVars, storeVars, beside, jobVars
  <2>2. active \in Runs \cup {NoRun}
    BY DEF TypeInv, IngestInv, StoreTypeOK
  <2>. QED
    BY <2>1, <2>2 DEF SettledInv, ServedStays, GoneInv, GcRuns, WorkedOn
<1>. QED
  BY <1>1, IngestKeepsSettled, CollectKeepsSettled DEF Next, IngestNext, SearchStep

\* The listing and the deletions of a collection are far apart, and nothing locks the
\* runs in between: the active run nevertheless keeps its row, its metadata and, if
\* it was settled when listed, its vectors, for as long as nobody works on it.
THEOREM ServedRunSurvives == Spec => ServedRunKept
<1>1. TypeInv /\ GoneInv /\ SettledInv /\ [Next]_vars => [ServedStays]_vars
  BY SettledKept
<1>2. TypeInv /\ GoneInv /\ SettledInv /\ [Next]_vars => SettledInv'
  BY SettledKept
<1>. QED
  BY <1>1, <1>2, SettledInit, GoneInit, GoneKept, TypeInit, TypeKept, PTL
     DEF Spec, ServedRunKept, ServedStays

\* The collector deletes vectors of no run that is served, worked on or unfinished,
\* unless it was failed or worked on when listed: also when runs are resumed, by
\* several processes at once, completed and activated while it is in progress.
THEOREM CollectorSparesSettled == Spec => []SparesUnsettledOnly
<1>1. TypeInv /\ SettledInv => SparesUnsettledOnly
  BY DEF SettledInv, SparesUnsettledOnly, Deleting, GcRuns
<1>2. TypeInv /\ GoneInv /\ SettledInv /\ [Next]_vars => SettledInv'
  BY SettledKept
<1>. QED
  BY <1>1, <1>2, SettledInit, GoneInit, GoneKept, TypeInit, TypeKept, PTL DEF Spec

-----------------------------------------------------------------------------
(* With the operator's discipline: a collection never works on a run that     *)
(* somebody ingests, validates or serves.  That no process comes to a run     *)
(* already listed is what ~GcOverlapsResume gives; that none was there when   *)
(* it was listed follows from ownership.                                      *)

\* A collection in progress holds only finished runs that nobody works on.
CollectionInv ==
  \A r \in GcRuns : /\ status[r] \in {"completed", "failed"} /\ r # active
                    /\ ~WorkedOn(r)

\* What the disciplined operator relies on, whatever the inserts do.
SharedInv == TypeInv /\ CoreInv /\ CollectionInv

\* No process turns to a run that a collection in progress has listed.
LEMMA IngestConfined ==
  ASSUME ExclusiveResume, ~GcOverlapsResume, SharedInv, NEW j \in Ingestors, IngestStep(j)
  PROVE  \E r \in Runs : /\ status[r] # "completed" /\ r \notin GcRuns
                         /\ ConfinedTo(j, r)
                         /\ \A i \in Ingestors \ {j} : Live(i) => job[i].run # r
<1>1. IngestInv /\ OwnershipInv /\ CollectionInv /\ BesideInv
  BY DEF SharedInv, CoreInv, TypeInv
<1>2. PICK r \in Runs : /\ status[r] # "completed" /\ ConfinedTo(j, r)
                        /\ \A i \in Ingestors \ {j} : Live(i) => job[i].run # r
                        /\ \/ Live(j) /\ r = job[j].run
                           \/ status[r] = "none" \/ ResumeRun(j, r)
  BY <1>1, StepConfined
<1>3. ResumeRun(j, r) => gc.pc = "idle"
  BY DEF ResumeRun
<1>4. gc.pc = "idle" => GcRuns = {}
  BY <1>1 DEF BesideInv, GcRuns
<1>5. r \notin GcRuns
  BY <1>1, <1>2, <1>3, <1>4 DEF CollectionInv, WorkedOn
<1>. QED
  BY <1>2, <1>5

\* What a collector's step does to the stores, as far as the runs it does not work
\* on can tell: nothing.
LEMMA CollectConfined ==
  ASSUME TypeInv, Collect
  PROVE  /\ UNCHANGED <<job, active, clock, reader>>
         /\ ~GcStart => GcRuns' \subseteq GcRuns
         /\ \A q \in Runs \ GcRuns :
              /\ status'[q] = status[q] /\ finishedAt'[q] = finishedAt[q]
              /\ ledger'[q] = ledger[q] /\ meta'[q] = meta[q] /\ rows'[q] = rows[q]
         /\ \A q \in GcRuns :
              /\ \/ status'[q] = status[q] /\ finishedAt'[q] = finishedAt[q]
                 \/ status'[q] = "deleted" /\ q \notin GcRuns'
              /\ ledger'[q] = ledger[q] \/ ledger'[q] = NoChunkYet
              /\ \A t \in Targets : rows'[q][t] \subseteq rows[q][t]
<1>1. StoreTypeOK /\ BesideInv /\ GcNext /\ UNCHANGED <<job, reader>> /\ GcRuns \subseteq Runs
  BY DEF TypeInv, IngestInv, Collect, jobVars, BesideInv, GcRuns
<1>2. CASE UNCHANGED storeVars /\ (GcStart \/ GcRuns' \subseteq GcRuns)
  BY <1>1, <1>2 DEF storeVars
<1>3. ASSUME NEW t \in GcTargets, GcDeleteVectors(t)
      PROVE  /\ GcRuns' = GcRuns /\ UNCHANGED <<status, finishedAt, active, ledger, meta, clock>>
             /\ \A q \in Runs \ GcRuns : rows'[q] = rows[q]
             /\ \A q \in GcRuns, u \in Targets : rows'[q][u] \subseteq rows[q][u]
  <2>1. gc.run \in GcRuns /\ GcRuns' = GcRuns /\ UNCHANGED <<status, finishedAt, active, ledger, meta, clock>>
    BY <1>1, <1>3, GcDeletes
  <2>2. rows' = [rows EXCEPT ![gc.run][t] = {}]
    BY <1>3, Zenon DEF GcDeleteVectors
  <2>. QED
    BY <1>1, <2>1, <2>2 DEF StoreTypeOK
<1>4. ASSUME GcDeleteMetadata
      PROVE  /\ GcRuns' \subseteq GcRuns /\ UNCHANGED <<active, rows, clock>>
             /\ \A q \in Runs \ GcRuns : /\ status'[q] = status[q] /\ finishedAt'[q] = finishedAt[q]
                                         /\ ledger'[q] = ledger[q] /\ meta'[q] = meta[q]
             /\ \A q \in GcRuns : \/ status'[q] = status[q] /\ finishedAt'[q] = finishedAt[q]
                                  \/ status'[q] = "deleted" /\ q \notin GcRuns'
             /\ \A q \in GcRuns : ledger'[q] = ledger[q] \/ ledger'[q] = NoChunkYet
  <2>1. gc.run \in GcRuns /\ GcRuns' = GcRuns \ {gc.run} /\ UNCHANGED <<active, rows, clock>>
    BY <1>1, <1>4, GcDeletes
  <2>2. /\ status' = [status EXCEPT ![gc.run] = "deleted"]
        /\ finishedAt' = [finishedAt EXCEPT ![gc.run] = 0]
        /\ ledger' = [ledger EXCEPT ![gc.run] = NoChunkYet]
        /\ meta' = [meta EXCEPT ![gc.run] = {}]
    BY <1>4, Zenon DEF GcDeleteMetadata
  <2>. QED
    BY <1>1, <2>1, <2>2 DEF StoreTypeOK
<1>5. CASE GcStart
  BY <1>1, <1>2, <1>5, GcStartEffect
<1>6. CASE \/ \E r \in Runs : GcPick(r)
           \/ \E t \in GcTargets : GcGuard(t)
           \/ GcRejected \/ GcEnd
  BY <1>1, <1>2, <1>6, GcMoves
<1>7. CASE \E t \in GcTargets : GcDeleteVectors(t)
  BY <1>1, <1>3, <1>7
<1>8. CASE GcDeleteMetadata
  BY <1>1, <1>4, <1>8
<1>. QED
  BY <1>1, <1>5, <1>6, <1>7, <1>8 DEF GcNext

LEMMA IngestKeepsCollection ==
  ASSUME ExclusiveResume, ~GcOverlapsResume, SharedInv, NEW j \in Ingestors, IngestStep(j)
  PROVE  CollectionInv'
<1>1. PICK r \in Runs : /\ r \notin GcRuns /\ ConfinedTo(j, r)
                        /\ \A i \in Ingestors \ {j} : Live(i) => job[i].run # r
  BY IngestConfined
<1>2. GcRuns' = GcRuns
  BY IngestBeside DEF GcRuns, beside
<1>3. ASSUME NEW q \in GcRuns
      PROVE  status'[q] \in {"completed", "failed"} /\ q # active' /\ ~WorkedOn(q)'
  <2>1. q \in Runs \ {r}
    BY <1>1 DEF SharedInv, TypeInv, BesideInv, GcRuns
  <2>2. status'[q] = status[q] /\ active' \in {active, r} /\ (job'[j].pc # "idle" => job'[j].run = r)
    BY <1>1, <2>1 DEF ConfinedTo
  <2>3. \A i \in Ingestors \ {j} : job'[i] = job[i]
    BY StepKeepsOthers DEF SharedInv, TypeInv, IngestInv
  <2>. QED
    BY <2>1, <2>2, <2>3 DEF SharedInv, CollectionInv, WorkedOn
<1>. QED
  BY <1>2, <1>3 DEF CollectionInv

LEMMA CollectKeepsCollection ==
  ASSUME ~GcOverlapsResume, SharedInv, Collect
  PROVE  CollectionInv'
<1>1. TypeInv /\ CollectionInv /\ OwnershipInv /\ BesideInv
  BY DEF SharedInv, TypeInv, CoreInv
<1>2. UNCHANGED <<job, active>>
  BY <1>1, CollectConfined
<1>3. CASE GcStart
  <2>1. GcRuns' = Candidates /\ UNCHANGED status /\ gc.pc = "idle"
    BY <1>1, <1>3, GcStartEffect DEF storeVars
  <2>2. ~Resolving
    BY <2>1 DEF Collect
  <2>3. ASSUME NEW q \in Candidates
        PROVE  status[q] \in {"completed", "failed"} /\ q # active /\ ~WorkedOn(q)
    <3>1. status[q] \in {"completed", "failed"} /\ q # active
      BY DEF Candidates, Kept
    <3>2. ASSUME NEW i \in Ingestors, Live(i)
          PROVE  status[job[i].run] \notin {"completed", "failed"}
      BY <1>1, <2>2, <3>2 DEF OwnershipInv, StatusAt, Resolving
    <3>. QED
      BY <3>1, <3>2 DEF WorkedOn
  <2>. QED
    BY <1>2, <2>1, <2>3 DEF CollectionInv, WorkedOn
<1>4. CASE ~GcStart
  <2>1. ASSUME NEW q \in GcRuns'
        PROVE  status'[q] = status[q] /\ q \in GcRuns
    BY <1>1, <1>4, <2>1, CollectConfined
  <2>. QED
    BY <1>1, <1>2, <2>1 DEF CollectionInv, WorkedOn
<1>. QED
  BY <1>3, <1>4

LEMMA CollectKeepsCore ==
  ASSUME SharedInv, Collect
  PROVE  /\ CoreInv'
         /\ OnceInv => OnceInv'
<1>1. /\ TypeInv /\ CollectionInv /\ OwnershipInv /\ LedgerInv /\ BesideInv /\ StoreTypeOK
      /\ active \in Runs \cup {NoRun} /\ job' = job /\ active' = active /\ GcRuns \subseteq Runs
  BY CollectConfined DEF SharedInv, TypeInv, CoreInv, IngestInv, StoreTypeOK, BesideInv, GcRuns
<1>2. \A j \in Ingestors : Live(j) => job[j].run \in Runs \ GcRuns
  BY <1>1 DEF CollectionInv, WorkedOn, TypeInv, IngestInv, SoundJob
<1>3. OwnershipInv'
  <2>1. active # NoRun => active \in Runs \ GcRuns
    BY <1>1 DEF CollectionInv
  <2>. QED
    BY <1>1, <1>2, <2>1, CollectConfined DEF OwnershipInv
<1>4. ASSUME NEW q \in Runs
      PROVE  LedgerRun(q)' /\ (OnceRun(q) => OnceRun(q)')
  <2>1. status'[q] = "none" => status[q] = "none"
    BY <1>1, CollectConfined
  <2>2. ledger'[q] = ledger[q] \/ ledger'[q] = NoChunkYet
    BY <1>1, CollectConfined
  <2>3. \A t \in Targets : rows'[q][t] \subseteq rows[q][t]
    BY <1>1, CollectConfined
  <2>4. LedgerRun(q) /\ CommittedIn(NoChunkYet) = {}
    BY <1>1 DEF LedgerInv, CommittedIn, NoChunkYet
  <2>5. LedgerRun(q)'
    BY <2>1, <2>2, <2>4 DEF LedgerRun, CommittedIn
  <2>6. OnceRun(q) => OnceRun(q)'
    BY <2>1, <2>3 DEF OnceRun
  <2>. QED
    BY <2>5, <2>6
<1>5. ASSUME NEW j \in Ingestors, Live(j)
      PROVE  LedgerJob(j)' /\ (OnceJob(j) => OnceJob(j)')
  <2>. DEFINE r == job[j].run
  <2>1. /\ ledger'[r] = ledger[r] /\ meta'[r] = meta[r] /\ rows'[r] = rows[r]
        /\ job'[j] = job[j]
    BY <1>1, <1>2, <1>5, CollectConfined
  <2>2. LedgerJob(j)
    BY <1>1, <1>5 DEF LedgerInv
  <2>3. LedgerJob(j)'
    <3>1. CountsAgree(j) => CountsAgree(j)'
      BY <2>1 DEF CountsAgree
    <3>2. CommittedIn(ledger[job[j].run])' = CommittedIn(ledger[job[j].run])
      BY <2>1 DEF CommittedIn
    <3>. QED
      BY <2>1, <2>2, <3>1, <3>2 DEF LedgerJob
  <2>4. OnceJob(j) => OnceJob(j)'
    BY <2>1 DEF OnceJob
  <2>. QED
    BY <2>3, <2>4
<1>6. LedgerInv' /\ (OnceInv => OnceInv')
  BY <1>1, <1>4, <1>5 DEF LedgerInv, OnceInv
<1>. QED
  BY <1>1, <1>3, <1>6, CollectSound DEF CoreInv, TypeInv

\* A search and the clock change neither stores nor processes nor the collector.
LEMMA SearchConfined ==
  ASSUME SearchStep \/ Tick
  PROVE  /\ UNCHANGED <<status, finishedAt, active, ledger, meta, rows, jobVars, gc>>
         /\ GcRuns' = GcRuns
BY DEF SearchStep, SearchBegin, SearchEnd, Tick, storeVars, GcRuns

LEMMA SharedInit == Init => SharedInv /\ OnceInv
<1>. SUFFICES ASSUME Init PROVE SharedInv /\ OnceInv
  OBVIOUS
<1>1. TypeInv /\ CoreInv /\ OnceInv
  BY TypeInit, CoreInit, OnceInit DEF Init
<1>2. GcRuns = {}
  BY DEF Init, IngestInit, StoreInit, IdleGc, GcRuns
<1>. QED
  BY <1>1, <1>2 DEF SharedInv, CollectionInv

LEMMA SharedKept ==
  ASSUME ExclusiveResume, ~GcOverlapsResume, SharedInv, [Next]_vars
  PROVE  /\ SharedInv'
         /\ MaxAmbiguous = 0 /\ OnceInv => OnceInv'
<1>1. TypeInv' /\ TypeInv /\ CoreInv /\ CollectionInv
  BY TypeKept DEF SharedInv
<1>2. ASSUME NEW j \in Ingestors, IngestStep(j)
      PROVE  CoreInv' /\ CollectionInv' /\ (MaxAmbiguous = 0 /\ OnceInv => OnceInv')
  BY <1>1, <1>2, CoreKept, OnceStep, IngestKeepsCollection DEF IngestNext
<1>3. CASE Collect
  BY <1>1, <1>3, CollectKeepsCore, CollectKeepsCollection DEF SharedInv
<1>4. CASE SearchStep \/ Tick \/ UNCHANGED vars
  <2>1. /\ UNCHANGED <<status, finishedAt, active, ledger, meta, rows, job, crashes, errors, ambiguous>>
        /\ GcRuns' = GcRuns
    BY <1>4, SearchConfined DEF vars, ingestVars, storeVars, beside, jobVars, GcRuns
  <2>2. OwnershipInv' /\ CollectionInv'
    BY <1>1, <2>1 DEF CoreInv, OwnershipInv, CollectionInv, WorkedOn
  <2>3. LedgerInv'
    BY <1>1, <2>1 DEF CoreInv, LedgerInv, LedgerRun, LedgerJob, CountsAgree
  <2>4. OnceInv => OnceInv'
    BY <2>1 DEF OnceInv, OnceRun, OnceJob
  <2>. QED
    BY <1>1, <2>2, <2>3, <2>4 DEF CoreInv, TypeInv, SharedInv
<1>. QED
  BY <1>1, <1>2, <1>3, <1>4 DEF SharedInv, Next, IngestNext, SearchStep

-----------------------------------------------------------------------------
(* Searches and rollbacks.  A collection takes completed runs, so that the    *)
(* run a search still reads, and one to roll back to, survive it rests on the *)
(* order of their activations: what is retained is the newest previous run,   *)
(* and a search in progress reads the active run or that one.                 *)

\* Run r is stored entirely, every row once.
Whole(r) == meta[r] = Segments /\ \A t \in Targets : rows[r][t] = Full

\* Completed runs are ordered by their activation, the active one is the last.
HistoryInv ==
  /\ \A r \in Completed : /\ finishedAt[r] <= clock
                          /\ active # NoRun /\ finishedAt[r] <= finishedAt[active]
  /\ active # NoRun => active \in Completed /\ Whole(active)

\* Run q survives: it is complete and no collection has it on its list.
Safe(q) == Whole(q) /\ q \notin GcRuns

\* A completed run is damaged, or about to be, only behind a later previous run
\* that survives.
RetentionInv ==
  \A r \in Completed : ~Safe(r) => \E q \in Previous : Safe(q) /\ finishedAt[q] > finishedAt[r]

\* A search reads the active run or the one that was active last.
ReaderInv ==
  reader # NoRun =>
    /\ reader \in Completed /\ Safe(reader)
    /\ reader # active => \A q \in Previous : finishedAt[q] <= finishedAt[reader]

VersionInv == SharedInv /\ OnceInv /\ HistoryInv /\ RetentionInv /\ ReaderInv

\* The order of the numbers is well founded: a set of them has a least element.
Below == {p \in Nat \X Nat : p[1] < p[2]}

LEMMA LeastNumber ==
  ASSUME NEW T \in SUBSET Nat, T # {}
  PROVE  \E n \in T : \A m \in T : n <= m
<1>1. IsWellFoundedOn(Below, Nat)
  BY NatLessThanWellFounded, Zenon DEF OpToRel, Below
<1>2. PICK n \in T : \A m \in T : <<m, n>> \notin Below
  BY <1>1, WFMin, Zenon
<1>3. \A m \in T : ~(m < n)
  BY <1>2 DEF Below
<1>4. \A m \in T : m \in Nat /\ n \in Nat
  OBVIOUS
<1>. QED
  BY <1>3, <1>4

LEMMA StampType ==
  ASSUME StoreTypeOK
  PROVE  /\ finishedAt \in [Runs -> Nat] /\ \A r \in Runs : finishedAt[r] <= MaxClock
         /\ clock \in Nat /\ MaxClock \in Nat
BY StoreAssumption DEF StoreTypeOK

\* There is a newest previous run.
LEMMA NewestPrevious ==
  ASSUME StoreTypeOK, Previous # {}
  PROVE  \E p \in Previous : \A q \in Previous : finishedAt[q] <= finishedAt[p]
<1>. DEFINE T == {MaxClock - finishedAt[q] : q \in Previous}
<1>1. \A q \in Previous : finishedAt[q] \in Nat /\ finishedAt[q] <= MaxClock /\ MaxClock \in Nat
  BY StampType DEF Previous
<1>2. T \in SUBSET Nat /\ T # {}
  BY <1>1
<1>3. PICK n \in T : \A m \in T : n <= m
  BY <1>2, LeastNumber
<1>4. PICK p \in Previous : n = MaxClock - finishedAt[p]
  BY <1>3
<1>5. \A q \in Previous : MaxClock - finishedAt[p] <= MaxClock - finishedAt[q]
  BY <1>3, <1>4
<1>. QED
  BY <1>1, <1>4, <1>5

\* No two completed runs share a stamp when a collection starts.
LEMMA DistinctStamps ==
  ASSUME StoreTypeOK,
         Cardinality({finishedAt[r] : r \in Completed}) = Cardinality(Completed)
  PROVE  \A q, r \in Completed : finishedAt[q] = finishedAt[r] => q = r
<1>. DEFINE T == {finishedAt[r] : r \in Completed}
            f == [r \in Completed |-> finishedAt[r]]
<1>1. IsFiniteSet(Completed)
  <2>1. IsFiniteSet(Runs)
    BY FS_Interval, StoreAssumption DEF Runs
  <2>2. Completed \in SUBSET Runs
    BY DEF Completed
  <2>. QED
    BY <2>1, <2>2, FS_Subset
<1>2. f \in Surjection(Completed, T)
  BY DEF Surjection
<1>3. f \in Injection(Completed, T)
  BY <1>1, <1>2, FS_Surjection
<1>. QED
  BY <1>3 DEF Injection, IsInjective

\* The newest previous run is retained.
LEMMA NewestRetained ==
  ASSUME StoreTypeOK, Retain >= 1, NEW p \in Previous,
         \A q \in Previous : finishedAt[q] <= finishedAt[p],
         \A q, r \in Completed : finishedAt[q] = finishedAt[r] => q = r
  PROVE  p \notin Candidates
<1>1. Previous \subseteq Completed /\ \A q \in Previous : finishedAt[q] \in Nat
  BY StampType DEF Previous, Completed
<1>2. \A q \in Previous : ~RanksBefore(q, p)
  BY <1>1, StampType DEF RanksBefore, Previous, Runs
<1>3. Cardinality({q \in Previous : RanksBefore(q, p)}) = 0
  <2>1. {q \in Previous : RanksBefore(q, p)} = {}
    BY <1>2
  <2>. QED
    BY <2>1, FS_EmptySet
<1>4. p \in Kept
  BY <1>3, GcAssumption DEF Kept
<1>. QED
  BY <1>4 DEF Candidates

\* A step that neither moves the pointer nor lists runs keeps the history, the
\* rollback target and the search in progress, if it leaves the completed runs
\* alone that no collection has listed.
LEMMA Undisturbed ==
  ASSUME VersionInv, TypeInv', UNCHANGED active, clock' >= clock, GcRuns' \subseteq GcRuns,
         Completed' \subseteq Completed,
         \A q \in Completed' : finishedAt'[q] = finishedAt[q],
         \A q \in Completed \ GcRuns :
           q \in Completed' /\ meta'[q] = meta[q] /\ rows'[q] = rows[q]
  PROVE  /\ HistoryInv' /\ RetentionInv'
         /\ reader' = reader => ReaderInv'
<1>1. /\ HistoryInv /\ RetentionInv /\ ReaderInv /\ CollectionInv /\ StoreTypeOK
      /\ \A r \in Runs : finishedAt[r] \in Nat
      /\ clock \in Nat /\ clock' \in Nat
  BY StampType DEF VersionInv, SharedInv, TypeInv, IngestInv, StoreTypeOK
<1>2. \A q \in Completed \ GcRuns : q \in Completed' /\ (Whole(q) => Whole(q)')
  BY DEF Whole
<1>3. Completed \subseteq Runs /\ (active # NoRun => active \in Completed \ GcRuns)
  BY <1>1 DEF Completed, HistoryInv, CollectionInv
<1>4. \A q \in Completed : Safe(q) => q \in Completed' /\ Safe(q)'
  BY <1>2 DEF Safe
<1>5. Previous = Completed \ {active} /\ Previous' = Completed' \ {active}
  BY DEF Previous, Completed
<1>6. HistoryInv'
  <2>1. ASSUME NEW r \in Completed'
        PROVE  /\ finishedAt'[r] <= clock' /\ active # NoRun
               /\ finishedAt'[r] <= finishedAt'[active]
    <3>1. /\ finishedAt[r] <= clock /\ active # NoRun /\ finishedAt[r] <= finishedAt[active]
          /\ r \in Runs
      BY <1>1, <1>3 DEF HistoryInv
    <3>2. finishedAt'[r] = finishedAt[r] /\ finishedAt'[active] = finishedAt[active]
      BY <1>2, <1>3, <3>1
    <3>. QED
      BY <1>1, <3>1, <3>2
  <2>. QED
    BY <1>1, <1>2, <1>3, <2>1 DEF HistoryInv
<1>7. RetentionInv'
  <2>. SUFFICES ASSUME NEW r \in Completed', ~Safe(r)'
                PROVE  \E q \in Previous' : Safe(q)' /\ finishedAt'[q] > finishedAt'[r]
    BY DEF RetentionInv
  <2>1. r \in Completed /\ ~Safe(r)
    BY <1>4
  <2>2. PICK q \in Previous : Safe(q) /\ finishedAt[q] > finishedAt[r]
    BY <1>1, <2>1 DEF RetentionInv
  <2>3. q \in Previous' /\ Safe(q)'
    BY <1>4, <1>5, <2>2
  <2>. QED
    BY <1>5, <2>2, <2>3
<1>8. ASSUME NEW x, x = reader, x # NoRun
      PROVE  /\ x \in Completed' /\ Safe(x)'
             /\ x # active => \A q \in Previous' : finishedAt'[q] <= finishedAt'[x]
  <2>1. /\ x \in Completed /\ Safe(x)
        /\ x # active => \A q \in Previous : finishedAt[q] <= finishedAt[x]
    BY <1>1, <1>8 DEF ReaderInv
  <2>2. x \in Completed' /\ Safe(x)'
    BY <1>4, <2>1
  <2>. QED
    BY <1>5, <2>1, <2>2
<1>9. ASSUME reader' = reader
      PROVE  ReaderInv'
  BY <1>8, <1>9 DEF ReaderInv, Safe, Whole
<1>. QED
  BY <1>6, <1>7, <1>9

LEMMA StartKeepsVersion ==
  ASSUME Retain >= 1, VersionInv, Collect, GcStart
  PROVE  HistoryInv' /\ RetentionInv' /\ ReaderInv'
<1>1. /\ HistoryInv /\ RetentionInv /\ ReaderInv /\ BesideInv /\ StoreTypeOK
      /\ \A r \in Runs : finishedAt[r] \in Nat
  BY StampType DEF VersionInv, SharedInv, TypeInv, IngestInv
<1>2. /\ UNCHANGED <<status, finishedAt, active, meta, rows, clock, reader>>
      /\ GcRuns = {} /\ GcRuns' = Candidates /\ gc.pc = "idle"
  BY <1>1, GcStartEffect DEF Collect, storeVars
<1>3. \A q, r \in Completed : finishedAt[q] = finishedAt[r] => q = r
  BY <1>1, <1>2, DistinctStamps DEF Collect
<1>4. /\ Completed' = Completed /\ Previous' = Previous
      /\ \A q \in Runs : (Whole(q)' <=> Whole(q)) /\ (Safe(q) <=> Whole(q))
      /\ \A q \in Runs : Safe(q)' <=> Whole(q) /\ q \notin Candidates
  BY <1>2 DEF Completed, Previous, Whole, Safe
<1>5. active \notin Candidates
  BY DEF Candidates, Kept
<1>6. /\ Previous = Completed \ {active} /\ Completed \subseteq Runs
  BY DEF Previous, Completed
<1>7. ASSUME NEW p \in Previous, \A q \in Previous : finishedAt[q] <= finishedAt[p]
      PROVE  p \notin Candidates
  BY <1>1, <1>3, <1>7, NewestRetained
<1>8. HistoryInv'
  BY <1>1, <1>2, <1>4 DEF HistoryInv, Whole
<1>9. RetentionInv'
  <2>. SUFFICES ASSUME NEW r \in Completed, ~Safe(r)'
                PROVE  \E q \in Previous : Safe(q)' /\ finishedAt[q] > finishedAt[r]
    BY <1>2, <1>4 DEF RetentionInv
  <2>1. r \in Previous
    BY <1>1, <1>4, <1>5, <1>6 DEF HistoryInv
  <2>2. PICK p \in Previous : \A q \in Previous : finishedAt[q] <= finishedAt[p]
    BY <1>1, <2>1, NewestPrevious
  <2>3. Safe(p)
    BY <1>1, <1>6, <2>2 DEF RetentionInv
  <2>4. Safe(p)'
    BY <1>4, <1>6, <1>7, <2>2, <2>3
  <2>5. r # p /\ finishedAt[r] # finishedAt[p]
    BY <1>3, <1>6, <2>1, <2>4
  <2>. QED
    BY <1>1, <1>6, <2>1, <2>2, <2>4, <2>5
<1>10. ASSUME NEW x, x = reader, x # NoRun
       PROVE  Safe(x)'
  BY <1>1, <1>4, <1>5, <1>6, <1>7, <1>10 DEF ReaderInv
<1>11. ReaderInv'
  BY <1>1, <1>2, <1>4, <1>10 DEF ReaderInv, Safe, Whole
<1>. QED
  BY <1>8, <1>9, <1>11

LEMMA CollectKeepsVersion ==
  ASSUME Retain >= 1, VersionInv, Collect
  PROVE  HistoryInv' /\ RetentionInv' /\ ReaderInv'
<1>1. CASE GcStart
  BY <1>1, StartKeepsVersion
<1>2. CASE ~GcStart
  <2>1. TypeInv /\ TypeInv' /\ GcRuns \subseteq Runs /\ clock \in Nat
    BY CollectSound, StampType DEF VersionInv, SharedInv, TypeInv, IngestInv, BesideInv, GcRuns
  <2>2. /\ UNCHANGED <<active, clock, reader>> /\ GcRuns' \subseteq GcRuns
        /\ \A q \in Runs : status'[q] = "completed" =>
             status[q] = "completed" /\ finishedAt'[q] = finishedAt[q]
        /\ \A q \in Runs \ GcRuns :
             status'[q] = status[q] /\ meta'[q] = meta[q] /\ rows'[q] = rows[q]
    BY <1>2, <2>1, CollectConfined
  <2>3. /\ Completed' \subseteq Completed
        /\ \A q \in Completed' : finishedAt'[q] = finishedAt[q]
        /\ \A q \in Completed \ GcRuns : q \in Completed' /\ meta'[q] = meta[q] /\ rows'[q] = rows[q]
    BY <2>2 DEF Completed
  <2>. QED
    BY <2>1, <2>2, <2>3, Undisturbed
<1>. QED
  BY <1>1, <1>2

\* A search takes its snapshot of the active run, which is whole.
LEMMA SearchKeepsVersion ==
  ASSUME VersionInv, SearchStep \/ Tick
  PROVE  HistoryInv' /\ RetentionInv' /\ ReaderInv'
<1>1. TypeInv' /\ UNCHANGED <<status, finishedAt, active, meta, rows>> /\ GcRuns' = GcRuns
  BY SearchTypeKept, SearchConfined DEF VersionInv, SharedInv
<1>2. clock \in Nat /\ clock' >= clock
  BY StampType DEF VersionInv, SharedInv, TypeInv, IngestInv, SearchStep, SearchBegin, SearchEnd,
     Tick, storeVars
<1>3. Completed' = Completed /\ Previous' = Previous
  BY <1>1 DEF Completed, Previous
<1>4. HistoryInv' /\ RetentionInv' /\ (reader' = reader => ReaderInv')
  BY <1>1, <1>2, <1>3, Undisturbed
<1>5. reader' = NoRun => ReaderInv'
  BY DEF ReaderInv
<1>6. ASSUME SearchBegin
      PROVE  ReaderInv'
  <2>1. reader' = active /\ active # NoRun
    BY <1>6 DEF SearchBegin, Snapshot
  <2>2. active \in Completed /\ Whole(active) /\ active \notin GcRuns
    BY <2>1 DEF VersionInv, SharedInv, HistoryInv, CollectionInv
  <2>. QED
    BY <1>1, <1>3, <2>1, <2>2 DEF ReaderInv, Safe, Whole
<1>. QED
  BY <1>4, <1>5, <1>6 DEF SearchStep, SearchEnd, Tick

\* A run that becomes active is whole, the newest, and on no collector's list; the
\* run it replaces is the newest of the others.
LEMMA ActivateKeepsVersion ==
  ASSUME VersionInv, NEW j \in Ingestors, Activate(j)
  PROVE  HistoryInv' /\ RetentionInv' /\ ReaderInv'
<1>. DEFINE r == job[j].run
<1>1. /\ HistoryInv /\ RetentionInv /\ ReaderInv /\ CollectionInv /\ CoreInv /\ OnceInv
      /\ StoreTypeOK /\ clock \in Nat
      /\ \A q \in Runs : finishedAt[q] \in Nat
  BY StampType DEF VersionInv, SharedInv, TypeInv, IngestInv
<1>2. /\ job[j].pc = "conclude" /\ ~job[j].failed /\ status[r] = "validating" /\ active' = r
      /\ status' = [status EXCEPT ![r] = "completed"]
      /\ finishedAt' = [finishedAt EXCEPT ![r] = clock]
      /\ r # active => reader \in {NoRun, active}
      /\ UNCHANGED <<meta, rows, clock, gc, reader>>
  BY Zenon DEF Activate, beside
<1>3. r \in Runs /\ Whole(r) /\ r \notin GcRuns /\ NoRun \notin Runs
  BY <1>1, <1>2, ConcludedStored DEF CoreInv, IngestInv, SoundJob, Whole, CollectionInv, WorkedOn,
     Runs, NoRun
<1>4. /\ Completed' = Completed \cup {r} /\ r \notin Completed /\ Completed \subseteq Runs
      /\ GcRuns' = GcRuns
  BY <1>1, <1>2, <1>3 DEF Completed, GcRuns, StoreTypeOK
<1>5. /\ \A q \in Completed : finishedAt'[q] = finishedAt[q] /\ q # r
      /\ finishedAt'[r] = clock
  BY <1>1, <1>2, <1>3, <1>4 DEF StoreTypeOK
<1>6. /\ Previous = Completed \ {active} /\ Previous' = Completed
  BY <1>2, <1>4 DEF Previous, Completed
<1>7. \A q \in Runs : (Whole(q)' <=> Whole(q)) /\ (Safe(q)' <=> Safe(q))
  BY <1>2, <1>4 DEF Whole, Safe
<1>8. HistoryInv'
  <2>1. \A q \in Completed' : finishedAt'[q] <= clock
    BY <1>1, <1>4, <1>5 DEF HistoryInv
  <2>2. Whole(active)'
    BY <1>2, <1>3 DEF Whole
  <2>. QED
    BY <1>2, <1>3, <1>4, <1>5, <2>1, <2>2 DEF HistoryInv
<1>9. RetentionInv'
  <2>. SUFFICES ASSUME NEW q \in Completed', ~Safe(q)'
                PROVE  \E p \in Previous' : Safe(p)' /\ finishedAt'[p] > finishedAt'[q]
    BY DEF RetentionInv
  <2>1. q \in Completed /\ ~Safe(q)
    BY <1>3, <1>4, <1>7 DEF Safe
  <2>. QED
    BY <1>1, <1>4, <1>5, <1>6, <1>7, <2>1 DEF RetentionInv
<1>10. ASSUME reader # NoRun
       PROVE  /\ reader = active /\ active \in Completed /\ Safe(active) /\ r # active
              /\ \A q \in Completed : finishedAt[q] <= finishedAt[active]
  <2>1. r # active
    BY <1>1, <1>3, <1>4 DEF HistoryInv
  <2>. QED
    BY <1>1, <1>2, <1>10, <2>1 DEF HistoryInv, CollectionInv, Safe
<1>11. ReaderInv'
  <2>1. ASSUME NEW x, x = reader, x # NoRun
        PROVE  x \in Completed' /\ Safe(x)' /\ \A q \in Previous' : finishedAt'[q] <= finishedAt'[x]
    BY <1>4, <1>5, <1>6, <1>7, <1>10, <2>1
  <2>. QED
    BY <1>2, <2>1 DEF ReaderInv, Safe, Whole
<1>. QED
  BY <1>8, <1>9, <1>11

LEMMA IngestKeepsVersion ==
  ASSUME ExclusiveResume, ~GcOverlapsResume, VersionInv, NEW j \in Ingestors, IngestStep(j)
  PROVE  HistoryInv' /\ RetentionInv' /\ ReaderInv'
<1>1. CASE Activate(j)
  BY <1>1, ActivateKeepsVersion
<1>2. CASE ~Activate(j)
  <2>1. TypeInv' /\ StoreTypeOK /\ clock \in Nat
    BY IngestTypeKept, StampType DEF VersionInv, SharedInv, TypeInv, IngestInv
  <2>2. PICK r \in Runs : status[r] # "completed" /\ ConfinedTo(j, r)
    BY IngestConfined DEF VersionInv
  <2>3. UNCHANGED <<active, clock, gc, reader>>
    BY <1>2, PointerMoves, IngestBeside DEF beside
  <2>4. \A q \in Runs : status'[q] = "completed" => status[q] = "completed"
    BY <1>2, <2>1, StatusMoves
  <2>5. \A q \in Runs : status[q] = "completed" =>
          /\ status'[q] = "completed" /\ finishedAt'[q] = finishedAt[q]
          /\ meta'[q] = meta[q] /\ rows'[q] = rows[q]
    BY <2>2 DEF ConfinedTo
  <2>6. /\ Completed' \subseteq Completed
        /\ \A q \in Completed' : finishedAt'[q] = finishedAt[q]
        /\ \A q \in Completed \ GcRuns : q \in Completed' /\ meta'[q] = meta[q] /\ rows'[q] = rows[q]
    BY <2>4, <2>5 DEF Completed
  <2>7. GcRuns' = GcRuns /\ clock' >= clock
    BY <2>1, <2>3 DEF GcRuns
  <2>. QED
    BY <2>1, <2>3, <2>6, <2>7, Undisturbed
<1>. QED
  BY <1>1, <1>2

LEMMA VersionInit == Init => VersionInv
<1>. SUFFICES ASSUME Init PROVE HistoryInv /\ RetentionInv /\ ReaderInv
  BY SharedInit DEF VersionInv
<1>1. Completed = {} /\ active = NoRun /\ reader = NoRun
  BY DEF Init, IngestInit, StoreInit, Completed
<1>. QED
  BY <1>1 DEF HistoryInv, RetentionInv, ReaderInv

LEMMA VersionKept ==
  ASSUME ExclusiveResume, ~GcOverlapsResume, MaxAmbiguous = 0, Retain >= 1,
         VersionInv, [Next]_vars
  PROVE  VersionInv'
<1>1. SharedInv' /\ OnceInv' /\ TypeInv'
  BY SharedKept DEF VersionInv, SharedInv
<1>2. CASE UNCHANGED vars
  <2>1. /\ UNCHANGED <<active, reader>> /\ GcRuns' = GcRuns /\ clock' >= clock
        /\ Completed' = Completed /\ UNCHANGED <<finishedAt, meta, rows>>
    BY <1>2, StampType DEF vars, ingestVars, storeVars, beside, GcRuns, Completed, VersionInv,
       SharedInv, TypeInv, IngestInv
  <2>. QED
    BY <1>1, <2>1, Undisturbed DEF VersionInv
<1>3. CASE Next
  <2>1. HistoryInv' /\ RetentionInv' /\ ReaderInv'
    BY <1>3, IngestKeepsVersion, CollectKeepsVersion, SearchKeepsVersion DEF Next, IngestNext, SearchStep
  <2>. QED
    BY <1>1, <2>1 DEF VersionInv
<1>. QED
  BY <1>2, <1>3

-----------------------------------------------------------------------------
(* The theorems.  Retain >= 1 is what "the newest previous run" needs; with   *)
(* MaxAmbiguous > 0 a collection that dies after the vectors of a failed run  *)
(* leaves a ledger whose lost rows a repeated insert can make up for in the   *)
(* counts of finalize_run.                                                    *)

\* Every statement of a search finds the complete run its snapshot named.
THEOREM SearchesSeeWholeRuns ==
  ASSUME ExclusiveResume, ~GcOverlapsResume, MaxAmbiguous = 0, Retain >= 1
  PROVE  Spec => []SearchSeesWholeRun
<1>1. VersionInv => SearchSeesWholeRun
  BY FullMeansStored DEF VersionInv, ReaderInv, SearchSeesWholeRun, Completed, Safe, Whole
<1>. QED
  BY <1>1, VersionInit, VersionKept, PTL DEF Spec

\* A collection never deletes the last complete run one can roll back to.
THEOREM RollbackTargetSurvives ==
  ASSUME ExclusiveResume, ~GcOverlapsResume, MaxAmbiguous = 0, Retain >= 1
  PROVE  Spec => RollbackTargetKept
<1>. DEFINE Target(r) == \E q \in Runs \ {r} : q # active /\ status[q] = "completed" /\ RunStored(q)
            Kept1 == \A r \in Runs : status[r] = "completed" /\ status'[r] = "deleted" => Target(r)
<1>1. ASSUME VersionInv, NEW r \in GcRuns, status[r] = "completed"
      PROVE  Target(r)
  <2>1. r \in Completed /\ ~Safe(r)
    BY <1>1 DEF Completed, Safe, VersionInv, SharedInv, TypeInv, BesideInv, GcRuns
  <2>2. PICK q \in Previous : Safe(q) /\ finishedAt[q] > finishedAt[r]
    BY <1>1, <2>1 DEF VersionInv, RetentionInv
  <2>3. q # r
    BY <2>1, <2>2
  <2>4. RunStored(q)
    BY <2>2, FullMeansStored DEF Safe, Whole
  <2>. QED
    BY <2>2, <2>3, <2>4 DEF Previous
<1>2. ASSUME VersionInv, [Next]_vars
      PROVE  Kept1
  <2>. SUFFICES ASSUME NEW r \in Runs, status[r] = "completed", status'[r] = "deleted"
                PROVE  Target(r)
    OBVIOUS
  <2>1. CASE Collect
    <3>1. r \in GcRuns
      BY <1>2, <2>1, CollectConfined DEF VersionInv, SharedInv
    <3>. QED
      BY <1>1, <1>2, <3>1
  <2>2. ASSUME NEW j \in Ingestors, IngestStep(j)
        PROVE  FALSE
    BY <1>2, <2>2, StatusMoves DEF VersionInv, SharedInv, TypeInv, IngestInv
  <2>3. CASE SearchStep \/ Tick \/ UNCHANGED vars
    <3>1. status' = status
      BY <2>3, SearchConfined DEF vars, ingestVars, storeVars
    <3>. QED
      BY <3>1
  <2>. QED
    BY <1>2, <2>1, <2>2, <2>3 DEF Next, IngestNext, SearchStep
<1>3. VersionInv /\ [Next]_vars => [Kept1]_vars
  BY <1>2
<1>. QED
  BY <1>3, VersionInit, VersionKept, PTL DEF Spec, RollbackTargetKept

\* The pointer of a state and the run behind it, as ActiveRun sees them.
ServedWhole == Snapshot = active /\ ServedView = IF active = NoRun THEN Empty ELSE FullRun

LEMMA PointerServesWhole ==
  ASSUME TypeInv, HistoryInv
  PROVE  ServedWhole
<1>1. Snapshot = active
  BY DEF HistoryInv, Completed, Snapshot
<1>2. ASSUME active # NoRun
      PROVE  rows[active] = [t \in Targets |-> Full] /\ meta[active] = Segments
  BY <1>2 DEF HistoryInv, Whole, TypeInv, IngestInv, StoreTypeOK
<1>. QED
  BY <1>1, <1>2 DEF ServedWhole, ServedView, FullRun, Full

\* Ingest, retries, crashes, collections and searches together implement
\* ActiveRun: each step leaves what is served as it was or publishes a whole run.
THEOREM VersioningImplementsActiveRun ==
  ASSUME ExclusiveResume, ~GcOverlapsResume, MaxAmbiguous = 0, Retain >= 1
  PROVE  Spec => ImplementsActiveRun
<1>1. Init => Served!Init
  BY DEF Init, IngestInit, StoreInit, Snapshot, ServedView, Served!Init
<1>2. ASSUME VersionInv, ServedWhole, ServedWhole', [Next]_vars
      PROVE  [Served!Next]_<<Snapshot, ServedView>>
  <2>1. /\ Snapshot = active /\ ServedView = IF active = NoRun THEN Empty ELSE FullRun
        /\ Snapshot' = active' /\ ServedView' = IF active' = NoRun THEN Empty ELSE FullRun
    BY <1>2 DEF ServedWhole
  <2>2. CASE active' = active
    BY <2>1, <2>2
  <2>3. CASE active' # active
    <3>1. PICK j \in Ingestors : IngestStep(j)
      BY <1>2, <2>3, CollectConfined, SearchConfined DEF Next, IngestNext, SearchStep, vars,
         ingestVars, storeVars, VersionInv, SharedInv
    <3>2. active' \in Runs
      <4>1. active' = job[j].run /\ job[j].pc = "conclude"
        BY <2>3, <3>1, PointerMoves, Zenon DEF Activate
      <4>. QED
        BY <1>2, <4>1 DEF VersionInv, SharedInv, TypeInv, IngestInv, SoundJob
    <3>3. active' # NoRun
      BY <3>2 DEF Runs, NoRun
    <3>. QED
      BY <2>1, <2>3, <3>2, <3>3 DEF Served!Next, Served!Publish
  <2>. QED
    BY <2>2, <2>3
<1>3. VersionInv => ServedWhole
  BY PointerServesWhole DEF VersionInv, SharedInv
<1>. QED
  BY <1>1, <1>2, <1>3, VersionInit, VersionKept, PTL DEF Spec, ImplementsActiveRun, Served!Spec

-----------------------------------------------------------------------------
(* The migration beside everybody else.                                       *)

MigrationTypeOK ==
  migration \in Migration /\ missing \in SUBSET Segments /\ applies \in 0..MaxApplies

\* The legacy run beside everybody else: no process works on it, no table ever has a
\* second copy of its rows, and a collection that has listed it finds it inactive.
LegacyInv ==
  /\ \A j \in Ingestors : job[j].run # Legacy
  /\ \A t \in Targets : rows[Legacy][t] \subseteq Full
  /\ Legacy \in GcRuns => active # Legacy
  /\ NoCollection
  /\ active = Legacy /\ status[Legacy] = "completed" => Whole(Legacy)

\* Past the PostgreSQL transaction: the tables the loop is through with are whole
\* unless a count was wrong, and no count is wrong once the source is repaired.
CopyInv ==
  /\ migration.pc # "idle" => status[Legacy] = "validating"
  /\ migration.pc \in {"guard", "clear", "insert", "conclude"} =>
       /\ meta[Legacy] = Segments
       /\ ~migration.wrong =>
            \A t \in Targets \ (migration.todo \cup migration.hand) : rows[Legacy][t] = Full
       /\ missing = {} => ~migration.wrong
  /\ migration.pc = "insert" => \A t \in migration.hand : rows[Legacy][t] = {}
  /\ migration.pc = "conclude" => migration.todo \cup migration.hand = {}
  /\ migration.pc \in {"idle", "copy", "guard"} => migration.hand = {}
  /\ \A t, u \in migration.hand : t = u

MigrationInv == TypeInv /\ MigrationTypeOK /\ LegacyInv /\ CopyInv

LEMMA LegacyIsRun == Legacy \in Runs /\ Legacy # NoRun
BY MigrationAssumption, StoreAssumption DEF Runs, NoRun

LEMMA MigrationInvInit == MigrationInit => MigrationInv
<1>. SUFFICES ASSUME MigrationInit PROVE MigrationInv
  OBVIOUS
<1>1. TypeInv /\ MigrationTypeOK
  BY TypeInit, MigrationAssumption DEF MigrationInit, MigrationTypeOK, Migration, IdleMigration
<1>2. /\ job = [j \in Ingestors |-> IdleJob] /\ rows = [r \in Runs |-> [t \in Targets |-> {}]]
      /\ active = NoRun /\ gc = IdleGc
  BY DEF MigrationInit, Init, IngestInit, StoreInit
<1>3. LegacyInv
  BY <1>2, LegacyIsRun DEF LegacyInv, IdleJob, GcRuns, IdleGc, NoCollection
<1>4. CopyInv
  BY DEF CopyInv, MigrationInit, IdleMigration
<1>. QED
  BY <1>1, <1>3, <1>4 DEF MigrationInv

-----------------------------------------------------------------------------
(* The others leave the legacy run alone.                                     *)

\* A migration in progress excludes a collection, also one that would start.
LEMMA MigrationExcludesCollect ==
  ASSUME TypeInv, NoCollection, NoCollection', Collect, UNCHANGED migration
  PROVE  migration.pc = "idle"
<1>. SUFFICES ASSUME gc.pc = "idle" PROVE gc'.pc # "idle"
  BY DEF NoCollection
<1>1. GcStart
  BY DEF Collect, GcNext, GcPick, GcGuard, GcDeleteVectors, GcDeleteMetadata, GcRejected, GcEnd
<1>. QED
  BY <1>1 DEF GcStart, TypeInv, BesideInv

LEMMA OthersKeep ==
  ASSUME MigrationInv, Others, UNCHANGED migrationVars, NoCollection'
  PROVE  MigrationInv'
<1>1. /\ TypeInv /\ LegacyInv /\ CopyInv /\ Next /\ \A j \in Ingestors : job'[j].run # Legacy
      /\ UNCHANGED <<migration, missing, applies>>
  BY DEF MigrationInv, Others, migrationVars
<1>2. TypeInv' /\ MigrationTypeOK'
  BY <1>1, TypeKept DEF MigrationInv, MigrationTypeOK
<1>3. ASSUME /\ status'[Legacy] = status[Legacy] /\ meta'[Legacy] = meta[Legacy]
             /\ rows'[Legacy] = rows[Legacy]
             /\ active' = Legacy => active = Legacy
             /\ Legacy \in GcRuns' => active' # Legacy
      PROVE  LegacyInv' /\ CopyInv'
  BY <1>1, <1>3 DEF LegacyInv, CopyInv, Whole
<1>4. ASSUME NEW j \in Ingestors, IngestStep(j)
      PROVE  LegacyInv' /\ CopyInv'
  <2>1. /\ status'[Legacy] = status[Legacy] /\ meta'[Legacy] = meta[Legacy]
        /\ rows'[Legacy] = rows[Legacy] /\ (active' # active => active' # Legacy)
    BY <1>1, <1>4, LegacyIsRun, OtherRunsAlone DEF TypeInv, LegacyInv
  <2>2. GcRuns' = GcRuns
    BY <1>4, IngestBeside DEF GcRuns, beside
  <2>. QED
    BY <1>1, <1>3, <2>1, <2>2 DEF LegacyInv
<1>5. ASSUME Collect
      PROVE  LegacyInv' /\ CopyInv'
  <2>1. migration.pc = "idle"
    BY <1>1, <1>5, MigrationExcludesCollect DEF LegacyInv
  <2>2. UNCHANGED <<job, active>>
    BY <1>1, <1>5, CollectConfined
  <2>3. CASE Legacy \notin GcRuns
    <3>1. Legacy \in GcRuns' => active # Legacy
      <4>1. CASE GcStart
        BY <1>1, <4>1, GcStartEffect DEF TypeInv, Candidates, Kept
      <4>2. CASE ~GcStart
        BY <1>1, <1>5, <2>3, <4>2, CollectConfined
      <4>. QED
        BY <4>1, <4>2
    <3>. QED
      BY <1>1, <1>3, <1>5, <2>2, <2>3, <3>1, LegacyIsRun, CollectConfined
  <2>4. CASE Legacy \in GcRuns
    <3>1. active # Legacy /\ \A t \in Targets : rows'[Legacy][t] \subseteq Full
      BY <1>1, <1>5, <2>4, CollectConfined DEF LegacyInv
    <3>2. LegacyInv'
      BY <1>1, <2>2, <3>1 DEF LegacyInv
    <3>3. CopyInv'
      BY <1>1, <2>1 DEF CopyInv
    <3>. QED
      BY <3>2, <3>3
  <2>. QED
    BY <2>3, <2>4
<1>6. ASSUME SearchStep \/ Tick
      PROVE  LegacyInv' /\ CopyInv'
  BY <1>1, <1>3, <1>6, SearchConfined DEF LegacyInv
<1>7. LegacyInv' /\ CopyInv'
  BY <1>1, <1>4, <1>5, <1>6 DEF Next, IngestNext, SearchStep
<1>. QED
  BY <1>2, <1>7 DEF MigrationInv

-----------------------------------------------------------------------------
(* The migration's own steps.                                                 *)

\* A table without second copies that has the right count has every row.
LEMMA CountedIsFull ==
  ASSUME NEW S, S \subseteq Full
  PROVE  ~Miscounted(S) <=> S = Full
BY FullCount, FS_Subset DEF Miscounted

LEMMA CopiedRows == Copied \subseteq Full /\ (missing = {} => Copied = Full)
<1>1. \A s \in Segments : <<s[1], s[2], 1>> \in Full
  BY DEF Segments, Full
<1>2. \A x \in Full : <<x[1], x[2]>> \in Segments /\ x = <<x[1], x[2], 1>>
  BY DEF Segments, Full
<1>3. Copied \subseteq Full
  BY <1>1 DEF Copied
<1>4. ASSUME missing = {}, NEW x \in Full
      PROVE  x \in Copied
  <2>. DEFINE s == <<x[1], x[2]>>
  <2>1. s \in Segments \ missing /\ s[1] = x[1] /\ s[2] = x[2]
    BY <1>2, <1>4
  <2>. QED
    BY <1>2, <2>1 DEF Copied
<1>. QED
  BY <1>3, <1>4

\* What InsertCopy makes of table S.
InsertedInto(S) ==
  {x \in Rows : \/ x \in S
                \/ x[3] = Cardinality(CopiesOf(S, x[1], x[2])) + 1 /\ <<x[1], x[2]>> \notin missing}

LEMMA InsertedRows ==
  /\ InsertedInto({}) \subseteq Full
  /\ missing = {} => InsertedInto({}) = Full
<1>1. \A c, b : Cardinality(CopiesOf({}, c, b)) = 0
  <2>1. \A c, b : CopiesOf({}, c, b) = {}
    BY DEF CopiesOf
  <2>. QED
    BY <2>1, FS_EmptySet
<1>2. InsertedInto({}) = {x \in Rows : x[3] = 1 /\ <<x[1], x[2]>> \notin missing}
  BY <1>1 DEF InsertedInto
<1>3. 1 \in Copies
  BY StoreAssumption DEF Copies
<1>. QED
  BY <1>2, <1>3 DEF Rows, Full

LEMMA TypeFromStores ==
  ASSUME TypeInv, StoreTypeOK', UNCHANGED <<beside, jobVars>>
  PROVE  TypeInv'
BY DEF TypeInv, IngestInv, BesideInv, beside, jobVars

\* Steps that leave the legacy run's tables as they are.
LEMMA QuietStepsKeep ==
  ASSUME MigrationInv, NoCollection',
         \/ Apply \/ \E t \in ClickHouse : GuardCopy(t)
         \/ RejectCopy \/ MigrationEnds \/ Repair
  PROVE  MigrationInv'
<1>1. /\ TypeInv /\ StoreTypeOK /\ MigrationTypeOK /\ LegacyInv /\ CopyInv
      /\ Legacy \in Runs /\ Legacy # NoRun
  BY LegacyIsRun DEF MigrationInv, TypeInv, IngestInv
<1>2. ASSUME UNCHANGED <<active, meta, rows, job, gc>>, NoCollection',
             status'[Legacy] # "completed" \/ status' = status
      PROVE  LegacyInv'
  BY <1>1, <1>2 DEF LegacyInv, GcRuns, Whole
<1>3. CASE Apply
  <2>1. /\ status' = [status EXCEPT ![Legacy] = "validating"]
        /\ migration' = [migration EXCEPT !.pc = "copy"] /\ migration.pc = "idle"
        /\ applies' = applies + 1 /\ applies < MaxApplies
        /\ UNCHANGED <<finishedAt, active, ledger, meta, rows, clock, beside, jobVars, missing>>
    BY <1>3 DEF Apply
  <2>2. StoreTypeOK' /\ status'[Legacy] = "validating"
    BY <1>1, <2>1 DEF StoreTypeOK, RunStatuses
  <2>3. MigrationTypeOK'
    BY <1>1, <2>1, MigrationAssumption DEF MigrationTypeOK, Migration
  <2>4. CopyInv'
    BY <1>1, <2>1, <2>2 DEF CopyInv, MigrationTypeOK, Migration
  <2>. QED
    BY <1>1, <1>2, <2>1, <2>2, <2>3, <2>4, TypeFromStores DEF MigrationInv, jobVars, beside
<1>4. ASSUME NEW t \in ClickHouse, GuardCopy(t)
      PROVE  MigrationInv'
  <2>1. /\ migration' = [migration EXCEPT !.pc = "clear", !.todo = @ \ {t}, !.hand = {t}]
        /\ migration.pc = "guard" /\ t \in migration.todo /\ UNCHANGED <<vars, missing, applies>>
    BY <1>4, Zenon DEF GuardCopy
  <2>2. UNCHANGED <<status, finishedAt, active, ledger, meta, rows, clock, job, gc, beside, jobVars>>
    BY <2>1 DEF vars, ingestVars, storeVars, beside, jobVars
  <2>3. MigrationTypeOK' /\ StoreTypeOK'
    BY <1>1, <2>1, <2>2 DEF MigrationTypeOK, Migration, StoreTypeOK
  <2>4. CopyInv'
    BY <1>1, <2>1, <2>2 DEF CopyInv, MigrationTypeOK, Migration
  <2>. QED
    BY <1>1, <1>2, <2>2, <2>3, <2>4, TypeFromStores DEF MigrationInv
<1>5. CASE RejectCopy
  <2>1. /\ SetRunStatus(Legacy, "failed") /\ migration' = IdleMigration /\ migration.pc = "conclude"
        /\ UNCHANGED <<active, ledger, meta, rows, clock, beside, jobVars, missing, applies>>
    BY <1>5 DEF RejectCopy
  <2>2. StoreTypeOK' /\ status'[Legacy] = "failed"
    <3>1. RunExists(Legacy)
      BY <1>1, <2>1 DEF CopyInv, RunExists
    <3>2. /\ status' = [status EXCEPT ![Legacy] = "failed"]
          /\ finishedAt' = [finishedAt EXCEPT ![Legacy] = clock]
      BY <2>1, <3>1 DEF SetRunStatus
    <3>. QED
      BY <1>1, <2>1, <3>2 DEF StoreTypeOK, RunStatuses
  <2>3. MigrationTypeOK' /\ CopyInv'
    BY <1>1, <2>1 DEF MigrationTypeOK, CopyInv, IdleMigration, Migration
  <2>. QED
    BY <1>1, <1>2, <2>1, <2>2, <2>3, TypeFromStores DEF MigrationInv, jobVars, beside
<1>6. CASE MigrationEnds \/ Repair
  <2>1. /\ UNCHANGED <<vars, applies>>
        /\ \/ migration' = IdleMigration /\ UNCHANGED missing
           \/ UNCHANGED migration /\ migration.pc = "idle" /\ missing' = {}
    BY <1>6 DEF MigrationEnds, Repair
  <2>2. UNCHANGED <<status, finishedAt, active, ledger, meta, rows, clock, job, gc, beside, jobVars>>
    BY <2>1 DEF vars, ingestVars, storeVars, beside, jobVars
  <2>3. StoreTypeOK'
    BY <1>1, <2>2 DEF StoreTypeOK
  <2>4. ASSUME migration' = IdleMigration, UNCHANGED missing
        PROVE  MigrationTypeOK' /\ CopyInv'
    BY <1>1, <2>1, <2>4 DEF MigrationTypeOK, CopyInv, IdleMigration, Migration
  <2>5. ASSUME UNCHANGED migration, migration.pc = "idle", missing' = {}
        PROVE  MigrationTypeOK' /\ CopyInv'
    BY <1>1, <2>1, <2>5 DEF MigrationTypeOK, CopyInv
  <2>6. MigrationTypeOK' /\ CopyInv'
    BY <2>1, <2>4, <2>5
  <2>. QED
    BY <1>1, <1>2, <2>2, <2>3, <2>6, TypeFromStores DEF MigrationInv
<1>. QED
  BY <1>3, <1>4, <1>5, <1>6

LEMMA CopyPostgresKeeps ==
  ASSUME MigrationInv, NoCollection', CopyPostgres
  PROVE  MigrationInv'
<1>1. /\ TypeInv /\ StoreTypeOK /\ MigrationTypeOK /\ LegacyInv /\ CopyInv
      /\ Legacy \in Runs /\ Legacy # NoRun
  BY LegacyIsRun DEF MigrationInv, TypeInv, IngestInv
<1>. DEFINE L == [c \in Chunks |-> [status |-> "committed", expected |-> BatchesPerChunk]]
            T == [t \in Targets |-> IF t \in PgVector THEN rows[Legacy][t] \cup Copied
                                    ELSE rows[Legacy][t]]
            w == \E t \in PgVector : Miscounted(rows'[Legacy][t])
            p == AfterTarget(ClickHouse)
<1>2. /\ migration.pc = "copy" /\ meta' = [meta EXCEPT ![Legacy] = Segments]
      /\ rows' = [rows EXCEPT ![Legacy] = T] /\ ledger' = [ledger EXCEPT ![Legacy] = L]
      /\ migration' = [migration EXCEPT !.pc = p, !.todo = ClickHouse, !.wrong = w]
      /\ UNCHANGED <<status, finishedAt, active, clock, beside, jobVars, missing, applies>>
  BY DEF CopyPostgres
<1>3. /\ L \in [Chunks -> LedgerRow] /\ Full \subseteq Rows
      /\ Targets \subseteq ClickHouse \cup PgVector /\ ClickHouse \subseteq Targets
      /\ PgVector \subseteq Targets
  BY StoreAssumption, MigrationAssumption DEF LedgerRow, ChunkStatuses, Full, Rows, Copies
<1>4. /\ T \in [Targets -> SUBSET Full]
      /\ \A t \in PgVector : missing = {} => T[t] = Full
  BY <1>1, <1>3, CopiedRows DEF LegacyInv
<1>5. p \in {"conclude", "guard"} /\ (p = "conclude" <=> ClickHouse = {}) /\ w \in BOOLEAN
  BY DEF AfterTarget
<1>. HIDE DEF L, T, p
<1>6. rows'[Legacy] = T /\ meta'[Legacy] = Segments
  BY <1>1, <1>2 DEF StoreTypeOK
<1>7. StoreTypeOK'
  BY <1>1, <1>2, <1>3, <1>4 DEF StoreTypeOK
<1>8. /\ w = (\E t \in PgVector : T[t] # Full)
  <2>1. \A t \in PgVector : Miscounted(rows'[Legacy][t]) <=> T[t] # Full
    BY <1>3, <1>4, <1>6, CountedIsFull
  <2>. QED
    BY <2>1
<1>. HIDE DEF w
<1>9. MigrationTypeOK'
  BY <1>1, <1>2, <1>5 DEF MigrationTypeOK, Migration
<1>10. migration'.pc = p /\ migration'.todo = ClickHouse /\ migration'.wrong = w
       /\ migration'.hand = migration.hand
  BY <1>1, <1>2 DEF MigrationTypeOK, Migration
<1>11. migration.hand = {}
  BY <1>1, <1>2 DEF CopyInv
<1>12. LegacyInv'
  BY <1>1, <1>2, <1>4, <1>6 DEF LegacyInv, CopyInv, jobVars, beside, GcRuns
<1>13. CopyInv'
  BY <1>1, <1>2, <1>3, <1>4, <1>5, <1>6, <1>8, <1>10, <1>11 DEF CopyInv
<1>. QED
  BY <1>1, <1>2, <1>7, <1>9, <1>12, <1>13, TypeFromStores DEF MigrationInv

LEMMA ClearCopyKeeps ==
  ASSUME MigrationInv, NoCollection', NEW t \in ClickHouse, ClearCopy(t)
  PROVE  MigrationInv'
<1>1. /\ TypeInv /\ StoreTypeOK /\ MigrationTypeOK /\ LegacyInv /\ CopyInv
      /\ Legacy \in Runs /\ Legacy # NoRun /\ t \in Targets
  BY LegacyIsRun, StoreAssumption DEF MigrationInv, TypeInv, IngestInv
<1>2. /\ migration.pc = "clear" /\ t \in migration.hand
      /\ rows' = [rows EXCEPT ![Legacy][t] = {}]
      /\ migration' = [migration EXCEPT !.pc = "insert"]
      /\ UNCHANGED <<status, finishedAt, active, ledger, meta, clock, beside, jobVars,
                     missing, applies>>
  BY Zenon DEF ClearCopy
<1>3. /\ rows'[Legacy][t] = {}
      /\ \A u \in Targets \ {t} : rows'[Legacy][u] = rows[Legacy][u]
  BY <1>1, <1>2 DEF StoreTypeOK
<1>4. /\ migration'.pc = "insert" /\ migration'.todo = migration.todo
      /\ migration'.hand = migration.hand /\ migration'.wrong = migration.wrong
  BY <1>1, <1>2 DEF MigrationTypeOK, Migration
<1>5. StoreTypeOK' /\ MigrationTypeOK'
  BY <1>1, <1>2 DEF StoreTypeOK, MigrationTypeOK, Migration
<1>6. LegacyInv'
  BY <1>1, <1>2, <1>3 DEF LegacyInv, CopyInv, jobVars, beside, GcRuns
<1>7. CopyInv'
  BY <1>1, <1>2, <1>3, <1>4 DEF CopyInv
<1>. QED
  BY <1>1, <1>2, <1>5, <1>6, <1>7, TypeFromStores DEF MigrationInv

LEMMA InsertCopyKeeps ==
  ASSUME MigrationInv, NoCollection', NEW t \in ClickHouse, InsertCopy(t)
  PROVE  MigrationInv'
<1>1. /\ TypeInv /\ StoreTypeOK /\ MigrationTypeOK /\ LegacyInv /\ CopyInv
      /\ Legacy \in Runs /\ Legacy # NoRun /\ t \in Targets /\ Full \subseteq Rows
  BY LegacyIsRun, StoreAssumption DEF MigrationInv, TypeInv, IngestInv, Full, Rows, Copies
<1>. DEFINE p == AfterTarget(migration.todo)
            w == migration.wrong \/ Miscounted(rows'[Legacy][t])
<1>2. /\ migration.pc = "insert" /\ t \in migration.hand
      /\ rows' = [rows EXCEPT ![Legacy][t] = InsertedInto(@)]
      /\ migration' = [migration EXCEPT !.pc = p, !.hand = {}, !.wrong = w]
      /\ UNCHANGED <<status, finishedAt, active, ledger, meta, clock, beside, jobVars,
                     missing, applies>>
  BY Zenon DEF InsertCopy, InsertedInto
<1>3. rows[Legacy][t] = {} /\ migration.hand = {t}
  BY <1>1, <1>2 DEF CopyInv
<1>4. /\ rows'[Legacy][t] \subseteq Full /\ (missing = {} => rows'[Legacy][t] = Full)
      /\ \A u \in Targets \ {t} : rows'[Legacy][u] = rows[Legacy][u]
  BY <1>1, <1>2, <1>3, InsertedRows DEF StoreTypeOK
<1>5. /\ p \in {"conclude", "guard"} /\ (p = "conclude" <=> migration.todo = {})
      /\ w \in BOOLEAN /\ (~w <=> ~migration.wrong /\ rows'[Legacy][t] = Full)
  BY <1>1, <1>4, CountedIsFull DEF AfterTarget, MigrationTypeOK, Migration
<1>. HIDE DEF p, w
<1>6. /\ migration'.pc = p /\ migration'.todo = migration.todo
      /\ migration'.hand = {} /\ migration'.wrong = w
  BY <1>1, <1>2 DEF MigrationTypeOK, Migration
<1>7. StoreTypeOK'
  <2>1. rows' \in [Runs -> [Targets -> SUBSET Rows]]
    BY <1>1, <1>2, <1>3, <1>4, InsertedRows DEF StoreTypeOK
  <2>. QED
    BY <1>1, <1>2, <2>1 DEF StoreTypeOK
<1>8. MigrationTypeOK'
  BY <1>1, <1>2, <1>5 DEF MigrationTypeOK, Migration
<1>9. LegacyInv'
  BY <1>1, <1>2, <1>4 DEF LegacyInv, CopyInv, jobVars, beside, GcRuns
<1>10. CopyInv'
  BY <1>1, <1>2, <1>3, <1>4, <1>5, <1>6 DEF CopyInv
<1>. QED
  BY <1>1, <1>2, <1>7, <1>8, <1>9, <1>10, TypeFromStores DEF MigrationInv

LEMMA ActivateCopyKeeps ==
  ASSUME MigrationInv, NoCollection', ActivateCopy
  PROVE  MigrationInv'
<1>1. /\ TypeInv /\ StoreTypeOK /\ MigrationTypeOK /\ LegacyInv /\ CopyInv
      /\ Legacy \in Runs /\ Legacy # NoRun
  BY LegacyIsRun DEF MigrationInv, TypeInv, IngestInv
<1>2. /\ migration.pc = "conclude" /\ ~Mismatch
      /\ status' = [status EXCEPT ![Legacy] = "completed"]
      /\ finishedAt' = [finishedAt EXCEPT ![Legacy] = clock]
      /\ active' = Legacy /\ migration' = IdleMigration
      /\ UNCHANGED <<ledger, meta, rows, clock, beside, jobVars, missing, applies>>
  BY DEF ActivateCopy
<1>3. StoreTypeOK' /\ MigrationTypeOK'
  BY <1>1, <1>2 DEF StoreTypeOK, RunStatuses, MigrationTypeOK, IdleMigration, Migration
<1>4. meta[Legacy] = Segments /\ \A t \in Targets : rows[Legacy][t] = Full
  BY <1>1, <1>2 DEF CopyInv, Mismatch
<1>5. GcRuns' = {}
  BY <1>1, <1>2 DEF LegacyInv, NoCollection, TypeInv, BesideInv, GcRuns, beside
<1>6. LegacyInv'
  BY <1>1, <1>2, <1>4, <1>5 DEF LegacyInv, Whole, jobVars
<1>7. CopyInv'
  BY <1>2 DEF CopyInv, IdleMigration
<1>. QED
  BY <1>1, <1>2, <1>3, <1>6, <1>7, TypeFromStores DEF MigrationInv

LEMMA MigrationInvKept ==
  ASSUME MigrationInv, [MigrationNext]_allVars
  PROVE  MigrationInv'
<1>1. CASE UNCHANGED allVars
  <2>1. /\ UNCHANGED vars /\ UNCHANGED <<migration, missing, applies>>
        /\ UNCHANGED <<status, active, meta, rows, job, gc>>
    BY <1>1 DEF allVars, migrationVars, vars, ingestVars, storeVars, beside, jobVars
  <2>. QED
    BY <2>1, TypeKept DEF MigrationInv, MigrationTypeOK, LegacyInv, CopyInv, NoCollection, GcRuns, Whole
<1>2. CASE MigrationNext
  BY <1>2, OthersKeep, QuietStepsKeep, CopyPostgresKeeps, ClearCopyKeeps, InsertCopyKeeps,
     ActivateCopyKeeps DEF MigrationNext, MigrationStep
<1>. QED
  BY <1>1, <1>2

-----------------------------------------------------------------------------

\* Searches sent to the legacy run find every legacy segment once, also while the
\* plan is applied again and whatever ingests and earlier collections do.
THEOREM LegacyRunServedWhole == MigrationSpec => []LegacyServedWhole
<1>1. MigrationInv => LegacyServedWhole
  <2>. SUFFICES ASSUME MigrationInv, Snapshot = Legacy PROVE RunStored(Legacy)
    BY DEF LegacyServedWhole
  <2>1. active = Legacy /\ status[Legacy] = "completed"
    BY LegacyIsRun DEF Snapshot
  <2>. QED
    BY <2>1, FullMeansStored DEF MigrationInv, LegacyInv, Whole
<1>. QED
  BY <1>1, MigrationInvInit, MigrationInvKept, PTL DEF MigrationSpec

\* Once the source is repaired a retry passes its own counts and may activate the
\* run, whatever an earlier application left behind.
THEOREM RepairedRetryConcludes == MigrationSpec => []CorrectedRetrySucceeds
<1>1. MigrationInv => CorrectedRetrySucceeds
  BY DEF MigrationInv, CopyInv, CorrectedRetrySucceeds, Mismatch, Miscounted
<1>. QED
  BY <1>1, MigrationInvInit, MigrationInvKept, PTL DEF MigrationSpec
=============================================================================
