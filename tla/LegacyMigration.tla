-------------------------- MODULE LegacyMigration ---------------------------
(***************************************************************************)
(* migrations.apply_migration beside ingest, collection and search: it     *)
(* copies the rows of the unversioned tables into one run with a fixed id, *)
(* counts them and activates that run.  The operator may apply the same    *)
(* plan again, after a failure or after a success.                         *)
(***************************************************************************)
EXTENDS RunVersioning

CONSTANTS
  Legacy,      \* legacy_run_id: created before any run of a manifest
  Spoiled,     \* the segments that the vector tables lack at first
  MaxApplies   \* bound: applications of the plan

\* With Qdrant enabled apply_migration is blocked.
ASSUME MigrationAssumption ==
  /\ Legacy = 1 /\ MaxRuns >= 1 /\ MaxApplies \in Nat
  /\ Targets \subseteq ClickHouse \cup PgVector /\ Spoiled \subseteq Segments

VARIABLES
  migration,   \* program counter and locals of apply_migration
  missing,     \* segments that are in segments but not in the vector tables
  applies      \* how often the plan was applied

migrationVars == <<migration, missing, applies>>
allVars == <<vars, migrationVars>>

Migration == [pc : {"idle", "copy", "guard", "clear", "insert", "conclude"},
              todo : SUBSET ClickHouse,     \* dimensions the loop has not reached
              hand : SUBSET ClickHouse,     \* the dimension being copied
              wrong : BOOLEAN]              \* a count differs from the expected one

IdleMigration == [pc |-> "idle", todo |-> {}, hand |-> {}, wrong |-> FALSE]

MigrationInit ==
  /\ Init
  /\ migration = IdleMigration /\ missing = Spoiled /\ applies = 0

-----------------------------------------------------------------------------
Copied == {<<s[1], s[2], 1>> : s \in Segments \ missing}
Miscounted(S) == Cardinality(S) # Cardinality(Segments)

AfterTarget(todo) == IF todo = {} THEN "conclude" ELSE "guard"

\* Mutant of Apply: a run that is there already is left as it is.
ApplyCreates ==
  /\ migration.pc = "idle" /\ applies < MaxApplies
  /\ applies' = applies + 1
  /\ status' = [status EXCEPT ![Legacy] = IF RunExists(Legacy) THEN @ ELSE "validating"]
  /\ migration' = [migration EXCEPT !.pc = "copy"]
  /\ UNCHANGED <<finishedAt, active, ledger, meta, rows, clock, beside, jobVars, missing>>

\* create (ON CONFLICT DO NOTHING) and set_run_status, whatever the run was.
Apply ==
  /\ migration.pc = "idle" /\ applies < MaxApplies
  /\ applies' = applies + 1
  /\ status' = [status EXCEPT ![Legacy] = "validating"]
  /\ migration' = [migration EXCEPT !.pc = "copy"]
  /\ UNCHANGED <<finishedAt, active, ledger, meta, rows, clock, beside, jobVars, missing>>

\* _copy_postgres_legacy: one transaction for metadata, pgvector and ledger, with
\* ON CONFLICT DO NOTHING throughout.
CopyPostgres ==
  /\ migration.pc = "copy" /\ RunExists(Legacy)
  /\ meta' = [meta EXCEPT ![Legacy] = Segments]
  /\ rows' = [rows EXCEPT ![Legacy] =
                [t \in Targets |-> IF t \in PgVector THEN @[t] \cup Copied ELSE @[t]]]
  /\ ledger' = [ledger EXCEPT ![Legacy] =
                  [c \in Chunks |-> [status |-> "committed", expected |-> BatchesPerChunk]]]
  /\ migration' = [migration EXCEPT !.pc = AfterTarget(ClickHouse), !.todo = ClickHouse,
                     !.wrong = \E t \in PgVector : Miscounted(rows'[Legacy][t])]
  /\ UNCHANGED <<status, finishedAt, active, clock, beside, jobVars, missing, applies>>

\* clickhouse.delete_run for the next dimension: the guard, and then the DELETE.
GuardCopy(t) ==
  /\ migration.pc = "guard" /\ t \in migration.todo /\ GuardedInactive(t, Legacy)
  /\ migration' = [migration EXCEPT !.pc = "clear", !.todo = @ \ {t}, !.hand = {t}]
  /\ UNCHANGED <<vars, missing, applies>>

\* Mutant of ClearCopy: the rows of an earlier application are left.
ClearCopyNot(t) ==
  /\ migration.pc = "clear" /\ t \in migration.hand
  /\ migration' = [migration EXCEPT !.pc = "insert"]
  /\ UNCHANGED <<vars, missing, applies>>

ClearCopy(t) ==
  /\ migration.pc = "clear" /\ t \in migration.hand
  /\ rows' = [rows EXCEPT ![Legacy][t] = {}]
  /\ migration' = [migration EXCEPT !.pc = "insert"]
  /\ UNCHANGED <<status, finishedAt, active, ledger, meta, clock, beside, jobVars,
                 missing, applies>>

\* INSERT ... SELECT appends; the count follows at once.
InsertCopy(t) ==
  /\ migration.pc = "insert" /\ t \in migration.hand
  /\ rows' = [rows EXCEPT ![Legacy][t] =
       {x \in Rows : \/ x \in @
                     \/ x[3] = Cardinality(CopiesOf(@, x[1], x[2])) + 1
                        /\ <<x[1], x[2]>> \notin missing}]
  /\ migration' = [migration EXCEPT !.pc = AfterTarget(migration.todo), !.hand = {},
                     !.wrong = @ \/ Miscounted(rows'[Legacy][t])]
  /\ UNCHANGED <<status, finishedAt, active, ledger, meta, clock, beside, jobVars,
                 missing, applies>>

\* Mutant of Mismatch: the counts of the vector tables are not compared.
MismatchMetadataOnly == Miscounted(meta[Legacy])

\* metadata_count is taken last.
Mismatch == migration.wrong \/ Miscounted(meta[Legacy])

RejectCopy ==
  /\ migration.pc = "conclude" /\ Mismatch
  /\ SetRunStatus(Legacy, "failed")
  /\ migration' = IdleMigration
  /\ UNCHANGED <<active, ledger, meta, rows, clock, beside, jobVars, missing, applies>>

ActivateCopy ==
  /\ migration.pc = "conclude" /\ ~Mismatch /\ status[Legacy] = "validating"
  /\ status' = [status EXCEPT ![Legacy] = "completed"]
  /\ finishedAt' = [finishedAt EXCEPT ![Legacy] = clock]
  /\ active' = Legacy
  /\ migration' = IdleMigration
  /\ UNCHANGED <<ledger, meta, rows, clock, beside, jobVars, missing, applies>>

\* The process dies or is refused: a guard, a foreign key or the activation raises.
MigrationEnds ==
  /\ migration.pc # "idle"
  /\ migration' = IdleMigration
  /\ UNCHANGED <<vars, missing, applies>>

\* The operator repairs the unversioned vector tables between two applications.
Repair ==
  /\ migration.pc = "idle" /\ missing # {}
  /\ missing' = {}
  /\ UNCHANGED <<vars, migration, applies>>

MigrationStep ==
  \/ Apply \/ CopyPostgres
  \/ \E t \in ClickHouse : GuardCopy(t) \/ ClearCopy(t) \/ InsertCopy(t)
  \/ RejectCopy \/ ActivateCopy

\* find_resumable compares manifest hashes, so no ingest takes the legacy run.
Others == Next /\ \A j \in Ingestors : job'[j].run # Legacy

\* The operator does not apply the plan and collect runs at the same time.
NoCollection == migration.pc = "idle" \/ gc.pc = "idle"

MigrationNext ==
  /\ \/ MigrationStep \/ MigrationEnds \/ Repair
     \/ Others /\ UNCHANGED migrationVars
  /\ NoCollection'

MigrationSpec == MigrationInit /\ [][MigrationNext]_allVars

-----------------------------------------------------------------------------
(* Properties.                                                             *)

\* Whenever searches are sent to the legacy run it holds every legacy segment
\* exactly once, however often the plan was applied, and wherever an earlier
\* application or the collector stopped.
LegacyServedWhole == Snapshot = Legacy => RunStored(Legacy)

\* A retry after the vector tables were repaired concludes with the right counts
\* and a run that may be activated, whatever an earlier application left behind:
\* its rows in ClickHouse, its copies in PostgreSQL, its status 'failed'.
CorrectedRetrySucceeds ==
  migration.pc = "conclude" /\ missing = {} => ~Mismatch /\ status[Legacy] = "validating"
=============================================================================
