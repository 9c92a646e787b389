------------------------------- MODULE RunGC --------------------------------
(***************************************************************************)
(* The garbage collector (gc_runs.run_gc): it selects candidates from one  *)
(* listing of the runs and then deletes them one by one, the vectors of    *)
(* each backend:dimension first and the PostgreSQL rows last.  Nothing     *)
(* ties the listing to the deletions: the runs may move on in between.     *)
(***************************************************************************)
EXTENDS RunStore

CONSTANTS
  Retain,      \* --retain-previous-completed
  MinAge,      \* --min-age-hours, in ticks of the clock
  GcTargets    \* backend:dimension pairs enabled when the collector runs

ASSUME GcAssumption ==
  Retain \in Nat /\ MinAge \in Nat /\ GcTargets \subseteq Targets /\ GcTargets # {}

-----------------------------------------------------------------------------
\* Completed runs other than the active one, sorted by finished_at with the
\* newest first; the sort is stable, so equal stamps keep the started_at order.
Previous == {r \in Runs : status[r] = "completed" /\ r # active}

RanksBefore(q, r) ==
  \/ finishedAt[q] > finishedAt[r]
  \/ finishedAt[q] = finishedAt[r] /\ q < r

\* Mutants of Kept: no completed run is retained, or one too few.
KeptActiveOnly == {active}
KeptOneLess ==
  {active} \cup
  {r \in Previous : Cardinality({q \in Previous : RanksBefore(q, r)}) + 1 < Retain}

Kept ==
  {active} \cup
  {r \in Previous : Cardinality({q \in Previous : RanksBefore(q, r)}) < Retain}

\* select_gc_candidates.  Every completed or failed run has a finished_at.
Candidates ==
  {r \in Runs \ Kept : /\ status[r] \in {"completed", "failed"}
                       /\ finishedAt[r] + MinAge <= clock}

GcStart ==
  /\ gc.pc = "idle" /\ Candidates # {}
  /\ gc' = [gc EXCEPT !.pc = "pick", !.list = Candidates,
                      !.unsettled = {r \in Candidates : status[r] = "failed" \/ WorkedOn(r)}]
  /\ UNCHANGED storeVars

\* Candidates are taken in started_at order.
GcPick(r) ==
  /\ gc.pc = "pick"
  /\ r \in gc.list /\ \A q \in gc.list : r <= q
  /\ gc' = [gc EXCEPT !.pc = "vectors", !.list = @ \ {r}, !.run = r, !.todo = GcTargets]
  /\ UNCHANGED storeVars

\* delete_run in target t: the guard, then the DELETE.
GcGuard(t) ==
  /\ gc.pc = "vectors" /\ t \in gc.todo /\ gc.cleared = {}
  /\ GuardedInactive(t, gc.run)
  /\ gc' = [gc EXCEPT !.todo = @ \ {t}, !.cleared = {t}]
  /\ UNCHANGED storeVars

GcDeleteVectors(t) ==
  /\ gc.pc = "vectors" /\ t \in gc.cleared
  /\ rows' = [rows EXCEPT ![gc.run][t] = {}]
  /\ gc' = [gc EXCEPT !.cleared = {},
                      !.pc = IF gc.todo = {} THEN "metadata" ELSE "vectors"]
  /\ UNCHANGED <<status, finishedAt, active, ledger, meta, clock>>

\* Mutant of GcDeleteMetadata: the foreign keys do not protect the active run.
GcDeleteMetadataUnguarded ==
  /\ gc.pc = "metadata"
  /\ status' = [status EXCEPT ![gc.run] = "deleted"]
  /\ finishedAt' = [finishedAt EXCEPT ![gc.run] = 0]
  /\ ledger' = [ledger EXCEPT ![gc.run] = NoChunkYet]
  /\ meta' = [meta EXCEPT ![gc.run] = {}]
  /\ gc' = [gc EXCEPT !.pc = "pick", !.run = NoRun]
  /\ UNCHANGED <<active, rows, clock>>

\* _delete_metadata: one transaction, whose foreign keys refuse the active run.
GcDeleteMetadata ==
  /\ gc.pc = "metadata" /\ active # gc.run
  /\ status' = [status EXCEPT ![gc.run] = "deleted"]
  /\ finishedAt' = [finishedAt EXCEPT ![gc.run] = 0]
  /\ ledger' = [ledger EXCEPT ![gc.run] = NoChunkYet]
  /\ meta' = [meta EXCEPT ![gc.run] = {}]
  /\ gc' = [gc EXCEPT !.pc = "pick", !.run = NoRun]
  /\ UNCHANGED <<active, rows, clock>>

\* The candidate has become active: the exception ends the whole collection.
GcRejected ==
  /\ \/ /\ gc.pc = "vectors" /\ gc.cleared = {}
        /\ \E t \in gc.todo : ~GuardedInactive(t, gc.run)
     \/ gc.pc = "metadata" /\ active = gc.run
  /\ gc' = IdleGc
  /\ UNCHANGED storeVars

\* It ran out of candidates, or it died.
GcEnd ==
  /\ gc.pc # "idle"
  /\ gc' = IdleGc
  /\ UNCHANGED storeVars

GcNext ==
  \/ GcStart \/ \E r \in Runs : GcPick(r)
  \/ \E t \in GcTargets : GcGuard(t) \/ GcDeleteVectors(t)
  \/ GcDeleteMetadata \/ GcRejected \/ GcEnd

\* The collector is about to delete vectors of run r.
Deleting(r) == gc.pc = "vectors" /\ gc.run = r /\ gc.cleared # {}
=============================================================================
