--------------------------- MODULE RunVersioning ----------------------------
(***************************************************************************)
(* The run-versioned dataset as a whole: ingest processes, the garbage     *)
(* collector and a search over the same tables.  A search reads the active *)
(* run once and uses that run for every later statement of the request.    *)
(***************************************************************************)
EXTENDS IngestRuns, RunGC

vars == ingestVars

Init == IngestInit

\* engine.search: one snapshot for the whole request.
SearchBegin ==
  /\ reader = NoRun /\ Snapshot # NoRun
  /\ reader' = Snapshot
  /\ UNCHANGED <<storeVars, gc, jobVars>>

SearchEnd ==
  /\ reader # NoRun
  /\ reader' = NoRun
  /\ UNCHANGED <<storeVars, gc, jobVars>>

\* A tick is longer than any request.
Tick ==
  /\ clock < MaxClock /\ reader = NoRun
  /\ clock' = clock + 1
  /\ UNCHANGED <<status, finishedAt, active, ledger, meta, rows, jobVars, gc, reader>>

Resolving == \E j \in Ingestors : job[j].pc \in {"resolved", "marking"}

\* now() is fine-grained: a collection never finds two runs completed at the
\* same clock value.
Completed == {r \in Runs : status[r] = "completed"}

Collect ==
  /\ GcNext
  /\ gc.pc = "idle" =>
       /\ GcOverlapsResume \/ ~Resolving
       /\ Cardinality({finishedAt[r] : r \in Completed}) = Cardinality(Completed)
  /\ UNCHANGED <<jobVars, reader>>

Next == IngestNext \/ Collect \/ SearchBegin \/ SearchEnd \/ Tick

Spec == Init /\ [][Next]_vars

-----------------------------------------------------------------------------
(* Refinement.                                                             *)

FullRun == [meta |-> Segments, rows |-> [t \in Targets |-> Chunks \X Batches \X {1}]]
Empty == [meta |-> {}, rows |-> [t \in Targets |-> {}]]

ServedView ==
  IF Snapshot = NoRun THEN Empty
  ELSE [meta |-> meta[Snapshot], rows |-> rows[Snapshot]]

Served == INSTANCE ActiveRun WITH
  Run <- Runs, NoRun <- NoRun, Nothing <- Empty, Everything <- FullRun,
  served <- Snapshot, view <- ServedView

\* Ingest, retries, crashes and collection together implement ActiveRun: what a
\* search can reach is never partial, never shrinks and changes only by moving
\* from one whole run to another.
ImplementsActiveRun == Served!Spec

-----------------------------------------------------------------------------
(* Properties.                                                             *)

\* Every statement of a request finds the complete run its snapshot named,
\* also when another run is activated and older runs are collected meanwhile.
SearchSeesWholeRun == reader # NoRun => RunStored(reader) /\ status[reader] = "completed"

\* The vectors the collector is about to delete belong to a completed run that is
\* neither served nor worked on, unless the listing found the run failed or worked
\* on: however long ago the candidate was listed, and whatever was resumed and
\* activated since, a settled candidate stays out of use.
SparesUnsettledOnly ==
  \A r \in Runs : Deleting(r) /\ r \notin gc.unsettled =>
    r # active /\ ~WorkedOn(r) /\ status[r] = "completed"

\* At least one complete run to roll back to survives collection, once two
\* runs have been completed (for Retain >= 1).
RollbackTargetKept ==
  [][\A r \in Runs :
       status[r] = "completed" /\ status'[r] = "deleted" =>
         \E q \in Runs \ {r} : q # active /\ status[q] = "completed" /\ RunStored(q)]_vars

\* What is served and left alone stays: processes busy with other runs and a
\* collection that listed the active run before its activation take neither its row
\* nor its metadata, and its vectors only if the listing found it unsettled.
ServedRunKept ==
  [][active # NoRun /\ active' = active /\ ~WorkedOn(active) =>
       /\ status'[active] # "deleted"
       /\ meta'[active] = meta[active]
       /\ active \notin gc.unsettled => rows'[active] = rows[active]]_vars

\* A collected run is gone for good: a process that still works on it brings back
\* neither its ledger nor its metadata, and the pointer never comes to name it.
CollectedStaysGone ==
  \A r \in Runs : status[r] = "deleted" =>
    r # active /\ ledger[r] = NoChunkYet /\ meta[r] = {}
=============================================================================
