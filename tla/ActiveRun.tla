----------------------------- MODULE ActiveRun ------------------------------
(***************************************************************************)
(* What run versioning promises a search: the dataset serves nothing until *)
(* a first run is published, and from then on every publication replaces,  *)
(* in one step, the whole content of one run by the whole content of       *)
(* another.  Between two publications what is served does not change.      *)
(***************************************************************************)
CONSTANTS
  Run,         \* the runs
  NoRun,       \* "no active run"
  Nothing,     \* what is served before the first publication
  Everything   \* a run's complete content

VARIABLES
  served,      \* the run searches are sent to
  view         \* what they can find in it

Init == served = NoRun /\ view = Nothing

Publish(r) ==
  /\ r # served
  /\ served' = r
  /\ view' = Everything

Next == \E r \in Run : Publish(r)

Spec == Init /\ [][Next]_<<served, view>>
=============================================================================
