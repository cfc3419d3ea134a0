-------------------------------- MODULE TestRun --------------------------------
(***************************************************************************)
(* What the test suite promises of a run, whoever operates it and however  *)
(* it ends: at most one run is on, a run that is over does not come back,  *)
(* and results are reported only of a run that is over, once.              *)
(***************************************************************************)
CONSTANT Runs

VARIABLES running, over, reported

run == <<running, over, reported>>

Init == running = {} /\ over = {} /\ reported = {}

Begin(r) ==
  /\ running = {} /\ r \notin over
  /\ running' = {r}
  /\ UNCHANGED <<over, reported>>

\* At its duration, by a STOP, or cut short.
End(r) ==
  /\ running = {r}
  /\ running' = {}
  /\ over' = over \cup {r}
  /\ UNCHANGED reported

Report(r) ==
  /\ r \in over \ reported
  /\ reported' = reported \cup {r}
  /\ UNCHANGED <<running, over>>

Next == \E r \in Runs : Begin(r) \/ End(r) \/ Report(r)

Spec == Init /\ [][Next]_run
=============================================================================
