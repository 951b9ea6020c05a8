----------------------------- MODULE LinkedRun -----------------------------
(***************************************************************************)
(* What an errand plan sees of the run it is linked to: the state its taps *)
(* and its finish read, and the steps that state may take.  Module         *)
(* ErrandPlan assumes these steps; module WorkflowRun is proved to take no *)
(* other.                                                                  *)
(***************************************************************************)

\* "over" is done, partial or failed.
LinkedStates == {"running", "waiting", "over", "cancelled"}

\* A run is cancelled only while it is parked, and an end is an end.
LinkedSteps ==
    {<<"running", "waiting">>, <<"waiting", "running">>,
     <<"running", "over">>, <<"waiting", "cancelled">>}
=============================================================================
