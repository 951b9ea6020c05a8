---------------------------- MODULE MCErrandPlan ----------------------------
(* ErrandPlan on a few plans; the contents and the tasks are symmetric.    *)
EXTENDS ErrandPlan, TLC

Symmetry == Permutations(Contents) \cup Permutations(Tasks)
=============================================================================
