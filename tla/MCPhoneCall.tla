---------------------------- MODULE MCPhoneCall ----------------------------
(* PhoneCall on small instances: two sessions that compete for the caps,   *)
(* two workers that compete for a job, threads that handle events.         *)
EXTENDS PhoneCall, TLC

Symmetry == Permutations(Calls) \cup Permutations(Workers)
              \cup Permutations(Threads)
=============================================================================
