----------------------------- MODULE MCSchedule -----------------------------
(* Schedule with sweeps that cannot be told apart.                         *)
EXTENDS Schedule, TLC

Symmetry == Permutations(Sweeps)
=============================================================================
