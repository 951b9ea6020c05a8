--------------------------- MODULE MCAdapterTraining ---------------------------
(* Two trainings of one household and two requests at a time.              *)
EXTENDS AdapterTraining

=============================================================================
