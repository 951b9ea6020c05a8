------------------------------ MODULE MCNodeUpdate ------------------------------
(* Two tasks of one node, two requests at a time.                          *)
EXTENDS NodeUpdate

=============================================================================
