----------------------------- MODULE MCToolLoop -----------------------------
(* ToolLoop on three requests that may lead to one client call.            *)
EXTENDS ToolLoop
=============================================================================
