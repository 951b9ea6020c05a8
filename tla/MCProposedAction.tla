--------------------------- MODULE MCProposedAction ---------------------------
(* Taps on the cards of one proposal and on a card of a node's command.    *)
EXTENDS ProposedAction

=============================================================================
