--------------------------- MODULE MCWorkflowRun ---------------------------
(* WorkflowRun on small plans.  A plan is the steps of an errand the way   *)
(* the planner writes them; an addition is what a checkpoint may propose:  *)
(* nothing, a step of a kind the plan has, or one more call.               *)
EXTENDS WorkflowRun, TLC

New(k) == [kind |-> k]
Plain(k) == [kind |-> k, add |-> <<>>]

\* A call, and a checkpoint on what was found.
CallCheckpoint == <<Plain("call"), Plain("replan")>>
\* A pause, and a checkpoint on what has come up since.
WaitCheckpoint == <<Plain("wait"), Plain("replan")>>
\* A call, a pause, and a second call that depends on the first.
CallWaitCall == <<Plain("call"), Plain("wait"), Plain("call")>>
\* Two checkpoints in a row: what the first adds runs between them.
TwoCheckpoints == <<Plain("replan"), Plain("replan")>>
\* A checkpoint that came with its proposal.
BakedCheckpoint == <<[kind |-> "replan", add |-> <<New("call")>>], Plain("sync")>>

CallsOrCheckpoints == {CallWaitCall, TwoCheckpoints, BakedCheckpoint}
WaitsThenCheckpoint == {CallCheckpoint, WaitCheckpoint}

SomeAdditions == {<<>>, <<New("sync")>>, <<New("call")>>}

Symmetry == Permutations(Drivers)
=============================================================================
