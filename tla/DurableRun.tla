----------------------------- MODULE DurableRun -----------------------------
(***************************************************************************)
(* What the engine promises of a run: its steps are started in the order   *)
(* of the plan, each at most once, by a run that is active; a parked run   *)
(* starts nothing before it is woken; and a run that is over, because it   *)
(* ended, was cancelled or lost its driver, never starts a step again.     *)
(***************************************************************************)
EXTENDS Naturals, Sequences

CONSTANT Steps   \* the step indices a plan may have

VARIABLES
    phase,   \* "active", "parked" or "over"
    trail    \* the steps started so far

vars == <<phase, trail>>

Init == phase = "active" /\ trail = <<>>

Start ==
    /\ phase = "active"
    /\ \E i \in Steps :
          /\ \A k \in DOMAIN trail : trail[k] < i
          /\ trail' = Append(trail, i)
    /\ UNCHANGED phase

Move(from, to) == phase = from /\ phase' = to /\ UNCHANGED trail

Park == Move("active", "parked")
Wake == Move("parked", "active")
End == Move("active", "over") \/ Move("parked", "over")

Next == Start \/ Park \/ Wake \/ End

Spec == Init /\ [][Next]_vars
=============================================================================
