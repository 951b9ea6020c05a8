---------------------------- MODULE CallPromise ----------------------------
(***************************************************************************)
(* What a phone-call session promises the household, whatever the gateway, *)
(* the dial queue, the reaper and the threads that write the row do:       *)
(* nobody is called before a user has approved that very call, a refused   *)
(* plan never becomes a call, and one approval is worth one call.          *)
(***************************************************************************)
CONSTANT Calls

VARIABLES
    phase,      \* where each call is
    approved    \* has a user tapped confirm on it

vars == <<phase, approved>>

Init ==
    /\ phase = [c \in Calls |-> "idle"]
    /\ approved = [c \in Calls |-> FALSE]

Move(c, from, to) ==
    /\ phase[c] = from
    /\ phase' = [phase EXCEPT ![c] = to]

Ask(c) == Move(c, "idle", "asked") /\ UNCHANGED approved

Approve(c) ==
    /\ Move(c, "asked", "authorised")
    /\ approved' = [approved EXCEPT ![c] = TRUE]

Place(c) == approved[c] /\ Move(c, "authorised", "placed") /\ UNCHANGED approved

\* The plan is refused or expires, alone or with others in one sweep.
Refuse ==
    /\ \E C \in SUBSET {c \in Calls : phase[c] \in {"asked", "authorised"}} :
          phase' = [c \in Calls |-> IF c \in C THEN "over" ELSE phase[c]]
    /\ UNCHANGED approved

Next == Refuse \/ \E c \in Calls : Ask(c) \/ Approve(c) \/ Place(c)

Spec == Init /\ [][Next]_vars
=============================================================================
