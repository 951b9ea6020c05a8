----------------------------- MODULE LinkedCall -----------------------------
(***************************************************************************)
(* What an errand run sees of a phone-call session linked to it: the       *)
(* status its sweep and its hook read, and the steps that status may take. *)
(* Module WorkflowRun assumes these steps; module PhoneCall is checked to  *)
(* take no other.                                                          *)
(***************************************************************************)

\* "live" is dialing, in_call or wrapup; "achieved" and "unachieved" are
\* done, by goal_achieved (an unconfirmed goal counts as unachieved);
\* "refused" is declined or expired.
LateCall == {"live", "achieved", "unachieved", "failed"}
CallStates == {"none", "draft", "confirmed", "refused"} \cup LateCall

FinishedCall == {"achieved", "unachieved", "failed", "refused"}

\* A finished call is not at rest: late events and stale writes still move it
\* (module PhoneCall, TerminalIsFinal).  Only a refused one stays.
CallSteps ==
    {<<"draft", "confirmed">>, <<"draft", "refused">>,
     <<"confirmed", "live">>, <<"confirmed", "failed">>}
        \cup {s \in LateCall \X LateCall : s[1] # s[2]}
=============================================================================
