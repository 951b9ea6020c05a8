------------------------------ MODULE Attention ------------------------------
(***************************************************************************)
(* The attention broker, services/attention_broker.py, and the endpoints   *)
(* that ask it before they notify anybody: api/node_commands.py and        *)
(* api/attention.py.                                                       *)
(*                                                                         *)
(* Of one household.  A request is judged, and then its rows are committed: *)
(* what others commit in between it has not counted.  Endpoints that are   *)
(* coroutines do both without a pause, one of them at a time;              *)
(* node_post_inbox_item runs on worker threads.  (Each gate is a query of  *)
(* its own; one look at all of them stands for the queries.)  What the     *)
(* broker lets through is then posted to the notification service, which   *)
(* may refuse it.  The outcome stamped on the row, and the names of the    *)
(* gates, are read by the reader of the journal alone and are left out, and *)
(* so are the events of a batch after its fiftieth, which nobody looks at. *)
(***************************************************************************)
EXTENDS Naturals, FiniteSets

CONSTANTS
    Requests,     \* what producers may send: see RequestAssumption
    Sources,
    Ceiling,      \* consent ceiling of a source ("never" reads as "journal")
    TierCap,      \* the highest rung of a source's trust tier
    PushBudget, InboxBudget, SourceCap,  \* attention.daily_..., source_daily_cap
    Workers,      \* threads for endpoints that are not coroutines
    MaxCrashes, MaxDays  \* bounds

VARIABLES
    stage,    \* where the handling of a request is
    decision, \* the rung it is to be delivered at
    row,      \* rung of its committed attention_deliveries row
    shown,    \* rung at which the notification service took it
    today,    \* rows of the current local day
    window,   \* committed events younger than dedupe_window_hours
    days, crashes

vars == <<stage, decision, row, shown, today, window, days, crashes>>

-----------------------------------------------------------------------------
Rungs == {"journal", "inbox", "push"}
Level == [journal |-> 0, inbox |-> 1, push |-> 2]
Lower(a, b) == IF Level[a] <= Level[b] THEN a ELSE b

\* "explicit": the producer set a dedupe_key, and it is not a hash of the title.
\* An endpoint passes on what its body has room for: /attention/events cannot
\* force, and a link is always a push under its URL.
ASSUME RequestAssumption ==
    /\ IsFiniteSet(Requests)
    /\ \A r \in Requests :
           /\ r.via \in {"push", "link", "inbox", "event"}
           /\ r.source \in Sources /\ r.asks \in Rungs
           /\ r.explicit \in BOOLEAN /\ r.safety \in BOOLEAN /\ r.force \in BOOLEAN
           /\ r.via \in {"event", "link"} => ~r.force
           /\ r.via \in {"push", "link"} => r.asks = "push"
           /\ r.via = "link" => r.explicit
           /\ r.via = "inbox" => r.asks # "journal"
    /\ Ceiling \in [Sources -> Rungs] /\ TierCap \in [Sources -> Rungs]

ASSUME BudgetAssumption ==
    /\ PushBudget \in Nat /\ InboxBudget \in Nat /\ SourceCap \in Nat
    /\ Workers \in Nat /\ MaxCrashes \in Nat /\ MaxDays \in Nat

\* "ended": answered as sent, or as withheld; "refused": answered as not sent.
Stages == {"new", "judged", "decided", "ended", "refused", "unanswered"}

TypeOK ==
    /\ stage \in [Requests -> Stages]
    /\ decision \in [Requests -> Rungs \cup {"none"}]
    /\ row \in [Requests -> Rungs \cup {"none"}]
    /\ shown \in [Requests -> Rungs \cup {"none"}]
    /\ today \subseteq Requests /\ window \subseteq Requests
    /\ days \in 0 .. MaxDays /\ crashes \in 0 .. MaxCrashes

Init ==
    /\ stage = [r \in Requests |-> "new"]
    /\ decision = [r \in Requests |-> "none"]
    /\ row = [r \in Requests |-> "none"]
    /\ shown = [r \in Requests |-> "none"]
    /\ today = {} /\ window = {}
    /\ days = 0 /\ crashes = 0

-----------------------------------------------------------------------------
(* The gates of record_and_route.                                          *)

Duplicate(r) == \E e \in window : e # r /\ e.source = r.source /\ e.key = r.key

\* Faulty: a safety alert is compared by its title as well.
DedupUnlessForced(r) == ~r.force

DedupApplies(r) == ~r.force /\ (r.explicit \/ ~r.safety)

\* Never silenced: forced, or of a safety category and not compared.
Bypasses(r) == r.force \/ r.safety

Used(rung) == Cardinality({e \in today : row[e] = rung})
UsedBy(source) == Cardinality({e \in today : row[e] # "journal" /\ e.source = source})

\* Faulty: the budget that is used up is still passed.
WithinOrAtBudget(rung) ==
    CASE rung = "push" /\ Used("push") <= PushBudget -> "push"
      [] rung # "journal" /\ Used("inbox") < InboxBudget -> "inbox"
      [] OTHER -> "journal"

\* An exhausted budget demotes one rung, to the budget of that rung.
WithinBudget(rung) ==
    IF rung = "push" /\ Used("push") < PushBudget THEN "push"
    ELSE IF rung # "journal" /\ Used("inbox") < InboxBudget THEN "inbox"
    ELSE "journal"

\* attention.quiet_hours.
AfterQuiet(rung, quiet) == IF quiet /\ rung = "push" THEN "inbox" ELSE rung

Gated(r, quiet) ==
    IF UsedBy(r.source) >= SourceCap THEN "journal"
    ELSE AfterQuiet(WithinBudget(
             Lower(Lower(r.asks, Ceiling[r.source]), TierCap[r.source])), quiet)

Rung(r, quiet) ==
    IF DedupApplies(r) /\ Duplicate(r) THEN "journal"
    ELSE IF Bypasses(r) THEN r.asks
    ELSE Gated(r, quiet)

-----------------------------------------------------------------------------
(* Handling a request.                                                     *)

Around == UNCHANGED <<days, crashes>>

OnThread(r) == r.via = "inbox"
Running == {r \in Requests : OnThread(r) /\ stage[r] \in {"judged", "decided"}}

\* A thread of its own, or the event loop.
Admitted(r) ==
    IF OnThread(r) THEN Cardinality(Running) < Workers
    ELSE \A e \in Requests : stage[e] = "judged" => OnThread(e)

\* record_and_route: the gates ...
Judges(r, quiet) ==
    /\ stage[r] = "new" /\ Admitted(r)
    /\ stage' = [stage EXCEPT ![r] = "judged"]
    /\ decision' = [decision EXCEPT ![r] = Rung(r, quiet)]
    /\ UNCHANGED <<row, shown, today, window>> /\ Around

\* ... and the commit of the event and its delivery.
Records(r) ==
    /\ stage[r] = "judged"
    /\ row' = [row EXCEPT ![r] = decision[r]]
    /\ today' = today \cup {r} /\ window' = window \cup {r}
    /\ IF decision[r] = "journal"
       THEN /\ stage' = [stage EXCEPT ![r] = "ended"]
            /\ decision' = [decision EXCEPT ![r] = "none"]
       ELSE stage' = [stage EXCEPT ![r] = "decided"] /\ UNCHANGED decision
    /\ UNCHANGED shown /\ Around

\* Faulty: an endpoint reads an error of the broker as "withheld".
FailsClosed(r) ==
    /\ stage[r] = "new" /\ Admitted(r)
    /\ stage' = [stage EXCEPT ![r] = "ended"]
    /\ UNCHANGED <<decision, row, shown, today, window>> /\ Around

\* The broker is off, or raises: _attention_gate falls through to what was
\* asked for, with no row.  post_attention_events delivers nothing, and says so.
FailsOpen(r) ==
    /\ stage[r] = "new" /\ Admitted(r)
    /\ IF r.via = "event"
       THEN stage' = [stage EXCEPT ![r] = "unanswered"] /\ UNCHANGED decision
       ELSE /\ stage' = [stage EXCEPT ![r] = "decided"]
            /\ decision' = [decision EXCEPT ![r] = r.asks]
    /\ UNCHANGED <<row, shown, today, window>> /\ Around

\* The card is taken.  Whether the push after it is, is logged and not told.
Posts(r) ==
    /\ stage[r] = "decided"
    /\ shown' = [shown EXCEPT ![r] = decision[r]]
    /\ stage' = [stage EXCEPT ![r] = "ended"]
    /\ decision' = [decision EXCEPT ![r] = "none"]
    /\ UNCHANGED <<row, today, window>> /\ Around

\* It is not, and the caller is told so.  post_attention_events answers what was
\* decided all the same.
PostFails(r) ==
    /\ stage[r] = "decided"
    /\ stage' = [stage EXCEPT ![r] = IF r.via = "event" THEN "ended" ELSE "refused"]
    /\ decision' = [decision EXCEPT ![r] = "none"]
    /\ UNCHANGED <<row, shown, today, window>> /\ Around

-----------------------------------------------------------------------------
(* Time, and restarts.                                                     *)

\* The household's midnight.
DayPasses ==
    /\ today # {} /\ days < MaxDays /\ days' = days + 1
    /\ today' = {}
    /\ UNCHANGED <<stage, decision, row, shown, window, crashes>>

\* The events of earlier days leave the dedupe window.
WindowPasses ==
    /\ window \ today # {} /\ window' = window \cap today
    /\ UNCHANGED <<stage, decision, row, shown, today, days, crashes>>

\* What is being handled is lost, recorded or not.  (Otherwise nothing is.)
Crash ==
    /\ \E r \in Requests : stage[r] \in {"judged", "decided"}
    /\ crashes < MaxCrashes /\ crashes' = crashes + 1
    /\ stage' = [r \in Requests |->
           IF stage[r] \in {"judged", "decided"} THEN "unanswered" ELSE stage[r]]
    /\ decision' = [r \in Requests |-> "none"]
    /\ UNCHANGED <<row, shown, today, window, days>>

Next ==
    \/ \E r \in Requests :
        \/ \E quiet \in BOOLEAN : Judges(r, quiet)
        \/ Records(r) \/ FailsOpen(r)
        \/ Posts(r) \/ PostFails(r)
    \/ DayPasses \/ WindowPasses \/ Crash

Spec == Init /\ [][Next]_vars

-----------------------------------------------------------------------------
(* Properties.                                                             *)

\* A forced alert, and a safety alert whose producer set no key, reaches the
\* household at the rung that was asked for, whatever was sent before it, unless
\* its caller is told that it was not sent: the evening dose is no duplicate of
\* the morning's.  Of an event only the decision is certain.
SafetyNotSilenced ==
    \A r \in Requests :
        /\ r.force \/ (r.safety /\ ~r.explicit)
        /\ r.asks # "journal"
        /\ stage[r] = "ended"
        => r.asks = IF r.via = "event" THEN row[r] ELSE shown[r]

\* daily_push_budget: the pushes of a day that had to pass it exceed it by no
\* more than the threads that can look before they commit.
GatedPushes == {r \in today : row[r] = "push" /\ ~Bypasses(r)}
PushBudgetHolds == Cardinality(GatedPushes) <= PushBudget + Workers

\* "Failing a gate demotes one rung, never drops", and "broker errors fail
\* open": a request whose caller is not told that it was not sent was posted, or
\* is in the journal as withheld.  Of an event only the record is certain.
NeverDropped ==
    \A r \in Requests :
        stage[r] = "ended" =>
            \/ shown[r] # "none" \/ row[r] = "journal"
            \/ r.via = "event" /\ row[r] # "none"

\* daily_inbox_budget: no more cards in a day than the budget, of those that
\* had to pass it.
InboxBudgetHolds ==
    Cardinality({r \in today : row[r] = "inbox" /\ ~Bypasses(r)}) <= InboxBudget + Workers

-----------------------------------------------------------------------------
(* What the sources say and the code does not do.                          *)

\* "notifications service down: ... endpoint returns sent=false"
\* (prds/attention-broker.md:201).  Judges, Records, PostFails, of an event: it
\* is answered as delivered.
FailureIsTold ==
    \A r \in Requests : stage[r] = "ended" => shown[r] # "none" \/ row[r] = "journal"

\* "journaled as duplicate and not re-delivered" (prds/attention-broker.md:105):
\* what is withheld as a duplicate was delivered before.  Judges, Records,
\* PostFails, and Judges of the retry: the refused one is in the window as well.
DuplicatesWereSent ==
    [][\A r \in Requests :
           (\E quiet \in BOOLEAN : Judges(r, quiet)) /\ DedupApplies(r) /\ Duplicate(r) =>
               \E e \in window : /\ e.source = r.source /\ e.key = r.key
                                /\ stage[e] # "refused"]_vars
=============================================================================
