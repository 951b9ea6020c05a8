------------------------------ MODULE PhoneCall ------------------------------
(***************************************************************************)
(* The phone-call session of the command center (CC): the row of the table *)
(* phone_call_sessions, every handler that writes it                       *)
(* (app/services/phone_call_service.py, app/api/phone_sessions.py) and the *)
(* two processes that live next to it, the Redis dial queue and the        *)
(* gateway workers.                                                        *)
(*                                                                         *)
(* Two kinds of code touch a row.  Confirm, cancel, drafting and the       *)
(* reaper run on CC's one event loop: each is a single step between two    *)
(* awaits.  Gateway events are handled by a synchronous endpoint, so they  *)
(* run on threadpool threads: such a handler READS the row (Receive) and   *)
(* later COMMITS (Apply) what it decided from that reading.                *)
(*                                                                         *)
(* Time is abstracted to the age of a row: "fresh"; "stale", its heartbeat *)
(* is older than HEARTBEAT_STALE_SECONDS; "over", past expires_at (a       *)
(* draft) or past max_call_seconds + 120 (a call).                         *)
(***************************************************************************)
EXTENDS Naturals, FiniteSets

CONSTANTS
    Calls,          \* ids of the phone_call_sessions rows that may ever exist
    Workers,        \* gateway workers
    Threads,        \* threadpool threads that handle gateway events
    MaxConcurrent,  \* phone_calls.max_concurrent_calls
    CallsPerDay,    \* phone_calls.calls_per_day
    MonthlyUnits,   \* phone_calls.monthly_minutes_cap, in call lengths
    MaxCrashes,     \* bound on the number of process crashes
    EventKinds,     \* the event kinds the workers report in this instance
    JobsMayBeLost,  \* may Redis (or a worker that popped it) drop a dial job
    NoCall, NoWorker, NoRequest   \* null values

ASSUME CapsAssumption == {MaxConcurrent, CallsPerDay, MonthlyUnits} \subseteq Nat
ASSUME CrashAssumption == MaxCrashes \in Nat /\ JobsMayBeLost \in BOOLEAN
ASSUME NullAssumption == NoCall \notin Calls /\ NoWorker \notin Workers

VARIABLES
    state, age, confirmedBy, worker, outcome,  \* the row, by session id
    today,      \* sessions whose created_at falls in the current day
    enabled,    \* the household's phone_calls.enabled setting
    drafting,   \* create_call_plan tasks past their caps check
    tap,        \* the confirm handler blocked in enqueue_dial, or NoCall
    pushed,     \* its LPUSH has reached Redis
    queue,      \* dial jobs in Redis (a job read is not removed: redelivery)
    request,    \* by thread: the gateway event it is handling
    reaping,    \* a reaper pass is in progress
    toReap,     \* by session: what the pass still holds of it
    dialers,    \* workers whose claim_dial was answered "ok"
    wontCall,   \* sessions whose user was shown "Call cancelled / Won't call"
    crashes     \* process crashes so far

row == <<state, age, confirmedBy, worker, outcome>>
loop == <<drafting, tap, pushed, reaping, toReap>>
seen == <<dialers, wontCall, crashes>>
vars == <<row, today, enabled, loop, queue, request, seen>>

-----------------------------------------------------------------------------
(***************************************************************************)
(* The state machine.                                                      *)
(***************************************************************************)
TERMINAL_STATES == {"done", "failed", "declined", "expired"}
ACTIVE_STATES == {"dialing", "in_call", "wrapup"}
States == {"none", "draft", "confirmed"} \cup ACTIVE_STATES \cup TERMINAL_STATES

TRANSITIONS ==
    [s \in States |->
        CASE s = "draft" -> {"confirmed", "declined", "expired", "failed"}
          [] s = "confirmed" -> {"dialing", "failed", "expired"}
          [] s = "dialing" -> {"in_call", "wrapup", "failed"}
          [] s = "in_call" -> {"wrapup", "failed"}
          [] s = "wrapup" -> {"done", "failed"}
          [] OTHER -> {}]

\* Faulty variants (each is named in PROJECT.json with the property it breaks)
\* stand just before the definition they vary, marked "Faulty:".

\* transition(): the state a row has after the attempt, unchanged if illegal.
Transition(from, to) == IF to \in TRANSITIONS[from] THEN to ELSE from

Ages == {"fresh", "stale", "over"}
Outcomes == {"none", "achieved", "unachieved"}

\* The events a worker reports; "outcome" comes in two kinds, by goal_achieved.
StateEvents == {"in_call", "wrapup", "done", "failed"}
OutcomeEvents == {"achieved", "unachieved"}
LivenessEvents == {"heartbeat", "turn", "escalation"}
Events == StateEvents \cup OutcomeEvents \cup LivenessEvents

ASSUME EventAssumption == EventKinds \subseteq Events

Requests == [call : Calls, event : Events, read : States]

TypeOK ==
    /\ state \in [Calls -> States]
    /\ age \in [Calls -> Ages]
    /\ confirmedBy \in [Calls -> BOOLEAN]
    /\ worker \in [Calls -> Workers \cup {NoWorker}]
    /\ outcome \in [Calls -> Outcomes]
    /\ today \subseteq Calls
    /\ enabled \in BOOLEAN
    /\ drafting \subseteq Calls
    /\ tap \in Calls \cup {NoCall}
    /\ pushed \in BOOLEAN
    /\ queue \subseteq Calls
    /\ request \in [Threads -> Requests \cup {NoRequest}]
    /\ reaping \in BOOLEAN
    /\ toReap \in [Calls -> Ages \cup {"no", "reload"}]
    /\ dialers \in [Calls -> SUBSET Workers]
    /\ wontCall \subseteq Calls
    /\ crashes \in Nat

Init ==
    /\ state = [c \in Calls |-> "none"]
    /\ age = [c \in Calls |-> "fresh"]
    /\ confirmedBy = [c \in Calls |-> FALSE]
    /\ worker = [c \in Calls |-> NoWorker]
    /\ outcome = [c \in Calls |-> "none"]
    /\ today = {}
    /\ enabled = TRUE
    /\ drafting = {}
    /\ tap = NoCall
    /\ pushed = FALSE
    /\ queue = {}
    /\ request = [t \in Threads |-> NoRequest]
    /\ reaping = FALSE
    /\ toReap = [c \in Calls |-> "no"]
    /\ dialers = [c \in Calls |-> {}]
    /\ wontCall = {}
    /\ crashes = 0

\* enqueue_dial is a blocking call inside a synchronous handler: until it
\* returns, nothing else on the event loop runs.
LoopFree == tap = NoCall

Active == {c \in Calls : state[c] \in ACTIVE_STATES}

\* check_caps.  A call's length is one unit, reported with its outcome.  (An
\* error in the check refuses too: that is the draft declined by a tap.)
OverDailyCap == Cardinality(today) >= CallsPerDay
OverMonthlyCap == Cardinality({c \in Calls : outcome[c] # "none"}) >= MonthlyUnits
OverConcurrencyCap == Cardinality(Active) >= MaxConcurrent
CapRefuses == OverDailyCap \/ OverConcurrencyCap \/ OverMonthlyCap

-----------------------------------------------------------------------------
(***************************************************************************)
(* Drafting: create_call_plan checks the caps, then awaits the number      *)
(* search, the line type, the brief and the calendar before it commits.    *)
(***************************************************************************)
StartPlan(c) ==
    /\ LoopFree
    /\ state[c] = "none" /\ c \notin drafting
    /\ ~CapRefuses
    /\ drafting' = drafting \cup {c}
    /\ UNCHANGED <<row, today, enabled, tap, pushed, reaping, toReap, queue,
                   request, dialers, wontCall, crashes>>

CommitPlan(c) ==
    /\ LoopFree
    /\ c \in drafting
    /\ drafting' = drafting \ {c}
    /\ state' = [state EXCEPT ![c] = "draft"]
    /\ today' = today \cup {c}
    /\ UNCHANGED <<age, confirmedBy, worker, outcome, enabled, tap, pushed,
                   reaping, toReap, queue, request, dialers, wontCall, crashes>>

\* A do-not-call contact, or any exception: a card and no row.
AbandonPlan(c) ==
    /\ LoopFree
    /\ c \in drafting
    /\ drafting' = drafting \ {c}
    /\ UNCHANGED <<row, today, enabled, tap, pushed, reaping, toReap, queue,
                   request, dialers, wontCall, crashes>>

-----------------------------------------------------------------------------
(***************************************************************************)
(* The confirm tap.                                                        *)
(***************************************************************************)
\* The gate was turned off, the plan expired, or a cap refuses it: the plan
\* is closed.  With the gate off this is tried on a row in any state.
RefuseConfirm(c) ==
    /\ LoopFree
    /\ \/ /\ ~enabled /\ state[c] # "none"
          /\ state' = [state EXCEPT ![c] = Transition(@, "declined")]
       \/ /\ enabled /\ state[c] = "draft" /\ age[c] = "over"
          /\ state' = [state EXCEPT ![c] = "expired"]
       \/ /\ enabled /\ state[c] = "draft" /\ age[c] # "over"
          /\ CapRefuses
          /\ state' = [state EXCEPT ![c] = "declined"]
    /\ UNCHANGED <<age, confirmedBy, worker, outcome, today, enabled, loop,
                   queue, request, dialers, wontCall, crashes>>

\* The number and the details were valid (else the draft is left alone): the
\* row is committed as confirmed and the handler enters enqueue_dial.
Confirm(c) ==
    /\ LoopFree
    /\ enabled /\ state[c] = "draft" /\ age[c] # "over" /\ ~CapRefuses
    /\ state' = [state EXCEPT ![c] = "confirmed"]
    /\ confirmedBy' = [confirmedBy EXCEPT ![c] = TRUE]
    /\ age' = [age EXCEPT ![c] = "fresh"]
    /\ tap' = c /\ pushed' = FALSE
    /\ UNCHANGED <<worker, outcome, today, enabled, drafting, reaping, toReap,
                   queue, request, dialers, wontCall, crashes>>

\* LPUSH reaches Redis.
PushJob ==
    /\ tap # NoCall /\ ~pushed
    /\ pushed' = TRUE
    /\ queue' = queue \cup {tap}
    /\ UNCHANGED <<row, today, enabled, drafting, tap, reaping, toReap, request,
                   dialers, wontCall, crashes>>

\* enqueue_dial returns.
EnqueueReturns ==
    /\ tap # NoCall /\ pushed
    /\ tap' = NoCall /\ pushed' = FALSE
    /\ UNCHANGED <<row, today, enabled, drafting, reaping, toReap, queue,
                   request, dialers, wontCall, crashes>>

\* The handler's own copy of the row still says "confirmed", so it commits
\* its verdict over whatever a worker's claim has made of the row meanwhile.
EndTap(verdict) ==
    /\ tap # NoCall
    /\ state' = [state EXCEPT ![tap] = verdict]
    /\ tap' = NoCall /\ pushed' = FALSE
    /\ UNCHANGED <<age, confirmedBy, worker, outcome, today, enabled, drafting,
                   reaping, toReap, queue, request, dialers, wontCall, crashes>>

\* Faulty: gives the plan back to the user for another try.
EnqueueRaisesToDraft == EndTap("draft")

\* enqueue_dial raises: before the push, or after it when only the reply was
\* lost.
EnqueueRaises == EndTap("failed")

-----------------------------------------------------------------------------
(***************************************************************************)
(* The cancel tap, and the "End the call" button of the escalation card,   *)
(* which is wired to the same callback.  The card it answers with is the   *)
(* same whatever it did.                                                   *)
(***************************************************************************)
CancelCall(c) ==
    /\ LoopFree
    /\ state[c] # "none"
    /\ state' = [state EXCEPT ![c] = IF @ = "draft" THEN "declined" ELSE @]
    /\ wontCall' = wontCall \cup {c}
    /\ UNCHANGED <<age, confirmedBy, worker, outcome, today, enabled, loop,
                   queue, request, dialers, crashes>>

\* Discarding or stopping an errand declines its calls through transition(),
\* which is legal from "draft" only.
DeclineForErrand(c) ==
    /\ LoopFree
    /\ state[c] \in {"draft", "confirmed"}
    /\ state' = [state EXCEPT ![c] = Transition(@, "declined")]
    /\ UNCHANGED <<age, confirmedBy, worker, outcome, today, enabled, loop,
                   queue, request, dialers, wontCall, crashes>>

-----------------------------------------------------------------------------
(***************************************************************************)
(* Gateway events.                                                         *)
(***************************************************************************)
\* One UPDATE ... WHERE state IN from; the loser gets 409.
Claim(w, c, from, owner) ==
    /\ c \in queue
    /\ state[c] \in from
    /\ state' = [state EXCEPT ![c] = "dialing"]
    /\ worker' = [worker EXCEPT ![c] = owner]
    /\ dialers' = [dialers EXCEPT ![c] = @ \cup {w}]
    /\ UNCHANGED <<age, confirmedBy, outcome, today, enabled, loop, queue,
                   request, wontCall, crashes>>

\* Faulty: a second claim of a call that is being dialed is let through.
ClaimDialAgain(w, c) == Claim(w, c, {"confirmed", "dialing"}, w)
\* Faulty: worker_url is not recorded.
ClaimDialUnsigned(w, c) == Claim(w, c, {"confirmed"}, NoWorker)

\* claim_dial.
ClaimDial(w, c) == Claim(w, c, {"confirmed"}, w)

\* A thread starts on an event of a worker that was told to dial: it reads
\* the row.
Receive(t, c, e) ==
    /\ request[t] = NoRequest
    /\ dialers[c] # {}
    /\ request' = [request EXCEPT
                      ![t] = [call |-> c, event |-> e, read |-> state[c]]]
    /\ UNCHANGED <<row, today, enabled, loop, queue, dialers,
                   wontCall, crashes>>

\* Is the event accepted, judged by the state the thread read (else 409)?
Accepts(r) ==
    \/ r.event \in StateEvents /\ r.event \in TRANSITIONS[r.read]
    \/ r.event \in OutcomeEvents
    \/ r.event = "heartbeat" /\ r.read \notin TERMINAL_STATES
    \/ r.event = "turn" /\ r.read \in ACTIVE_STATES
    \/ r.event = "escalation" /\ r.read = "in_call"

\* Faulty: the outcome's verdict lands in the state column.
DecidedVerdict(r) == r.event

\* The value the handler assigns to the row's state: its UPDATE writes the
\* column only when that differs from what it read.
Decided(r) ==
    IF r.event \in StateEvents THEN r.event
    ELSE IF r.event \in OutcomeEvents /\ r.read \in ACTIVE_STATES THEN "done"
    ELSE r.read

\* The handler commits.  (It then hands a finished call to the errand that
\* waits for it: module WorkflowRun.)
Apply(t) ==
    LET r == request[t] IN
    /\ r # NoRequest
    /\ request' = [request EXCEPT ![t] = NoRequest]
    /\ IF Accepts(r)
       THEN /\ state' = [state EXCEPT
                            ![r.call] = IF Decided(r) = r.read THEN @ ELSE Decided(r)]
            /\ age' = [age EXCEPT ![r.call] = IF @ = "stale" THEN "fresh" ELSE @]
            /\ outcome' = [outcome EXCEPT
                            ![r.call] = IF r.event \in OutcomeEvents THEN r.event ELSE @]
       ELSE UNCHANGED <<state, age, outcome>>
    /\ UNCHANGED <<confirmedBy, worker, today, enabled, loop, queue, dialers,
                   wontCall, crashes>>

-----------------------------------------------------------------------------
(***************************************************************************)
(* The reaper: one pass lists the active rows, fails those out of time one *)
(* commit at a time, awaiting the worker's cancel endpoint after each, and *)
(* finally expires the overdue drafts.  A commit makes the ORM reload the  *)
(* rows still listed: from then on a visit sees their current heartbeat,   *)
(* but never looks at their state again.                                   *)
(***************************************************************************)
ReapStart ==
    /\ LoopFree /\ ~reaping
    /\ reaping' = TRUE
    /\ toReap' = [c \in Calls |-> IF c \in Active THEN age[c] ELSE "no"]
    /\ UNCHANGED <<row, today, enabled, drafting, tap, pushed, queue, request,
                   dialers, wontCall, crashes>>

Visit(c, outOfTime) ==
    /\ LoopFree /\ reaping /\ toReap[c] # "no"
    /\ IF (IF toReap[c] = "reload" THEN age[c] ELSE toReap[c]) \in outOfTime
       THEN /\ state' = [state EXCEPT ![c] = "failed"]
            /\ toReap' = [d \in Calls |->
                            IF d = c \/ toReap[d] = "no" THEN "no" ELSE "reload"]
       ELSE /\ toReap' = [toReap EXCEPT ![c] = "no"]
            /\ UNCHANGED state
    /\ UNCHANGED <<age, confirmedBy, worker, outcome, today, enabled, drafting,
                   tap, pushed, reaping, queue, request, dialers, wontCall,
                   crashes>>

\* Faulty: trusts the heartbeat and forgets the time limit.
ReapVisitStaleOnly(c) == Visit(c, {"stale"})

ReapVisit(c) == Visit(c, {"stale", "over"})

EndPass(expired) ==
    /\ LoopFree /\ reaping /\ \A c \in Calls : toReap[c] = "no"
    /\ reaping' = FALSE
    /\ state' = [c \in Calls |-> IF c \in expired THEN "expired" ELSE state[c]]
    /\ UNCHANGED <<age, confirmedBy, worker, outcome, today, enabled, drafting,
                   tap, pushed, toReap, queue, request, dialers, wontCall,
                   crashes>>

\* Faulty: leaves the overdue drafts alone.
ReapFinishNoExpiry == EndPass({})

ReapFinish == EndPass({c \in Calls : state[c] = "draft" /\ age[c] = "over"})

-----------------------------------------------------------------------------
(***************************************************************************)
(* The environment: time, the settings, Redis, crashes.                    *)
(***************************************************************************)
AgeTo(c, a) ==
    /\ \/ state[c] \in {"draft", "confirmed"} /\ age[c] # "over" /\ a = "over"
       \/ state[c] \in ACTIVE_STATES /\ age[c] = "fresh" /\ a = "stale"
       \/ state[c] \in ACTIVE_STATES /\ age[c] # "over" /\ a = "over"
    /\ age' = [age EXCEPT ![c] = a]
    /\ UNCHANGED <<state, confirmedBy, worker, outcome, today, enabled, loop,
                   queue, request, dialers, wontCall, crashes>>

NewDay ==
    /\ today # {}
    /\ today' = {}
    /\ UNCHANGED <<row, enabled, loop, queue, request, dialers,
                   wontCall, crashes>>

ToggleGate ==
    /\ enabled' = ~enabled
    /\ UNCHANGED <<row, today, loop, queue, request, dialers,
                   wontCall, crashes>>

LoseJob(c) ==
    /\ JobsMayBeLost /\ c \in queue
    /\ queue' = queue \ {c}
    /\ UNCHANGED <<row, today, enabled, loop, request, dialers,
                   wontCall, crashes>>

\* The process dies and restarts: rows and Redis survive, tasks do not.
Crash ==
    /\ crashes < MaxCrashes
    /\ crashes' = crashes + 1
    /\ drafting' = {} /\ tap' = NoCall /\ pushed' = FALSE
    /\ reaping' = FALSE /\ toReap' = [c \in Calls |-> "no"]
    /\ request' = [t \in Threads |-> NoRequest]
    /\ UNCHANGED <<row, today, enabled, queue, dialers, wontCall>>

-----------------------------------------------------------------------------
Next ==
    \/ \E c \in Calls :
          \/ StartPlan(c) \/ CommitPlan(c) \/ AbandonPlan(c)
          \/ RefuseConfirm(c) \/ Confirm(c)
          \/ CancelCall(c) \/ DeclineForErrand(c)
          \/ ReapVisit(c)
          \/ LoseJob(c)
    \/ PushJob \/ EnqueueReturns \/ EnqueueRaises
    \/ \E w \in Workers, c \in Calls : ClaimDial(w, c)
    \/ \E t \in Threads, c \in Calls, e \in EventKinds : Receive(t, c, e)
    \/ \E t \in Threads : Apply(t)
    \/ ReapStart \/ ReapFinish
    \/ \E c \in Calls, a \in Ages : AgeTo(c, a)
    \/ NewDay \/ ToggleGate \/ Crash

Spec == Init /\ [][Next]_vars

(***************************************************************************)
(* Fairness.  The reaper is a periodic task of the loop, a blocked tap and *)
(* a thread finish, Redis has a socket timeout, and time passes.           *)
(***************************************************************************)
Fairness ==
    /\ WF_vars(ReapStart) /\ WF_vars(ReapFinish)
    /\ \A c \in Calls : WF_vars(ReapVisit(c)) /\ WF_vars(AgeTo(c, "over"))
    /\ \A c \in Calls : WF_vars(\E w \in Workers : ClaimDial(w, c))
    /\ WF_vars(PushJob) /\ WF_vars(EnqueueReturns)
    /\ \A t \in Threads : WF_vars(Apply(t))

FairSpec == Spec /\ Fairness

-----------------------------------------------------------------------------
(***************************************************************************)
(* Properties.                                                             *)
(***************************************************************************)
\* An active session has an owner, the worker that won the claim: mid-call
\* answers and the reaper's cancel are sent to the worker on the line.
ActiveHasOwner ==
    \A c \in Active : worker[c] # NoWorker /\ dialers[c] = {worker[c]}

\* The session implements the promise of module CallPromise.
phase ==
    [c \in Calls |->
        IF Cardinality(dialers[c]) > 1 THEN "placed again"
        ELSE IF dialers[c] # {} THEN "placed"
        ELSE CASE state[c] = "none" -> "idle"
               [] state[c] = "draft" -> "asked"
               [] state[c] = "confirmed" -> "authorised"
               [] OTHER -> "over"]

Promise == INSTANCE CallPromise WITH approved <- confirmedBy

ImplementsPromise == Promise!Spec

\* What an errand run sees of a session linked to it (module LinkedCall, the
\* environment of module WorkflowRun): from its draft on, the session only
\* takes the steps the run was checked against.
Link == INSTANCE LinkedCall

status ==
    [c \in Calls |->
        CASE state[c] \in ACTIVE_STATES -> "live"
          [] state[c] = "done" -> IF outcome[c] = "achieved" THEN "achieved"
                                  ELSE "unachieved"
          [] state[c] \in {"declined", "expired"} -> "refused"
          [] OTHER -> state[c]]

LinkedAsAssumed ==
    [][\A c \in Calls :
          \/ status'[c] = status[c]
          \/ <<status[c], status'[c]>> \in Link!CallSteps \cup {<<"none", "draft">>}
      ]_vars

\* The reaper ends every call: it leaves the active states whatever the
\* worker does, by its age if not by its heartbeat.
ActiveCallEnds ==
    \A c \in Calls : state[c] \in ACTIVE_STATES ~> state[c] \notin ACTIVE_STATES

\* A draft does not outlive its time to live unanswered.
DraftEnds == \A c \in Calls : state[c] = "draft" ~> state[c] # "draft"

\* What the sources say and the code does not do (see README, findings).
\* "land terminal exactly once" (phone_sessions.py), "Every transition goes
\* through transition() (single choke point)" (phone_call_service.py): a
\* terminal state has no successor.
TerminalIsFinal ==
    [][\A c \in Calls : state[c] \in TERMINAL_STATES => state'[c] = state[c]]_vars

\* "Max simultaneous active calls per household" (settings_definitions.py).
ConcurrencyCapHolds == Cardinality(Active) <= MaxConcurrent

\* "Per-household daily call/plan cap": a plan the cap admitted is not
\* refused by the same cap when it is confirmed, unless more plans were made.
RefusedByDailyCap(c) ==
    /\ RefuseConfirm(c)
    /\ enabled /\ age[c] # "over"
    /\ ~OverConcurrencyCap /\ ~OverMonthlyCap

DailyCapAdmitsItsPlans ==
    [][\A c \in Calls :
          RefusedByDailyCap(c) => Cardinality(today) > CallsPerDay]_vars

\* "never a silent stuck 'confirmed'" (enqueue_dial).
ConfirmedNeverStuck ==
    \A c \in Calls : state[c] = "confirmed" ~> state[c] # "confirmed"

\* The cancel callback's card, "Call cancelled / Won't call ...".
CancelledMeansNoCall ==
    [][\A c \in wontCall : dialers'[c] = dialers[c]]_vars
=============================================================================
