---------------------------- MODULE WorkflowRun ----------------------------
(***************************************************************************)
(* One durable run of an errand: the row of the table workflows, the       *)
(* engine that drives it (app/services/workflow_engine.py,                 *)
(* errand_executor.py) and everything that wakes it, cancels it or changes *)
(* its plan while it runs (app/services/errand_service.py).                *)
(*                                                                         *)
(* All this code runs as tasks of one event loop, so an action is what a   *)
(* task does between two awaits.  A DRIVER is a task inside _drive_run:    *)
(* the Run tap, the hook of a finished call, a sweep, the Approve tap or a *)
(* detached auto-continue.  The row survives a crash; tasks do not.        *)
(*                                                                         *)
(* Step indices count from 0 as in the code; the TLA+ sequence of steps    *)
(* counts from 1.  The signal that ends a wait is named by the kind of the *)
(* step that suspended: "call" (phone_call), "wait" (timer) and "replan"   *)
(* (approval).  Prose (messages, summaries, labels) is left out.           *)
(***************************************************************************)
EXTENDS Naturals, Sequences, FiniteSets, LinkedCall, LinkedRun

CONSTANTS
    Plans,       \* what is approved: the steps of an errand
    Additions,   \* what the planner may propose at a checkpoint
    Drivers,     \* tasks that may drive the run
    MaxSteps,    \* bound on the length of a plan
    MaxCrashes,  \* bound on process crashes
    MaxFaults,   \* bound on failing database statements
    Nobody       \* null: no driver, no scan

VARIABLES
    rstate, steps, cursor, results, waitingOn, revision,   \* the row
    driver,    \* by task: what it carries of the run, or Nobody
    scan,      \* what a sweep noted of the run before it got to it, or Nobody
    hooks,     \* background tasks scheduled by the gateway events of its calls
    resolving, \* detached tasks that resolve a checkpoint
    up,        \* is the process up, its startup recovery done
    call,      \* by step index: the session linked to the run at that step
    elapsed,   \* waits whose deadline or wake instant has passed
    cards,     \* delta cards the household may tap
    trail,     \* history: step indices in the order they were dispatched
    achieved,  \* history: steps whose call was once recorded as achieved
    told,      \* history: completion cards the notification service took
    refused,   \* history: kinds of cards it did not take
    crashes, faults

row == <<rstate, steps, cursor, results, waitingOn, revision>>
tasks == <<driver, scan, hooks, resolving>>
world == <<up, call, elapsed, cards, trail, achieved, told, refused, crashes,
           faults>>
vars == <<row, tasks, world>>

-----------------------------------------------------------------------------
Kinds == {"sync", "call", "wait", "replan"}
Step == [kind : Kinds, add : Seq([kind : Kinds])]
Indices == 0 .. MaxSteps - 1

Ended == {"done", "partial", "failed", "cancelled"}
RunStates == {"running", "waiting"} \cup Ended

\* What a step leaves in the record; the outcome of a checkpoint the run went
\* on from is marked as control flow.
Outcomes == {"passed", "failed", "control"}
Outcome(kind, ok) ==
    IF ~ok THEN "failed" ELSE IF kind = "replan" THEN "control" ELSE "passed"

Driving == [phase : {"drive", "busy", "finish"}, at : 0 .. MaxSteps,
            results : Seq(Outcomes), steps : Seq(Step),
            signal : Kinds \cup {"start"}]

ASSUME PlanAssumption ==
    \A plan \in Plans : plan \in Seq(Step) /\ Len(plan) <= MaxSteps
ASSUME AdditionsAssumption == Additions \subseteq Seq([kind : Kinds])
ASSUME BoundsAssumption == {MaxSteps, MaxCrashes, MaxFaults} \subseteq Nat
ASSUME NobodyAssumption == Nobody \notin Driving

TypeOK ==
    /\ rstate \in RunStates
    /\ steps \in Seq(Step) /\ Len(steps) <= MaxSteps
    /\ cursor \in 0 .. MaxSteps
    /\ results \in Seq(Outcomes)
    /\ waitingOn \in Kinds \cup {"none"}
    /\ revision \in Nat
    /\ driver \in [Drivers -> Driving \cup {Nobody}]
    /\ scan \in [of : {"call", "wait"}, step : Indices] \cup {Nobody}
    /\ hooks \subseteq [step : Indices, ok : BOOLEAN]
    /\ resolving \subseteq [step : Indices, planning : BOOLEAN]
    /\ up \in BOOLEAN
    /\ call \in [Indices -> CallStates]
    /\ elapsed \subseteq Indices
    /\ cards \subseteq [rev : Nat, add : Seq([kind : Kinds])]
    /\ trail \in Seq(Indices)
    /\ achieved \subseteq Indices
    /\ refused \subseteq {"completion", "delta"}
    /\ told \in Nat /\ crashes \in Nat /\ faults \in Nat

\* The Run tap has committed the row and entered run_workflow.
NewDriver(at, prior, plan, phase, signal) ==
    [phase |-> phase, at |-> at, results |-> prior, steps |-> plan,
     signal |-> signal]

Init ==
    /\ rstate = "running" /\ steps \in Plans /\ cursor = 0 /\ results = <<>>
    /\ waitingOn = "none" /\ revision = 1
    /\ \E d \in Drivers :
          driver = [e \in Drivers |->
                      IF e = d THEN NewDriver(0, <<>>, steps, "drive", "start")
                      ELSE Nobody]
    /\ scan = Nobody /\ hooks = {} /\ resolving = {}
    /\ up = TRUE
    /\ call = [i \in Indices |-> "none"]
    /\ elapsed = {} /\ cards = {} /\ trail = <<>> /\ achieved = {}
    /\ told = 0 /\ refused = {} /\ crashes = 0 /\ faults = 0

-----------------------------------------------------------------------------
(***************************************************************************)
(* deliver_signal: only a run that waits on exactly this step is claimed;  *)
(* load and claim are one step of the loop.  A failed signal goes straight *)
(* to the report, a good one drives the plan on.                           *)
(***************************************************************************)
\* Faulty: without the waiting->running guard.
ClaimableUnguarded(step) == rstate \in {"running", "waiting"} /\ cursor = step + 1
\* Faulty: takes a signal for any step.
ClaimableAnyStep(step) == rstate = "waiting" /\ cursor > 0

Claimable(step) == rstate = "waiting" /\ cursor = step + 1

Deliver(d, step, kind, ok, plan) ==
    IF Claimable(step)
    THEN /\ driver[d] = Nobody
         /\ rstate' = "running"
         /\ driver' = [driver EXCEPT
                          ![d] = NewDriver(cursor,
                                           Append(results, Outcome(kind, ok)), plan,
                                           IF ok THEN "drive" ELSE "finish",
                                           kind)]
    ELSE UNCHANGED <<rstate, driver>>

-----------------------------------------------------------------------------
(***************************************************************************)
(* The driver: execute_errand's loop, run_step, and the tail of _drive_run.*)
(***************************************************************************)
In(d, phase) == up /\ driver[d] # Nobody /\ driver[d].phase = phase
AtEnd(d) == driver[d].at = Len(driver[d].steps)
Kind(d) == driver[d].steps[driver[d].at + 1].kind

\* A $-directive of the step cannot be computed: recorded, not run, no failure.
SkipStep(d) ==
    /\ In(d, "drive") /\ ~AtEnd(d)
    /\ driver' = [driver EXCEPT ![d].at = @ + 1,
                                ![d].results = Append(@, "passed")]
    /\ UNCHANGED <<row, scan, hooks, resolving, world>>

DispatchStep(d) ==
    /\ In(d, "drive") /\ ~AtEnd(d)
    /\ driver' = [driver EXCEPT ![d].phase = "busy"]
    /\ trail' = Append(trail, driver[d].at)
    /\ UNCHANGED <<row, scan, hooks, resolving, up, call, elapsed, cards,
                   achieved, told, refused, crashes, faults>>

\* The step returns an outcome; a checkpoint never does.  A call does so only
\* when it fails: nothing was drafted, or its draft is in the table and what
\* came after raised (the draft is left there).
StepReturns(d, ok) ==
    LET me == driver[d] IN
    /\ In(d, "busy")
    /\ \/ Kind(d) \in {"sync", "wait"} /\ UNCHANGED call
       \/ /\ Kind(d) = "call" /\ ~ok
          /\ call' \in {call, [call EXCEPT ![me.at] = "draft"]}
    /\ driver' = [driver EXCEPT ![d].phase = IF ok THEN "drive" ELSE "finish",
                                ![d].at = @ + 1,
                                ![d].results = Append(@, Outcome(Kind(d), ok))]
    /\ UNCHANGED <<row, scan, hooks, resolving, up, elapsed, cards, trail,
                   achieved, told, refused, crashes, faults>>

\* The step suspends the run: save_waiting, which swallows a failing commit,
\* and after it the needs_a_tap event of a checkpoint.
SuspendStep(d, saved) ==
    LET me == driver[d] IN
    /\ In(d, "busy") /\ Kind(d) \in {"call", "wait", "replan"}
    /\ driver' = [driver EXCEPT ![d] = Nobody]
    /\ call' = IF Kind(d) = "call" THEN [call EXCEPT ![me.at] = "draft"] ELSE call
    /\ resolving' = IF Kind(d) = "replan"
                    THEN resolving \cup {[step |-> me.at, planning |-> FALSE]}
                    ELSE resolving
    /\ IF saved
       THEN /\ rstate' = "waiting" /\ cursor' = me.at + 1
            /\ results' = me.results /\ waitingOn' = Kind(d)
            /\ UNCHANGED faults
       ELSE /\ faults < MaxFaults /\ faults' = faults + 1
            /\ UNCHANGED <<rstate, cursor, results, waitingOn>>
    /\ UNCHANGED <<steps, revision, scan, hooks, up, elapsed, cards, trail,
                   achieved, told, refused, crashes>>

\* aggregate_and_compose and terminal_state: control flow is not counted,
\* unless there is nothing else.
Verdict(outcomes) ==
    LET work == {i \in DOMAIN outcomes : outcomes[i] # "control"}
        counted == IF work = {} THEN DOMAIN outcomes ELSE work
        passed == {i \in counted : outcomes[i] # "failed"}
    IN
    IF passed = {} THEN "failed"
    ELSE IF passed = counted THEN "done" ELSE "partial"

\* Best-effort: a card the notification service does not take is logged and
\* forgotten.
Posts(kind, posted) ==
    IF posted THEN told' = told + 1 /\ UNCHANGED refused
    ELSE refused' = refused \cup {kind} /\ UNCHANGED told

\* The summary is composed; the card goes out first, then the row is saved
\* whatever became of the card (a failing commit is swallowed).  An exception
\* ends the run as "failed".
Finish(d, raised, posted, saved) ==
    /\ In(d, "finish") \/ (In(d, "drive") /\ (AtEnd(d) \/ raised))
    /\ driver' = [driver EXCEPT ![d] = Nobody]
    /\ Posts("completion", posted)
    /\ IF saved
       THEN /\ rstate' = IF raised THEN "failed" ELSE Verdict(driver[d].results)
            /\ UNCHANGED faults
       ELSE /\ faults < MaxFaults /\ faults' = faults + 1
            /\ UNCHANGED rstate
    /\ UNCHANGED <<steps, cursor, results, waitingOn, revision, scan, hooks,
                   resolving, up, call, elapsed, cards, trail, achieved, crashes>>

-----------------------------------------------------------------------------
(***************************************************************************)
(* The wakeup sources.                                                     *)
(***************************************************************************)
\* Faulty: a call that connected and finished counts as a success.
AchievedIfDone(i) == call[i] \in {"achieved", "unachieved"}

\* interpret_signal: only an explicit goal_achieved lets the errand go on.
Achieved(i) == call[i] = "achieved"

\* A gateway event of a finished call leaves a background task with what the
\* row says at that moment; a repeated event leaves another one.
CallReports(i) ==
    /\ up /\ call[i] \in {"achieved", "unachieved", "failed"}
    /\ hooks' = hooks \cup {[step |-> i, ok |-> Achieved(i)]}
    /\ UNCHANGED <<row, driver, scan, resolving, world>>

\* resume_errand_after_call, from the hook.
HookRuns(d, h) ==
    /\ up /\ h \in hooks
    /\ hooks' = hooks \ {h}
    /\ Deliver(d, h.step, "call", h.ok, steps)
    /\ UNCHANGED <<steps, cursor, results, waitingOn, revision, scan,
                   resolving, world>>

\* A sweep lists the waiting runs; it may get to this one much later, having
\* driven others.  The phone sweep lists every waiting run, whatever it waits
\* on; the timer sweep those whose wake instant has passed.
SweepLists(of) ==
    /\ up /\ scan = Nobody /\ rstate = "waiting"
    /\ of = "wait" => waitingOn = "wait" /\ cursor - 1 \in elapsed
    /\ scan' = [of |-> of, step |-> cursor - 1]
    /\ UNCHANGED <<row, driver, hooks, resolving, world>>

\* Faulty: waits for the call for ever.
GivesUpNever(i) == FALSE

\* _ERRAND_WAIT_DEADLINE: a call not finished in time is taken for a failure.
GivesUp(i) == call[i] # "none" /\ i \in elapsed

\* resume_waiting_errands on this run: a finished call is delivered, one that
\* is past the deadline is given up, else nothing.
PhoneSweepVisits(d) ==
    /\ up /\ scan # Nobody /\ scan.of = "call"
    /\ scan' = Nobody
    /\ LET i == scan.step IN
       IF call[i] \in FinishedCall \/ GivesUp(i)
       THEN Deliver(d, i, "call", Achieved(i), steps)
       ELSE UNCHANGED <<rstate, driver>>
    /\ UNCHANGED <<steps, cursor, results, waitingOn, revision, hooks,
                   resolving, world>>

\* resume_due_timer_workflows on this run.
TimerSweepVisits(d) ==
    /\ up /\ scan # Nobody /\ scan.of = "wait"
    /\ scan' = Nobody
    /\ Deliver(d, scan.step, "wait", TRUE, steps)
    /\ UNCHANGED <<steps, cursor, results, waitingOn, revision, hooks,
                   resolving, world>>

-----------------------------------------------------------------------------
(***************************************************************************)
(* Checkpoints: a request_replan step has parked the run.                  *)
(***************************************************************************)
AsSteps(add) == [i \in DOMAIN add |-> [kind |-> add[i].kind, add |-> <<>>]]

\* _store_replan_add_steps.
Stored(plan, i, add) == [plan EXCEPT ![i + 1].add = add]

\* _apply_workflow_replan.
Spliced(plan, i) ==
    SubSeq(plan, 1, i + 1) \o AsSteps(plan[i + 1].add)
        \o SubSeq(plan, i + 2, Len(plan))

Fits(plan, i) == Len(plan) + Len(plan[i + 1].add) <= MaxSteps

\* A command the plan has not, or one more risky step: a call is the risky
\* kind, and the only one with a counterparty.
Widens(plan, add) ==
    \E i \in DOMAIN add :
        \/ add[i].kind = "call"
        \/ \A j \in DOMAIN plan : plan[j].kind # add[i].kind

\* _auto_continue_replan: splice, then deliver, without looking at the state.
AutoContinue(d, i, plan) ==
    /\ Fits(plan, i)
    /\ steps' = Spliced(plan, i) /\ revision' = revision + 1
    /\ Deliver(d, i, "replan", TRUE, Spliced(plan, i))

\* The task of a checkpoint whose step proposes nothing asks the planner; it
\* gives up if the run has moved on.
ResolveStarts(t) ==
    /\ up /\ t \in resolving /\ ~t.planning
    /\ rstate = "waiting" => steps[t.step + 1].add = <<>>
    /\ resolving' = (resolving \ {t}) \cup
                       IF rstate = "waiting" THEN {[t EXCEPT !.planning = TRUE]}
                       ELSE {}
    /\ UNCHANGED <<row, driver, scan, hooks, world>>

\* The steps a task decides on: the planner's, or those the step came with.
Proposals(t) ==
    IF t.planning THEN Additions
    ELSE IF rstate = "waiting" THEN {steps[t.step + 1].add} \ {<<>>} ELSE {}

\* The proposal is stored (a failing store is swallowed); one that widens the
\* plan waits for a tap on a card (if the card is not taken, it waits all the
\* same), any other continues by itself.
ResolveDecides(d, t, add, stored, posted) ==
    LET plan == IF stored THEN Stored(steps, t.step, add) ELSE steps
    IN
    /\ up /\ t \in resolving /\ add \in Proposals(t)
    /\ Fits(Stored(steps, t.step, add), t.step)
    /\ resolving' = resolving \ {t}
    /\ IF stored THEN UNCHANGED faults
       ELSE faults < MaxFaults /\ faults' = faults + 1
    /\ IF Widens(steps, add)
       THEN /\ IF posted
               THEN /\ cards' = cards \cup {[rev |-> revision, add |-> add]}
                    /\ UNCHANGED refused
               ELSE refused' = refused \cup {"delta"} /\ UNCHANGED cards
            /\ steps' = plan
            /\ UNCHANGED <<rstate, revision, driver>>
       ELSE /\ posted /\ AutoContinue(d, t.step, plan)
            /\ UNCHANGED <<cards, refused>>
    /\ UNCHANGED <<cursor, results, waitingOn, scan, hooks, up, call, elapsed,
                   trail, achieved, told, crashes>>

\* Faulty: an exception leaves the run on its checkpoint.
ResolveRaisesParks(d, t) ==
    /\ up /\ t \in resolving /\ t.planning
    /\ resolving' = resolving \ {t}
    /\ UNCHANGED <<row, driver, scan, hooks, world>>

\* An exception anywhere in the task: it continues with whatever is stored.
\* The planner may raise at any time; before and after it only the database.
ResolveRaises(d, t) ==
    /\ up /\ t \in resolving
    /\ resolving' = resolving \ {t}
    /\ \/ t.planning /\ AutoContinue(d, t.step, steps) /\ UNCHANGED faults
       \/ /\ faults < MaxFaults /\ faults' = faults + 1
          /\ \/ AutoContinue(d, t.step, steps)
             \/ \E add \in Additions :
                   /\ t.planning
                   /\ AutoContinue(d, t.step, Stored(steps, t.step, add))
    /\ UNCHANGED <<cursor, results, waitingOn, scan, hooks, up, call, elapsed,
                   cards, trail, achieved, told, refused, crashes>>

\* Faulty: any card of the run will do.
TappableStale(c) == c \in cards /\ rstate = "waiting" /\ waitingOn = "replan"

\* The Approve tap on a delta card of the revision the run is at.
Tappable(c) ==
    /\ c \in cards
    /\ rstate = "waiting" /\ waitingOn = "replan" /\ c.rev = revision

ApproveReplan(d, c) ==
    /\ up /\ Tappable(c)
    /\ AutoContinue(d, cursor - 1, steps)
    /\ UNCHANGED <<cursor, results, waitingOn, scan, hooks, resolving, world>>

-----------------------------------------------------------------------------
(***************************************************************************)
(* Discard (plan card) and Stop (delta card) cancel a parked run, and then *)
(* decline its calls; transition() allows that from "draft" only.          *)
(***************************************************************************)
\* Faulty: the calls are left alone.
DeclinedNone == call

\* _decline_pending_workflow_calls.
Declined == [i \in Indices |-> IF call[i] = "draft" THEN "refused" ELSE call[i]]

CancelIn(cancellable, cleaned) ==
    /\ up /\ rstate \in cancellable
    /\ rstate' = "cancelled"
    /\ IF cleaned THEN call' = Declined /\ UNCHANGED faults
       ELSE faults < MaxFaults /\ faults' = faults + 1 /\ UNCHANGED call
    /\ UNCHANGED <<steps, cursor, results, waitingOn, revision, tasks, up,
                   elapsed, cards, trail, achieved, told, refused, crashes>>

Discard(cleaned) == CancelIn({"waiting"}, cleaned)

Stop(cleaned) == cards # {} /\ Discard(cleaned)

-----------------------------------------------------------------------------
(***************************************************************************)
(* Crashes and the startup recovery.                                       *)
(***************************************************************************)
LoseTasks ==
    /\ driver' = [d \in Drivers |-> Nobody]
    /\ scan' = Nobody /\ hooks' = {} /\ resolving' = {}

\* What the interrupted step of the loop had already done for good.
DoneNothing == UNCHANGED <<rstate, steps, revision, call, told>>
DoneReport(d) ==
    /\ In(d, "finish") \/ (In(d, "drive") /\ AtEnd(d))
    /\ told' = told + 1 /\ UNCHANGED <<rstate, steps, revision, call>>
DoneDraft(d) ==
    /\ In(d, "busy") /\ Kind(d) = "call"
    /\ call' = [call EXCEPT ![driver[d].at] = "draft"]
    /\ UNCHANGED <<rstate, steps, revision, told>>
DoneSplice(i) ==
    /\ Fits(steps, i)
    /\ steps' = Spliced(steps, i) /\ revision' = revision + 1
    /\ UNCHANGED <<rstate, call, told>>
DoneCancel ==
    /\ rstate = "waiting" /\ rstate' = "cancelled"
    /\ UNCHANGED <<steps, revision, call, told>>

Crash ==
    /\ up /\ crashes < MaxCrashes
    /\ up' = FALSE /\ crashes' = crashes + 1
    /\ LoseTasks
    /\ \/ DoneNothing \/ DoneCancel
       \/ \E c \in cards : Tappable(c) /\ DoneSplice(cursor - 1)
       \/ \E t \in resolving : t.planning /\ DoneSplice(t.step)
       \/ \E d \in Drivers : DoneReport(d) \/ DoneDraft(d)
    /\ UNCHANGED <<cursor, results, waitingOn, elapsed, cards, trail, achieved,
                   refused, faults>>

\* Faulty: drives the orphan on from its cursor instead.
RecoverDrivesOn(posted, saved) ==
    /\ ~up /\ posted /\ saved /\ up' = TRUE
    /\ \E d \in Drivers :
          driver' = IF rstate = "running"
                    THEN [driver EXCEPT ![d] = NewDriver(cursor, results, steps,
                                                         "drive", "start")]
                    ELSE driver
    /\ UNCHANGED <<row, scan, hooks, resolving, call, elapsed, cards, trail,
                   achieved, told, refused, crashes, faults>>

\* Faulty: says nothing.
RecoverSilently(posted, saved) ==
    /\ ~up /\ posted /\ saved /\ up' = TRUE
    /\ rstate' = IF rstate = "running" THEN "failed" ELSE rstate
    /\ UNCHANGED <<steps, cursor, results, waitingOn, revision, tasks, call,
                   elapsed, cards, trail, achieved, told, refused, crashes,
                   faults>>

\* recover_orphaned_running_workflows: the card, then the row, whatever became
\* of the card.  A failing commit is rolled back and not retried; a crash
\* between the two repeats it.
Recover(posted, saved) ==
    /\ ~up /\ up' = TRUE
    /\ IF rstate = "running"
       THEN /\ Posts("completion", posted)
            /\ IF saved
               THEN /\ rstate' = IF \E i \in DOMAIN results : results[i] # "failed"
                                 THEN "partial" ELSE "failed"
                    /\ UNCHANGED faults
               ELSE /\ faults < MaxFaults /\ faults' = faults + 1
                    /\ UNCHANGED rstate
       ELSE posted /\ saved /\ UNCHANGED <<rstate, told, refused, faults>>
    /\ UNCHANGED <<steps, cursor, results, waitingOn, revision, tasks, call,
                   elapsed, cards, trail, achieved, crashes>>

CrashInRecovery ==
    /\ ~up /\ rstate = "running" /\ crashes < MaxCrashes
    /\ crashes' = crashes + 1 /\ told' \in {told, told + 1}
    /\ UNCHANGED <<row, tasks, up, call, elapsed, cards, trail, achieved, refused,
                   faults>>

-----------------------------------------------------------------------------
(***************************************************************************)
(* The environment: the linked calls (module PhoneCall) and time.          *)
(***************************************************************************)
CallMoves(i) ==
    /\ up
    /\ \E s \in CallStates :
          /\ <<call[i], s>> \in CallSteps
          /\ call' = [call EXCEPT ![i] = s]
          /\ achieved' = IF s = "achieved" THEN achieved \cup {i} ELSE achieved
    /\ UNCHANGED <<row, tasks, up, elapsed, cards, trail, told, refused, crashes,
                   faults>>

TimePasses ==
    /\ rstate = "waiting" /\ waitingOn \in {"call", "wait"}
    /\ cursor - 1 \notin elapsed
    /\ elapsed' = elapsed \cup {cursor - 1}
    /\ UNCHANGED <<row, tasks, up, call, cards, trail, achieved, told, refused,
                   crashes, faults>>

-----------------------------------------------------------------------------
Next ==
    \/ \E d \in Drivers :
          \/ SkipStep(d) \/ DispatchStep(d)
          \/ \E ok \in BOOLEAN : StepReturns(d, ok)
          \/ \E saved \in BOOLEAN : SuspendStep(d, saved)
          \/ \E raised, posted, saved \in BOOLEAN : Finish(d, raised, posted, saved)
          \/ \E h \in hooks : HookRuns(d, h)
          \/ PhoneSweepVisits(d) \/ TimerSweepVisits(d)
          \/ \E t \in resolving :
                \/ ResolveRaises(d, t)
                \/ \E add \in Proposals(t), stored, posted \in BOOLEAN :
                      ResolveDecides(d, t, add, stored, posted)
          \/ \E c \in cards : ApproveReplan(d, c)
    \/ \E i \in Indices : CallReports(i) \/ CallMoves(i)
    \/ \E of \in {"call", "wait"} : SweepLists(of)
    \/ \E t \in resolving : ResolveStarts(t)
    \/ \E cleaned \in BOOLEAN : Discard(cleaned) \/ Stop(cleaned)
    \/ Crash \/ CrashInRecovery
    \/ \E posted, saved \in BOOLEAN : Recover(posted, saved)
    \/ TimePasses

Spec == Init /\ [][Next]_vars

(***************************************************************************)
(* Fairness: tasks of the loop run, the sweeps are periodic, the process   *)
(* is restarted and recovers, deadlines and wake instants come.  Nothing   *)
(* is assumed of the calls, of the users, of the notification service or   *)
(* of the order of tasks.                                                  *)
(***************************************************************************)
Drives(d) ==
    \/ SkipStep(d) \/ DispatchStep(d)
    \/ \E ok \in BOOLEAN : StepReturns(d, ok)
    \/ SuspendStep(d, TRUE)
    \/ \E posted \in BOOLEAN : Finish(d, FALSE, posted, TRUE)

Resolves ==
    \E t \in resolving :
        \/ ResolveStarts(t)
        \/ \E d \in Drivers, add \in Proposals(t), posted \in BOOLEAN :
              ResolveDecides(d, t, add, TRUE, posted)

Fairness ==
    /\ \A d \in Drivers : WF_vars(Drives(d))
    /\ WF_vars(Resolves)
    /\ WF_vars(\E d \in Drivers : PhoneSweepVisits(d))
    /\ WF_vars(\E d \in Drivers : TimerSweepVisits(d))
    /\ \A of \in {"call", "wait"} : SF_vars(SweepLists(of))
    /\ WF_vars(TimePasses)
    /\ WF_vars(\E posted \in BOOLEAN : Recover(posted, TRUE))

FairSpec == Spec /\ Fairness

-----------------------------------------------------------------------------
(***************************************************************************)
(* Properties.                                                             *)
(***************************************************************************)
Busy == {d \in Drivers : driver[d] # Nobody}

\* The hook, the sweeps, the taps and a detached task never drive the run
\* together, and a run somebody drives says so in its row.
OneDriver ==
    /\ Cardinality(Busy) <= 1
    /\ Busy # {} => rstate = "running"

\* No step is dispatched twice or out of order, through any sequence of
\* suspensions, late or repeated signals, replans, crashes and recoveries.
StepAtMostOnce ==
    \A j, k \in DOMAIN trail : j < k => trail[j] < trail[k]

\* A run is only ever resumed by the kind of signal it waited on: no late
\* call outcome or stale scan ends a timer wait or approves a checkpoint.
SignalMatchesWait ==
    \A d \in Busy : driver[d].signal \in {"start", waitingOn}

\* "chain the next call ONLY on an EXPLICIT success": no step is dispatched
\* after a call that was never recorded as having achieved its goal.
ChainOnlyOnSuccess ==
    \A k \in DOMAIN trail :
        k < Len(trail) /\ steps[trail[k] + 1].kind = "call"
            => trail[k] \in achieved

\* A run that was reported done, partial or failed, or cancelled, is never
\* given another verdict or revived.
EndIsFinal == [][(rstate \in Ended) => (rstate' = rstate)]_vars

\* A run is never closed without a word, whatever crashed: its completion card
\* is with the household, or the notification service did not take one (the
\* row is closed all the same: NeverWithoutCard below).
NeverVanishes ==
    rstate \in {"done", "partial", "failed"}
        => told > 0 \/ "completion" \in refused

\* Cancelling leaves no plan card that could still be confirmed (its cleanup
\* is best-effort: it does not survive a crash or a database error).
CancelledHasNoDraft ==
    rstate = "cancelled" /\ crashes = 0 /\ faults = 0
        => \A i \in Indices : call[i] # "draft"

\* Approving a delta card splices the very steps that card showed, right
\* after the checkpoint (as long as the database stored them).
ApproveAppliesShown ==
    [][\A d \in Drivers, c \in cards :
          faults = 0 /\ ApproveReplan(d, c) =>
              /\ Len(steps') = Len(steps) + Len(c.add)
              /\ SubSeq(steps', cursor + 1, cursor + Len(c.add)) = AsSteps(c.add)
      ]_vars

\* The run moves only as the plan it belongs to reckons with: module
\* ErrandPlan lets its run take these steps and no other.
linked == IF rstate \in Ended \ {"cancelled"} THEN "over" ELSE rstate

LinkedStep == <<linked, linked'>> \in LinkedSteps

RunAsAssumed == [][LinkedStep]_linked

\* The run implements the promise of module DurableRun.
runPhase ==
    IF \E d \in Busy : driver[d].phase # "finish" THEN "active"
    ELSE IF rstate = "waiting" THEN "parked" ELSE "over"

Durable == INSTANCE DurableRun WITH Steps <- Indices, phase <- runPhase

ImplementsDurableRun == Durable!Spec

(***************************************************************************)
(* The inductive invariant behind these (proved in WorkflowRun_proofs):    *)
(* whoever holds the run, a driver, a wait or the task of a checkpoint,    *)
(* stands exactly at the last dispatched step, and holds it alone.         *)
(***************************************************************************)
Last(i) == trail # <<>> /\ trail[Len(trail)] = i
Dispatched(i, kind) ==
    /\ \E k \in DOMAIN trail : trail[k] = i
    /\ steps[i + 1].kind = kind

NoLiveCard == \A c \in cards : c.rev < revision

ChainHolds ==
    \A k \in DOMAIN trail :
        steps[trail[k] + 1].kind = "call" => trail[k] \in achieved

HoldsRun(d) ==
    /\ \A e \in Drivers : driver[e] # Nobody => e = d
    /\ up /\ rstate = "running"
    /\ driver[d].steps = steps /\ driver[d].at <= Len(steps)
    /\ driver[d].signal \in {"start", waitingOn}
    /\ resolving = {} /\ NoLiveCard
    /\ driver[d].phase = "drive" =>
          (\A k \in DOMAIN trail : trail[k] < driver[d].at) /\ ChainHolds
    /\ driver[d].phase = "busy" =>
          driver[d].at < Len(steps) /\ Last(driver[d].at)

DriverInv == \A d \in Drivers : driver[d] # Nobody => HoldsRun(d)

WaitInv ==
    rstate = "waiting" =>
        /\ cursor \in 1 .. Len(steps) /\ Last(cursor - 1)
        /\ waitingOn = steps[cursor].kind
        /\ waitingOn # "replan" => NoLiveCard

ResolvingInv ==
    \A t \in resolving :
        /\ resolving = {t} /\ NoLiveCard
        /\ Last(t.step) /\ steps[t.step + 1].kind = "replan"
        /\ rstate = "waiting" => cursor = t.step + 1

SignalInv ==
    /\ \A i \in Indices : call[i] # "none" => Dispatched(i, "call")
    /\ \A i \in Indices : call[i] = "achieved" => i \in achieved
    /\ \A h \in hooks : /\ Dispatched(h.step, "call")
                        /\ h.ok => h.step \in achieved
    /\ scan # Nobody /\ scan.of = "wait" => Dispatched(scan.step, "wait")

TrailInv ==
    /\ StepAtMostOnce
    /\ \A k \in DOMAIN trail : trail[k] < Len(steps)
    /\ ChainOnlyOnSuccess
    /\ \A c \in cards : c.rev <= revision

Inductive == DriverInv /\ WaitInv /\ ResolvingInv /\ SignalInv /\ TrailInv

\* The card that can be tapped shows what the row has stored.
CardInv ==
    faults = 0 /\ rstate = "waiting" =>
        \A c \in cards : c.rev = revision => steps[cursor].add = c.add

\* A run at work, or waiting, has reported nothing yet; each crash may repeat
\* the report once.
ReportInv ==
    /\ Busy # {} \/ rstate = "waiting" => told = 0 /\ "completion" \notin refused
    /\ told <= crashes + (IF up THEN 1 ELSE 0)

Accounted == NeverVanishes /\ CancelledHasNoDraft /\ CardInv /\ ReportInv

\* A run comes to its end or to a question for the household, even if its
\* call never finishes and the process restarts.
RunSettles ==
    (rstate \in {"running", "waiting"})
        ~> (rstate \in Ended \/ (rstate = "waiting" /\ waitingOn = "replan"))

\* A checkpoint is decided or put to the household, unless a crash loses the
\* detached task that resolves it or the notification service its card.
CheckpointDecided ==
    (rstate = "waiting" /\ waitingOn = "replan" /\ crashes = 0)
        ~> \/ rstate # "waiting" \/ crashes > 0 \/ "delta" \in refused
           \/ \E c \in cards : Tappable(c)

\* What the sources say and the code does not do (see README, findings).
\* "genuinely cancelled AND its pending call declined so it never dials".
CancelledNeverDials ==
    [][rstate = "cancelled" =>
          \A i \in Indices : call'[i] = "live" => call[i] \in LateCall]_vars

\* "on completion posts exactly one card".
OneCompletionCard == told <= 1

\* "reports an honest failure and lands the run terminal rather than vanishing".
NeverWithoutCard == rstate \in {"done", "partial", "failed"} => told > 0

\* "a stuck 'running' is recovered->'waiting' by the sweep, then cancellable".
StuckRunRecovered ==
    (up /\ rstate = "running" /\ Busy = {}) ~> (~up \/ rstate # "running")

\* "a widening change must pause for a one-tap human confirm".
WideningNeedsTap ==
    [][\A t \in resolving :
          LET added == SubSeq(steps', t.step + 2,
                              t.step + 1 + Len(steps') - Len(steps)) IN
          resolving' = resolving \ {t} => ~Widens(steps, added)]_vars

\* "the card, the Approve tap, and the auto-continue path all splice the SAME
\* steps".
CardShowsWhatIsSpliced ==
    \A c \in cards : Tappable(c) => steps[cursor].add = c.add
=============================================================================
