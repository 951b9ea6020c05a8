# A TLA+ model of jarvis-command-center

The command center (CC) is the hub of a voice assistant: a FastAPI process over
PostgreSQL, Redis and MQTT that turns utterances into tool calls, places phone
calls through a telephony gateway, runs multi-step errands, and tells the
household about all of it on inbox cards.  Most of its 70,000 lines are request
handling, prompts and storage.  What is hard to get right, and what these
modules model, is the part where several actors write the same row over a long
time (taps, sweeps, gateway events, background tasks and restarts), the routes by
which a notification reaches somebody, and the loop in which a model's replies
and a dozen guards edit one shared transcript.

Contents: 1 the system, 2 the modules, 3 the runs, 4 fairness, 5 the proofs,
6 where the code and its own words differ, 7 what is not modelled, 8 the plan.

## 1. The system

Everything in CC runs in one process, in two ways.  `async` code (background
tasks, sweeps, callback handlers) shares **one event loop**: it is interrupted
only at an `await`.  Synchronous endpoints run on **threadpool threads**: two of
them, or one and the loop, interleave between any two statements, and a commit
of the ORM is an UPDATE by primary key of the columns that changed, whatever
the row has become since it was read.  A restart loses every task and keeps
every committed row.

| Component | State | Operations | Interacts with |
|---|---|---|---|
| Phone calls (`services/phone_call_service.py`, `api/phone_sessions.py`) | `phone_call_sessions` rows, the Redis dial queue | plan, confirm, cancel, claim, events, reaper | gateway workers (events), errand runs (linked calls) |
| Durable workflow engine and errand runs (`services/workflow_engine.py`, `errand_executor.py`, `errand_service.py`) | `workflows` rows, detached tasks | drive, suspend, signal, two sweeps, startup recovery, checkpoints, Discard and Stop | calls (a step drafts one and waits for it), the inbox |
| Errand plans (`services/errand_service.py`) | `errand_plans` rows, the plan card | draft, Run, Revise (two kinds), Discard | planner (LLM), errand runs |
| Scheduled errands (`services/schedule_service.py`) | `schedules` rows | create, list, claim, re-arm, cancel | errand plans |
| Callback jobs, proposable actions (`api/callbacks.py`, `services/proposable_action_service.py`, `services/node_command_service.py`) | `callback_jobs` rows, `_pending_commands` | tap, execute, verify, result, expiry on read | every card button; nodes over MQTT |
| Node updates (`api/node_updates.py`, heartbeat of `admin.py`, sweeper of `main.py`) | `node_tasks` rows | queue, dispatch on heartbeat, reconcile, report, cancel, sweep | nodes |
| Adapter training (`services/adapter_scheduler.py`, `training_orchestrator.py`, `adapter_registry.py`, `adapter_proposal_service.py`, `api/adapters.py`) | `adapter_*` rows | tick (one transaction), apply, dismiss, revert | the training service, the inbox |
| Attention broker (`services/attention_broker.py`, `api/node_commands.py`, `api/attention.py`) | `attention_*` rows | the gates, their record, the delivery | every producer of notifications; the notification service |
| Routines, signals, signal automations | JSON on `routines`, `signals` | schedulers and upserts | nodes |
| Conversation handling and tool execution (`core/conversation_handler.py`, `core/tool_execution_engine.py`, `core/conversation_cache.py`) | the cached transcript, the calls issued lately, the cached router decision | one LLM loop per utterance or set of tool results | LLM proxy, server tools, nodes |

What makes each of the modelled components correct, and what makes it hard:

* **Phone calls** must be placed at most once, only after a tap, never after a
  refusal, and must end.  Hard: a job may be delivered twice or never; events
  of the gateway are judged on a thread by a row the reaper may be failing at
  that moment; the confirm tap blocks in Redis while a worker already dials.
* **Errand runs** must run every step at most once and in order, be driven by
  one task, chain only on an achieved goal, and tell the household how they
  ended.  Hard: the hook of a finished call and two sweeps wake the same run; a
  crash may fall between a side effect and the commit that records it; a
  checkpoint changes the plan while the run is parked, with or without a tap; a
  card is best-effort, and the row is committed whether it was taken or not.
* **Errand plans** must be run once, as shown.  Hard: every old version of a
  card still has live buttons, and a revise holds the row across an LLM call.
* **Schedules** must fire each occurrence once and not before its time.  Hard:
  a sweep lists rows with one reading of the clock and claims them much later,
  and has moved the schedule on before it knows whether a plan can be shown.
* **Conversations** must not turn an answer the model gave into silence, must
  steer the model only for the one reply the steering was written for, and must
  put a sound prompt to it every time.  Hard: the transcript is a live list that
  guards pop from, append to and scrub, across iterations, failures and
  requests; the node's results come late, twice or never; what one guard takes
  back another must give back.
* **Taps** on a card must end in an answer, must say "done" only of what a node
  did, and must not be carried out again once done.  Hard: the row of the tap
  and the row of the node are two rows; a request expires or completes the one
  it loaded before the other was written; a node is slow, repeats itself or
  stays silent; a restart forgets the handler and not the node.
* **Node updates** must end, and end well only when the node runs what was asked
  for.  Hard: cancel, reconcile, dispatch and the sweeper each load a task and
  write it later by primary key, over whatever the others have made of it.
* **Adapters** that are live must have passed and been approved, and a household
  must have one proposal to decide.  Hard: a tick is a transaction of hours,
  nothing of which is seen before it commits; taps decide on rows loaded before.
* **Attention** must not silence an alarm or lose a notice, and must keep to the
  budgets of a day.  Hard: one endpoint judges on a thread while the others
  record; a decision is recorded before it is delivered; the broker may raise,
  and the notification service refuse.

## 2. The modules

| Module | Models | Written against |
|---|---|---|
| `CallPromise` | what a call session promises: idle, asked, authorised, placed, over | abstract |
| `PhoneCall` | one or more sessions with all their writers | `phone_call_service.py`, `phone_sessions.py` |
| `PhoneCall_proofs` | theorems about `PhoneCall` | |
| `LinkedCall` | the steps of a session as an errand run sees them | environment of `WorkflowRun`; `PhoneCall` is checked against it |
| `DurableRun` | what a run promises: steps dispatched in order, once, while active | abstract |
| `WorkflowRun` | one durable run with its drivers, sweeps, checkpoints, crashes | `workflow_engine.py`, `errand_executor.py`, `errand_service.py` |
| `WorkflowRun_proofs` | theorems about `WorkflowRun` | |
| `LinkedRun` | the steps of a run as its plan sees them | environment of `ErrandPlan`; `WorkflowRun` is proved to take no others |
| `ErrandPlan` | one plan and every version of its card | `errand_service.py`, `run_errand_tool.py` |
| `Schedule` | one scheduled errand and its sweeps | `schedule_service.py` |
| `Errands_proofs` | theorems about `ErrandPlan` and about `Schedule` | |
| `ToolLoop` | one conversation: its requests, the loop of replies, its transcript | `tool_execution_engine.py`, `conversation_handler.py`, `conversation_cache.py` |
| `ToolLoop_proofs` | theorems about `ToolLoop` | |
| `ProposedAction`, `ProposedAction_proofs` | taps on one proposal or on commands of a node, both rows, the node | `callbacks.py`, `proposable_action_service.py`, `node_command_service.py` |
| `NodeUpdate`, `NodeUpdate_proofs` | the update tasks of one node | `node_updates.py`, `admin.py`, `main.py` |
| `AdapterTraining`, `AdapterTraining_proofs` | the adapters of one household | `adapter_*.py`, `training_orchestrator.py` |
| `Attention`, `Attention_proofs` | the notices of one household | `attention_broker.py`, `node_commands.py`, `attention.py` |
| `MC*` | the small instances TLC checks | |

How state and actions correspond to the code:

* **PhoneCall.**  `state`, `age`, `confirmedBy`, `worker`, `outcome` are columns
  of the row (`age` stands for `heartbeat_at`, `expires_at` and the time limit).
  An action of the loop is what runs between two awaits: `Confirm` commits
  `confirmed` and leaves the handler in the blocking `enqueue_dial` (`tap`),
  which ends in `EnqueueReturns` or `EnqueueRaises`.  An event endpoint is two
  actions, `Receive` (reads the row) and `Apply` (commits the decision).  The
  reaper pass is `ReapStart`, one `ReapVisit` per row, `ReapFinish`.  A job in
  `queue` is not removed by a claim, so redelivery needs no action.
* **WorkflowRun.**  `rstate`, `steps`, `cursor`, `results`, `waitingOn`,
  `revision` are the row.  A driver is a task inside `_drive_run`; it holds its
  own copy of the plan and results, as the code does, in `driver[d]`.  A step is
  `DispatchStep` followed by `StepReturns` or `SuspendStep`; `Finish` posts the
  card and then saves.  Every card is best-effort, as the code's is: whether it
  was taken is a Boolean argument (`posted`) of `Finish`, `Recover` and
  `ResolveDecides`, and the code goes on alike.  `told` counts the completion
  cards that were taken; `refused` is a history of the kinds that were not.
  Every wakeup source (`HookRuns`, `PhoneSweepVisits`, `TimerSweepVisits`,
  `ApproveReplan`, the detached auto-continue) goes through `Deliver`, which is
  `deliver_signal`'s load and claim.  A sweep is `SweepLists` and a later visit,
  with what it listed in between.  A failing commit the code swallows is a
  Boolean argument (`saved`, `stored`, `cleaned`) bounded by `MaxFaults`.
  `Crash` may have done the durable half of the step it interrupts
  (`DoneReport`, `DoneDraft`, ...).
* **ErrandPlan.**  Run and Discard do not await: one action each.  A revise is
  `Revise` (the guards) and `Revised` (the write), with the revision it read in
  `task`.  `seen` keeps every version of the card some screen may still show.
* **Schedule.**  A sweep is `List` (reads the clock), `Claim` (the conditional
  UPDATE) and `Drafted` (the awaited planner, and then a plan card or a failure
  card, which may be refused).  `put`, `refused` and `dropped` are histories of
  what became of an occurrence: shown, not taken, lost in a crash.
* **ToolLoop.**  `messages` is the cached list, each message represented by its
  kind (which steering tag, who wrote it), because only kinds decide what is
  scrubbed, counted, popped or trimmed.  `pass` holds the local variables of
  `execute` (iteration, `popped_prose`, `double_checked`, `dedupe_nudged_keys`),
  lost when it returns.  A request is `Say`, `Continue` or `Ignored`, cut at
  each call of the model; every reply is an action: `Prose`, `NotForMe`, server
  tools, a client call that is sent, nudged or refused, native calls of which
  none has a name (`NamelessCalls`: nothing is left to act on, and the loop asks
  again), a failing call.  What the heuristics decide (is it shaped like a
  question, does the reply claim an action) is an argument.  `recent` is the
  record of issued calls, and `WindowPasses` stands for the clock of the dedupe
  window.  A text provider's formatting call is the phase `format`.
* **ProposedAction.**  `tapRow` and `nodeRow` are the status columns of the two
  planes, `overdue` their `expires_at`, `issued` the commands not yet verified.
  `late` and `blind` are histories: the taps made after one had completed, and
  those whose look for a completed row (`AlreadyCompleted`) failed open or had no
  key to look by.
  The handler on the loop is `task`, cut where it waits for the node
  (`Dispatches`, `Hears`, `GivesUp`); the endpoints on threads keep what they
  loaded (`polling`, `posting`) and write it later (`PollAnswers`, `PostWrites`).
  The node is outside: `Verified`, `Fetches`, `Runs`, `PostLoads` may come late,
  again (a redelivery finds no entry in `issued`) or never.
* **NodeUpdate.**  Every endpoint is a load into `request[h]` and a write by
  primary key, `Commits`; only `Fails`, the node's report, is conditional.  A
  heartbeat is `Beats`, `Reconciles`, (`Commits`), `Picks`, (`Commits`); one
  without a version goes straight to `Picks`.  The
  sweeper is `Sweeps` and `EndsStale`.
* **AdapterTraining.**  A tick is one transaction: its writes are in `tick`, take
  their row locks at `Writes` and are seen at `TickCommits`; `TickFails`,
  `Raises` and `Crash` undo them.  A request is `Loads`, `Decides`, `Flushes`
  (waits for locked rows) and `Commits`, or, for a revert, `Reverts` (the active
  row), `Finds` (the newest history row), `Restores` (the active row again), and
  then the same.  History rows are ordered by the time `deploy` stamped, not by
  their commit; so of two overlapping deployments either may count as the newest
  (`replaced'` in `Deploys`).  Three that overlap and lead back to one adapter
  are not told apart.
* **Attention.**  `Rung(r, quiet)` is the gates of `record_and_route` in their
  order.  Every request is `Judges` (the gates), then `Records` (its commit), so
  that others may commit in between; `Admitted` lets one coroutine at a time and
  `Workers` threads do so.  `Posts` and `PostFails` are the delivery, and what the
  caller is told: "refused" is an answer `sent=False`, which `/attention/events`
  never gives.  Whether the push after a card arrives is logged and told to
  nobody.  `today` and `window` are the rows the counts and the dedup look at.

`LinkedCall` and `LinkedRun` are how the modules compose.  `WorkflowRun` lets a
linked call take any step of `CallSteps` at any time; the run `phone_one_call`
checks and `LinkedAsAssumedHolds` proves that `PhoneCall` takes no others.
`ErrandPlan` lets its run take any step of `LinkedSteps`, and cancels it by taps
only while it is parked; `RunAsAssumedHolds` proves that `WorkflowRun` takes no
other step than these.  In the refinement mapping of
`PhoneCall` a session that a second worker dials is in the phase `placed again`,
which the promise does not have, so reaching it refutes the refinement.

Definitions marked "Faulty:" are plausible bugs, one for each checked property
(PROJECT.json, `mutants`): substituted for the definition they precede, they
make TLC find that property violated.  They show that the property can fail.

## 3. The runs

| Run | Instance | States | Shows |
|---|---|---|---|
| `phone_one_call` | 1 session, 2 workers, 2 threads, every event kind, job loss, 1 crash | 2.25M | an active call has its owner; refines `CallPromise` (placed at most once, only after a tap, never after a refusal); keeps `LinkedCall` |
| `phone_live` | 1 session, fairness | 20k | no call stays active, no draft stays open |
| `run_calls` | call, wait, call; two checkpoints, proposals empty, in the envelope or widening; a checkpoint with baked steps; 2 drivers, 2 crashes, 1 fault | 1.87M | one driver, steps once and in order, right signal, no chaining on an unachieved call, no end without a card unless the card was refused, no draft left by a cancellation, an Approve tap splices what its card showed, refinement of `DurableRun` |
| `run_settles` | call, wait, checkpoint; 1 crash, fairness | 165k | every run ends or asks; every checkpoint goes on or gets a card, or the card was refused |
| `plan_revises` | 3 contents, 2 concurrent revises, 4 revisions, 1 crash, 1 lost card | 466k | run at most once; a cancelled plan has stopped its run; the card shows the row |
| `schedule_fires` | 2 sweeps, interval schedule, 1 crash, fairness | 24k | each occurrence once, not early, not after a cancellation; due ones fire, and are put to the household, refused, or lost in a crash |
| `loop_holds` | 3 requests, 1 client call, 2 (native) or 3 (text) iterations, a history of 1 turn | 3.5M | steering serves one reply of the loop; the prompt is sound through scrubs, pops and trims; an answer is not silenced (native) |
| `taps` | 2 taps, each on the proposal or on a command of the node; 1 crash, fairness | 259k | "done" means a node did it; a tap after that runs nothing, if its look succeeds; a command runs once; the poll of the app ends |
| `trains` | 2 trainings, ticks that propose or deploy, 2 requests, 1 restart or failed tick, fairness | 1.36M | one proposal to decide; what is live passed and was approved; trainings run to their end again and again |
| `routes` | 5 notices by every endpoint, a forced alarm and a reminder of its title, budgets of 1, 1 thread, refused deliveries, 1 midnight, 1 crash | 3.22M | alarms are not silenced; pushes keep to the budget; what is not told to be unsent is posted or on record |
| `updates` | 2 tasks, 2 versions, 2 requests at a time, fairness | 358k | a task ends well only for a version the node has run; every task ends |
| `plan_twice` | the smallest instance that shows it | | a disagreement, section 6 |

**Why the bounds are enough.**  Two workers, threads, sweeps or drivers give
every pairwise race; the code has no counter or rule about a third.  In
`run_settles` one driver slot suffices because `OneDriver` is proved: a second
one could never be taken.  Plans of three steps contain each pair of adjacent
kinds that differ in code (a call before anything, a wait between calls, a
checkpoint after a checkpoint); the theorems of section 5 are for every plan.
One crash reaches every interrupted step; two reach a crash in the recovery.
One fault reaches every swallowed commit.  `MaxRevision = 4` lets two revises
collide and a third follow.  `Horizon = 6` with `Period = 2` has three
occurrences, one missed.  In `loop_holds` three requests are what it takes for a
trim to drop a turn and for the request after it to be put to the model; one
client call is issued, repeated and nudged (what a second one would add is only
a choice of which); the code's three iterations of a text provider leave room
for both nags a request may spend and the reply after them, and its ten with
native tools are cut to two: an answer taken back and the reply to that.  A
server tool in between takes a third iteration; with native tools that order is
covered by the theorem `AnswerNotSilencedHolds`, which is for every number of
them, and not by the run.  In `taps` two taps are a double tap, a tap after
another, or one of each plane.  In `trains` a second training is what a proposal
is superseded by and a revert goes back from; two requests race each other and
the tick.  In `routes` five notices exceed every budget of one, and one thread
beside the loop is one late commit (the theorem is for every number).  In
`updates` two tasks are an old one written over a new one.  `CHECK_DEADLOCK
FALSE`: all of these objects come to rest.

`phone_one_call` has one session, so the caps count only it; the competition of
sessions for the caps is not checked (section 6 says why it cannot hold).

## 4. Fairness

* **PhoneCall**: the reaper loop (`main.py`, every 20 s), threads and the
  blocked tap finish (Redis has a socket timeout), a waiting job is popped
  unless lost, and time passes.  Nothing is assumed of users or gateway events:
  a worker may go silent at any point.
* **WorkflowRun**: tasks of the loop run on, both sweeps are periodic, the
  process comes back and recovers, deadlines pass.  Strong fairness is used
  only for `SweepLists`: one list variable stands for both sweeps, which in the
  code take turns in one loop, so neither can be shut out by the other.
  Nothing is assumed of calls, taps, the planner's answer or the notification
  service.
* **Schedule**: the sweep goes on and the clock moves.  Nothing is assumed of the
  planner's answer or the notification service.
* **ProposedAction**: the app polls on, its requests end, and time passes.
  Nothing is assumed of the handler, which a restart loses, or of the node:
  expiry on read is what ends the poll.
* **AdapterTraining**: the loop ticks on, every training ends
  (`enqueue_timeout_seconds`), requests run to their end.  Strong fairness is on
  `Writes` alone: row locks are granted in turn, so a tick is not passed over by
  request after request.  `TrainingGoesOn` has a premise: again and again there
  are enough new examples while no cooldown runs.  Without it a household that
  says nothing more is not trained for.
* **NodeUpdate**: time passes, the sweeper's loop runs on, handlers run to their
  end.  Restarts are not bounded there, so `EndsStale` has strong fairness: the
  process is not always killed between the sweeper's load and its commit.
  Nothing is assumed of the node, which may never be heard of again.
* **ErrandPlan, ToolLoop, Attention**: safety only; what a household or a model
  does next is not theirs to assume.

## 5. The proofs

Machine-checked for every value of the constants (any plan, additions, number of
drivers or sweeps, crashes and faults), from the named assumptions of the
modules only: the constants are well typed and the null values are distinct.

* `RunInvariant`, `OneDriverHolds`, `StepAtMostOnceHolds`,
  `SignalMatchesWaitHolds`, `ChainOnlyOnSuccessHolds`, `EndIsFinalHolds` and
  `RunIsDurable` (refinement of `DurableRun`), all in `WorkflowRun_proofs`.
  None of these properties is inductive: that no step is dispatched twice
  depends on where the cursor may point when a driver is created, that on what
  the row said when it was parked, and that on what an auto-continue splices in
  between.  `Inductive` is the strengthening: *whoever holds the run (a driver,
  a wait, or the task of a checkpoint) stands exactly at the last dispatched
  step, and holds it alone.*  Its conjuncts are `DriverInv` (a driver excludes
  other drivers, resolving tasks and live cards, and has the row's plan),
  `WaitInv` (a parked run's cursor is just past the last dispatched step, whose
  kind it waits on), `ResolvingInv` (a checkpoint task is the only one and at the
  last step), `SignalInv` (calls, hooks and scans name dispatched steps of their
  kind, and a good hook an achieved call) and `TrailInv`.  The delicate case is
  `AutoContinue`, which splices without looking at the state: it is safe because
  the splice starts after the last dispatched step, so no dispatched index
  changes its meaning, even when the run was cancelled meanwhile.
* `NeverVanishesHolds`, `CancelledHasNoDraftHolds`, `ApproveAppliesShownHolds`,
  `RunAsAssumedHolds`, also of runs.  The first two need a second layer over
  `Inductive`, called `Accounted`: a run at work or waiting has reported nothing
  yet (no card of its end went out or was refused), every crash can repeat the
  report once (`ReportInv`), and while no commit
  was lost a live card shows what the checkpoint stores (`CardInv`).  Two of the
  contradictions of section 6 are bounded by it: `OneCardButForCrashes` (at most
  one card more than crashes, so `OneCompletionCard` without them) and
  `CardShowsUnlessFaulty` (`CardShowsWhatIsSpliced` needs a lost commit to fail).
* `PlanInvariant`, `LaunchedOnceHolds`, `CancelledPlanStopsHolds`,
  `ShownIsCurrentHolds` in `Errands_proofs`, for any number of taps, revises,
  revisions, crashes and lost cards.  `PlanInv` says that a plan has a run and a
  launch from its Run tap on and not before; a cancelled run has no step left in
  `LinkedSteps`, which is why a cancelled plan stays stopped.
  `OneReviseRunsWhatWasTapped` is the other side of the finding `plan_twice`:
  with one revise at a time a Run tap always runs the card that was tapped, by
  `CardsInv` (no card is ahead of the row, and the card of the row's revision
  shows the row).  Two concurrent revises are necessary as well as sufficient.
* `OncePerOccurrenceHolds`, `NeverEarlyHolds`, `CancelIsFinalHolds`,
  `NoneForgottenHolds` in `Errands_proofs`, for all three recurrences.  The last is
  the safety side of `FiredIsPut`: a claimed occurrence is in the hands of a
  sweep until it is put, refused or lost in a crash, and of the three only the
  first is what the household wants (section 6).  The invariant says that what
  was claimed lies before `next_fire_at` (strictly while the row is active), and
  that a sweep's clock reading is not in the future; "strictly after the
  instant" in `compute_next_fire` is what makes it inductive.
* `AnswerNotSilencedHolds` in `ToolLoop_proofs`, for any number of calls,
  iterations, requests, retries and turns.  The invariant `Kept` says what silence
  is decided by: a request whose model has answered has that answer kept by the
  guard that took it back (`answered => popped`), and with native tools there is
  no formatting call.
* `TypeCorrect`, `SteeringIsOneShotHolds` and `PromptIsSoundHolds`, also in
  `ToolLoop_proofs`, for transcripts of any length.  The invariant is
  `TranscriptInv`: the prompt stays in front, an utterance stays while anything
  is to be answered, and whoever was nudged knows it (so the next reply scrubs
  the nudge).  `SteeringIsOneShot` is about the calls of the model that
  `execute` makes after its scrub; the formatting of the node's results is not
  one of them (`SteeringNeverStale` in section 6).  `PromptIsSound` has nameless
  calls for its one exception (`NothingUnanswered`).  It rests on one lemma per
  operation on a transcript.  `WithoutPlaces` is the one that needs induction:
  what a scrub keeps is placed, in order, in what it was given, and nothing else
  is dropped; from that follow first and last message, membership and the counts
  of nags (by an injection). `FromTheEnd` is what makes the CHOOSE of a trim
  defined: counted from its end, a finite set of numbers has an h-th element.
  The induction theorems of the library take an operator, which the installed
  provers cannot instantiate, so both are proved by the least counterexample
  (`LeastNat`, from the well-foundedness of <), and `Without` is a recursive
  function whose existence is proved too (`KeepsExists`).

* `ActiveHasOwnerHolds`, `PromiseKept` (refinement of `CallPromise`),
  `LinkedAsAssumedHolds` and the type invariant in `PhoneCall_proofs`, for any
  number of sessions, workers, threads and crashes.  The invariant says who may
  be dialing (`OwnerInv`), which states that allows (`PlacedInv`), and what is
  still true of rows the loop, the threads and the reaper read earlier
  (`HeldInv`): a late event is of a call that was placed, so it can change how
  the call ended and never place it again.
* `CommandRunsOnceHolds`, `ToldDoneWasDoneHolds`, `TapAfterDoneHolds` in
  `ProposedAction_proofs`, for any number of taps and restarts.  `IssuedIsFresh`
  says that a command which may be verified has not run; `DoneInv` and `LateInv`
  that "done" is said after a row has completed and that this row stays completed.
  `TapAfterDoneHolds` is about taps whose look for that row was answered: one
  whose look failed runs again (`RepostRunsNothing` in section 6).
  The step that needs an argument is a poll that expires what it loaded as
  pending: it is harmless because the app does not know the row the dispatcher
  created (`PollingInv`).
* `SafetyNotSilencedHolds`, `PushBudgetKept`, `NeverDroppedHolds` in
  `Attention_proofs`, for every finite set of requests and every setting.  The
  budget is not inductive by itself: `BudgetInv` counts what has been let
  through and not committed with what is committed, and each of the former is
  held by a thread or, one at a time, by the loop (`OnLoop`).  Delivery may fail
  throughout: `EventInv` and `LoudInv` say what is on record by then.
* `LiveWasApprovedHolds`, `OnePendingHolds` in `AdapterTraining_proofs`.
  `TickInv` and `RequestInv` say what an open transaction is about to write; the
  one that matters is that a tick which proposes supersedes *every* proposal
  pending now, not only those pending when it looked: only a tick creates one.
* `SuccessWasRunHolds` in `NodeUpdate_proofs`, for any number of tasks and
  threads.  `WritesCreated` says that a success about to be written, however
  late, is still true, since what has run has run and targets do not change.

Every invariant and every action property that a run checks is proved.  Only
model-checked: liveness (`ActiveCallEnds`, `DraftEnds`, `RunSettles`,
`CheckpointDecided`, `DueFires`, `FiredIsPut`, `PollTerminates`,
`TrainingGoesOn`, `TaskEnds`), which is out of the prover's reach, as is
ENABLED.

## 6. Where the code and its own words differ

Each of these is a property of a module, stated in the words of the source; TLC
finds the behaviour described.  `plan_twice` is a run; for the others the
instance is given (any constant not named as in the module's cfg).

| Property | The source says | What happens |
|---|---|---|
| `TerminalIsFinal` of `PhoneCall`, 2 threads | "land terminal exactly once" (`phone_sessions.py:330`) | an event judged before the reaper failed the row commits after it: failed becomes done |
| `ConfirmedNeverStuck`, 1 session, 1 crash, `FairSpec` | "never a silent stuck 'confirmed'" (`phone_call_service.py:1049`) | crash between the commit and the LPUSH; no sweep looks at confirmed rows |
| `CancelledNeverDials` | "its pending call declined so it never dials" (`errand_service.py:895`) | the decline is legal from draft only; a confirmed call is dialed |
| `WideningNeedsTap`, plan `BakedCheckpoint`, 1 fault | "a widening change must pause" (`workflow_engine.py:473`) | the exception path continues with whatever the checkpoint holds |
| `RunsWhatWasTapped` (`plan_twice`) | "old card's Run → stale" (`errand_service.py:1153`) | two revises of one card write the same revision; either card runs the later plan |
| `RecheckIsOneShot` | "scrub it", "so it can't poison follow-up turns" (`tool_execution_engine.py:880`) | the model call that was to answer it raises: the next utterance is put with it |
| `AnswerNeverSilenced`, `loop_holds` | "the model answered the utterance at iter 1" and it is restored (`tool_execution_engine.py:914`) | text provider: after a popped answer and a server tool, the formatting call may still reply with the sentinel |
| `SteeringNeverStale`, `loop_holds` | "They are one-shot steering messages", scrubbed (`tool_execution_engine.py:220`) | a text provider's formatting of the node's results is asked for outside `execute`, with the nags and nudges of the request before it still in the transcript |
| `InvalidRetriesCapped`, `loop_holds` | "JARVIS_INVALID_PARAM_RETRY_MAX=1" (`prds/jcc-parameter-types.md:120`) | the message starts with a numbered tag and is counted by the bare one: the count stays 0, and only the bound of the loop ends the retries |
| `NudgeIsAnswered`, `loop_holds` | "Whatever it returns next is accepted" (`tool_execution_engine.py:1384`) | a nudge on the last iteration is never put to the model: the request ends with the limit message |
| `ConcurrencyCapHolds`, 2 calls, `MaxConcurrent = 1` | "Max simultaneous active calls" (`settings_definitions.py:884`) | confirmed calls are not counted and the claim checks nothing |
| `DailyCapAdmitsItsPlans`, `CallsPerDay = 1` | "daily call/plan cap" (`settings_definitions.py:857`) | the last plan of the day counts itself and cannot be confirmed |
| `CancelledMeansNoCall` | the card "Won't call" (`phone_call_service.py:970`) | shown also for a confirmed session, which is then dialed |
| `OneCompletionCard`, 1 crash | "exactly one card" (`errand_service.py:635`) | card, crash, recovery, second card |
| `NeverWithoutCard` | "lands the run terminal rather than vanishing" (`workflow_engine.py:867`), "posts exactly one card" (`errand_service.py:635`) | the notification service refuses the completion card, or the post raises and is swallowed; the row is closed all the same |
| `StuckRunRecovered`, 1 fault, `FairSpec` | "recovered→'waiting' by the sweep" (`errand_service.py:925`) | only a restart recovers a running row |
| `CardShowsWhatIsSpliced`, plan `<<replan, sync>>`, 1 fault | "splice the SAME steps" (`errand_service.py:358`) | a failed store leaves a card whose Approve adds nothing |
| `HandledIsUnchanged` | "it can't be changed" (`errand_service.py:1200`) | a revise rewrites a plan launched while it awaited the planner |
| `SurvivesRestart`, 1 crash, `FairSpec` | "it survives restarts" (`schedule_service.py:15`) | an occurrence claimed and not yet drafted is lost |
| `AnyFailurePostsACard` of `Schedule` | "ANY failure posts a card so the user is never left hanging" (`errand_service.py:536`) | the failure card is best-effort as well, and so is the plan card: the notification service refuses it, and the schedule has moved on |
| `DoubleTapRunsOnce` | "a double-tap / re-post never runs the target callback twice" (`models.py:785`) | two taps both look before either row has completed |
| `RepostRunsNothing` | "so a double-tap / re-post never runs the target callback twice" (`proposable_action_service.py:219`) | the look for a completed row raises, or the proposal has no key: it returns False, and the callback runs again |
| `FailureIsVisible` | "Every failure returns a visible card" (`proposable_action_service.py:325`) | only a success is put on a card; a failure is the status of a row |
| `LiveIsApplied` | "No adapter state changes" (`adapter_proposal_service.py:349`) | a dismiss that loaded the proposal before an apply commits after it: dismissed and live |
| `FailureIsTold`, `routes` | "endpoint returns `sent=false`" (`prds/attention-broker.md:201`) | `/attention/events` answers with the broker's decision, whatever the notification service said |
| `DuplicatesWereSent`, two requests of one key | "journaled as `duplicate` and not re-delivered" (`prds/attention-broker.md:105`) | what the notification service refused stays in the window: its retry is withheld as a duplicate of something nobody was shown |
| `InboxBudgetHolds` | "Max broker-routed inbox cards per household per local day" (`settings_definitions.py:741`) | quiet hours demote a push to a card after the budgets have been looked at |
| `TerminalIsFinal` of `NodeUpdate` | "a terminal state must never be clobbered" (`node_updates.py:199`) | cancel, dispatch and reconciliation write by primary key over a row that has ended |
| `OneOpenTask` | "reject new update requests while one is already queued or in flight" (`node_updates.py:83`) | the check precedes the release lookup, the insert follows it |

Read in the code while modelling, with no property of their own:
`expire_stale` is said to run periodically (`adapter_proposal_service.py:449`) and
is called by nothing; `try_acquire_training_lock` says "conditional UPDATE"
(`adapter_registry.py:204`) and reads, then writes; the cutoff of a training is
the time it ended, also when it failed (`adapter_scheduler.py:193`), so examples
that arrived while it ran, and all those of a training that failed, are trained
on by no one.

Not a contradiction of any text, but visible in the model: the `iso` retry
message is counted over the whole transcript and never scrubbed, so its budget is
per conversation, not per request; and a call refused for its parameters stays in
the transcript without a result, as do native calls without a name, behind which
the loop asks again (`NothingUnanswered` of `ToolLoop`).

## 7. What is not modelled

Prose, prompts, LLM answers beyond "one of these", argument values that flow
between steps, transcripts, phonebook and number lookup, escalation questions,
authentication, the inbox service, nodes and the gateway except for what they
send.  The parsing of recurrences is abstracted to one-shot, interval and cron.
In `ToolLoop` one request of a conversation is handled at a time: what two
concurrent requests do to the shared list is not modelled, nor are the streaming
variants of the loop, the expiry of the cache, the blocks rebuilt for every
utterance, several client calls in one reply, and `force_tool_calls` off (its
guard is then absent).  `ErrandPlan` has no plan without steps: the planner
raises instead (`errand_planner.py:461`). In `ProposedAction` how a proposal is
made and matched is left out; in `AdapterTraining` extraction, training and
cards; in `Attention` the outcome stamped on a row, the success of a push after
its card, and the events of a batch after its fiftieth, which the endpoint drops
(`attention.py:69`); in `NodeUpdate` the other fields of a heartbeat.  The
largest parts without a module are relays and storage: `api/smart_home.py`,
package installation, the remaining mobile APIs, settings, prompt providers and
the training scripts are mostly requests relayed to nodes and services and rows
written by one tap.  Components without a module are listed in PROJECT.json with
the reason.

## 8. The plan

Done: `PhoneCall`, `WorkflowRun`, `ErrandPlan`, `Schedule`, `ToolLoop`,
`ProposedAction`, `NodeUpdate`, `AdapterTraining`, `Attention`, the abstract
specifications, and proofs of all their checked safety properties.

Next, in this order:

1. Proofs: for more of the contradictions of section 6, what the sources say
   under the condition that makes it true, as `OneReviseRunsWhatWasTapped` does
   (`OneOpenTask` and `LiveIsApplied` with one request at a time,
   `InboxBudgetHolds` without quiet hours); the invariants under the liveness
   properties.
2. `ToolLoop` with two concurrent requests of one conversation, and the
   streaming variants of the loop.
3. Routines and their per-minute loop, which writes back a schedule read earlier.
4. Signals, their reactions and the situation matcher; what a proposal is made of.
5. The result files of device commands in `node_command_service.py`; package
   installation on nodes.
