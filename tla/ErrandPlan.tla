----------------------------- MODULE ErrandPlan -----------------------------
(***************************************************************************)
(* One errand plan (app/services/errand_service.py, the table              *)
(* errand_plans): drafted from a goal, put to the household on a plan      *)
(* card, revised, and run or discarded by a tap on that card.              *)
(*                                                                         *)
(* The taps are background tasks of one event loop: an action is what a    *)
(* task does between two awaits.  Only the planner is awaited, so a Run or *)
(* Discard tap is one action, and a Revise (from a new goal or from an     *)
(* instruction) is two: between them the task holds the row as it read it. *)
(*                                                                         *)
(* A plan's steps are a member of Contents.  The run a Run tap creates is  *)
(* module WorkflowRun; here only its state moves, and as module LinkedRun  *)
(* lets it.  The names that other modules have too begin with Plan.        *)
(***************************************************************************)
EXTENDS Naturals, Sequences, LinkedRun

CONSTANTS
    Contents,     \* what the planner may answer
    Tasks,        \* Revise taps being handled
    MaxRevision,  \* bound on the revisions
    MaxRestarts,  \* bound on crashes of the process
    MaxFaults,    \* bound on cards the notification service does not take
    Nothing       \* null: no row, run, card or task

VARIABLES
    drafting,   \* the detached task that drafts the plan is at work
    pstate, content, revision,   \* the row
    run,        \* the Workflow the row is linked to, or Nothing
    shown,      \* the plan card in the inbox, or Nothing
    seen,       \* every version of it a screen may still show
    task,       \* by Revise task: the revision it read, or Nothing
    launches,   \* history: [tapped, ran], the card tapped and the steps run
    restarts, faults

plan == <<pstate, content, revision>>
planVars == <<drafting, plan, run, shown, seen, task, launches, restarts, faults>>

-----------------------------------------------------------------------------
Cards == [rev : 1 .. MaxRevision, content : Contents]

ASSUME PlanBoundsAssumption ==
    MaxRevision \in Nat \ {0} /\ {MaxRestarts, MaxFaults} \subseteq Nat
ASSUME NothingAssumption == Nothing \notin Contents /\ Nothing \notin Nat

PlanTypeOK ==
    /\ drafting \in BOOLEAN
    /\ pstate \in {"none", "draft", "launched", "cancelled"}
    /\ content \in Contents \cup {Nothing}
    /\ revision \in 0 .. MaxRevision
    /\ run \in [content : Contents, state : LinkedStates] \cup {Nothing}
    /\ shown \in Cards \cup {Nothing}
    /\ seen \subseteq Cards
    /\ task \in [Tasks -> 1 .. MaxRevision \cup {Nothing}]
    /\ launches \in Seq([tapped : Cards, ran : Contents])
    /\ restarts \in 0 .. MaxRestarts /\ faults \in 0 .. MaxFaults

\* run_errand has acknowledged the request and left the drafting to a task.
PlanInit ==
    /\ drafting = TRUE
    /\ pstate = "none" /\ content = Nothing /\ revision = 0
    /\ run = Nothing /\ shown = Nothing /\ seen = {}
    /\ task = [t \in Tasks |-> Nothing]
    /\ launches = <<>> /\ restarts = 0 /\ faults = 0

-----------------------------------------------------------------------------
\* The card of the saved row: posted, or updated in place; best-effort.
Post(card, posted) ==
    IF posted
    THEN shown' = card /\ seen' = seen \cup {card} /\ UNCHANGED faults
    ELSE faults < MaxFaults /\ faults' = faults + 1 /\ UNCHANGED <<shown, seen>>

\* create_errand_plan, once the planner has answered.
Draft(new, posted) ==
    /\ drafting /\ drafting' = FALSE
    /\ pstate' = "draft" /\ content' = new /\ revision' = 1
    /\ Post([rev |-> 1, content |-> new], posted)
    /\ UNCHANGED <<run, task, launches, restarts>>

\* No usable plan, or no planner: a card says so and there is no row.
DraftFails ==
    /\ drafting /\ drafting' = FALSE
    /\ UNCHANGED <<plan, run, shown, seen, task, launches, restarts, faults>>

-----------------------------------------------------------------------------
\* Faulty: no single-use guard.
CurrentAnyState(card) == pstate # "none" /\ card.rev = revision

\* The guards of Run and Revise: a draft, and _revisions_match.
Current(card) == pstate = "draft" /\ card.rev = revision

\* Run: the row is launched and linked to a new run in one commit.  (The branch
\* for a plan without steps is never taken: the planner raises instead.)
Approve(card) ==
    /\ card \in seen /\ Current(card)
    /\ run' = [content |-> content, state |-> "running"]
    /\ pstate' = "launched"
    /\ launches' = Append(launches, [tapped |-> card, ran |-> content])
    /\ UNCHANGED <<drafting, content, revision, shown, seen, task, restarts, faults>>

\* Revise, up to the await of the planner.
Revise(t, card) ==
    /\ task[t] = Nothing /\ card \in seen /\ Current(card)
    /\ revision < MaxRevision
    /\ task' = [task EXCEPT ![t] = revision]
    /\ UNCHANGED <<drafting, plan, run, shown, seen, launches, restarts, faults>>

\* Faulty: the card is not posted again.
RevisedUnposted(t, new, posted) ==
    /\ task[t] # Nothing /\ task' = [task EXCEPT ![t] = Nothing]
    /\ content' = new /\ revision' = task[t] + 1
    /\ posted
    /\ UNCHANGED <<drafting, pstate, run, shown, seen, launches, restarts, faults>>

\* _apply_plan_revision: the row is written from what the task read before the
\* planner was awaited, whatever happened to it since.
Revised(t, new, posted) ==
    /\ task[t] # Nothing /\ task' = [task EXCEPT ![t] = Nothing]
    /\ content' = new /\ revision' = task[t] + 1
    /\ Post([rev |-> task[t] + 1, content |-> new], posted)
    /\ UNCHANGED <<drafting, pstate, run, launches, restarts>>

ReviseFails(t) ==
    /\ task[t] # Nothing /\ task' = [task EXCEPT ![t] = Nothing]
    /\ UNCHANGED <<drafting, plan, run, shown, seen, launches, restarts, faults>>

-----------------------------------------------------------------------------
Parked == run # Nothing /\ run.state = "waiting"

CancelRun == run' = [run EXCEPT !.state = "cancelled"]

\* Faulty: also cancels the plan of a run that is being driven.
DiscardRunning ==
    /\ seen # {} /\ pstate \in {"draft", "launched"} /\ pstate' = "cancelled"
    /\ UNCHANGED <<drafting, content, revision, run, shown, seen, task, launches,
                   restarts, faults>>

\* Discard, from any version of the card: the draft, or the parked run and
\* the plan in one commit.
Discard ==
    /\ seen # {}
    /\ \/ pstate = "draft" /\ UNCHANGED run
       \/ pstate = "launched" /\ Parked /\ CancelRun
    /\ pstate' = "cancelled"
    /\ UNCHANGED <<drafting, content, revision, shown, seen, task, launches,
                   restarts, faults>>

\* Stop, from a delta card of the run: the run, then the plan.
Stop ==
    /\ Parked /\ CancelRun /\ pstate' = "cancelled"
    /\ UNCHANGED <<drafting, content, revision, shown, seen, task, launches,
                   restarts, faults>>

\* The run by itself: it parks, is resumed and ends.
RunMoves ==
    /\ run # Nothing
    /\ \E to \in LinkedStates \ {"cancelled"} :
          /\ <<run.state, to>> \in LinkedSteps
          /\ run' = [run EXCEPT !.state = to]
    /\ UNCHANGED <<drafting, plan, shown, seen, task, launches, restarts, faults>>

\* A crash loses the tasks; one of them may have committed its row and not
\* yet posted the card, or the run and not yet the plan.
PlanCrash ==
    /\ restarts < MaxRestarts /\ restarts' = restarts + 1
    /\ drafting' = FALSE /\ task' = [t \in Tasks |-> Nothing]
    /\ \/ UNCHANGED <<plan, run>>
       \/ /\ drafting /\ pstate' = "draft" /\ content' \in Contents
          /\ revision' = 1 /\ UNCHANGED run
       \/ \E t \in Tasks :
             /\ task[t] # Nothing
             /\ content' \in Contents /\ revision' = task[t] + 1
             /\ UNCHANGED <<pstate, run>>
       \/ Parked /\ CancelRun /\ UNCHANGED plan
    /\ UNCHANGED <<shown, seen, launches, faults>>

-----------------------------------------------------------------------------
PlanNext ==
    \/ \E new \in Contents, posted \in BOOLEAN :
          \/ Draft(new, posted)
          \/ \E t \in Tasks : Revised(t, new, posted)
    \/ DraftFails
    \/ \E card \in seen : Approve(card) \/ \E t \in Tasks : Revise(t, card)
    \/ \E t \in Tasks : ReviseFails(t)
    \/ Discard \/ Stop \/ RunMoves \/ PlanCrash

PlanSpec == PlanInit /\ [][PlanNext]_planVars

-----------------------------------------------------------------------------
(***************************************************************************)
(* Properties.                                                             *)
(***************************************************************************)
\* However often Run is tapped, on whatever versions of the card and whatever
\* revises and crashes happen meanwhile, the plan is run at most once.
LaunchedOnce == Len(launches) <= 1

\* A plan said to be cancelled has no run that could still act, and a run has
\* a plan that says it was launched or cancelled.
CancelledPlanStops ==
    /\ pstate = "cancelled" /\ run # Nothing => run.state = "cancelled"
    /\ run # Nothing => pstate \in {"launched", "cancelled"}

\* The inbox shows the plan as it is, whichever revise came last, as long as
\* every card was taken and nothing crashed: a draft can always be run.
ShownIsCurrent ==
    restarts = 0 /\ faults = 0 /\ pstate # "none"
        => shown = [rev |-> revision, content |-> content]

\* The inductive invariant behind these (proved in Errands_proofs): a plan
\* has a run and a launch from its Run tap on, and not before.
PlanInv ==
    /\ drafting => pstate = "none"
    /\ pstate = "none" =>
          seen = {} /\ shown = Nothing /\ \A t \in Tasks : task[t] = Nothing
    /\ pstate # "none" => content \in Contents /\ revision # 0
    /\ pstate \in {"none", "draft"} => run = Nothing /\ launches = <<>>
    /\ \A t \in Tasks : task[t] # Nothing => task[t] < MaxRevision

\* While one revise is handled at a time, the card of the row's revision shows
\* the row.
CardsInv ==
    /\ \A c \in seen : c.rev <= revision /\ (c.rev = revision => c.content = content)
    /\ \A t \in Tasks : task[t] # Nothing => task[t] = revision

\* What the sources say and the code does not do (see README, findings).
\* "bump the revision (old card's Run -> stale)": a Run tap runs the steps of
\* the card that was tapped.  It holds while one revise is handled at a time.
RunsWhatWasTapped ==
    \A i \in DOMAIN launches : launches[i].ran = launches[i].tapped.content

\* "This errand is already launched - it can't be changed."
HandledIsUnchanged ==
    [][(pstate \in {"launched", "cancelled"}) => content' = content]_planVars
=============================================================================
