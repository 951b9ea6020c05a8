--------------------------- MODULE Errands_proofs ---------------------------
(***************************************************************************)
(* Proofs about ErrandPlan, for any number of taps, revisions, crashes and *)
(* lost cards, and about Schedule, for every recurrence, period and number *)
(* of sweeps: a plan is run at most once and its cancellation stops it; no *)
(* occurrence is claimed twice, early or after a cancellation.             *)
(***************************************************************************)
EXTENDS ErrandPlan, Schedule, SequenceTheorems, TLAPS

-----------------------------------------------------------------------------
(***************************************************************************)
(* Errand plans.                                                           *)
(***************************************************************************)
PlanIInv == PlanTypeOK /\ PlanInv /\ LaunchedOnce /\ CancelledPlanStops /\ ShownIsCurrent

\* A card that is posted, or is not.
LEMMA PostFacts ==
    ASSUME PlanTypeOK, NEW card \in Cards, NEW posted \in BOOLEAN, Post(card, posted)
    PROVE  /\ shown' \in Cards \cup {Nothing} /\ seen' \subseteq Cards
           /\ seen' \subseteq seen \cup {card}
           /\ faults' \in 0 .. MaxFaults
           /\ faults' = 0 => shown' = card
BY PlanBoundsAssumption DEF Post, PlanTypeOK

\* A new plan satisfies the invariant.
LEMMA PlanInitHolds == PlanInit => PlanIInv
<1> SUFFICES ASSUME PlanInit
             PROVE  PlanIInv
    OBVIOUS
<1>1. launches \in Seq([tapped : Cards, ran : Contents]) /\ Len(launches) = 0
    BY EmptySeq DEF PlanInit
<1>2. PlanTypeOK
    BY <1>1, PlanBoundsAssumption DEF PlanInit, PlanTypeOK
<1> QED
    BY <1>1, <1>2 DEF PlanInit, PlanIInv, PlanInv, LaunchedOnce, CancelledPlanStops,
                      ShownIsCurrent

\* The first draft of a plan.
LEMMA DraftKeeps ==
    ASSUME PlanIInv, NEW new \in Contents, NEW posted \in BOOLEAN, Draft(new, posted)
    PROVE  PlanIInv'
<1> DEFINE card == [rev |-> 1, content |-> new]
<1>1. /\ pstate = "none" /\ drafting' = FALSE
      /\ pstate' = "draft" /\ content' = new /\ revision' = 1
      /\ run = Nothing /\ launches = <<>> /\ \A t \in Tasks : task[t] = Nothing
      /\ Post(card, posted)
      /\ UNCHANGED <<run, task, launches, restarts>>
    BY DEF Draft, PlanIInv, PlanInv
<1>2. card \in Cards /\ 1 \in 0 .. MaxRevision
    BY PlanBoundsAssumption DEF Cards
<1>3. /\ shown' \in Cards \cup {Nothing} /\ seen' \subseteq Cards
      /\ faults' \in 0 .. MaxFaults
      /\ faults' = 0 => shown' = card
    BY <1>1, <1>2, PostFacts DEF PlanIInv
<1> HIDE DEF card
<1>4. PlanTypeOK'
    BY <1>1, <1>2, <1>3 DEF PlanIInv, PlanTypeOK
<1>5. PlanInv' /\ LaunchedOnce' /\ CancelledPlanStops'
    BY <1>1 DEF PlanIInv, PlanInv, LaunchedOnce, CancelledPlanStops
<1>6. ShownIsCurrent'
    BY <1>1, <1>3 DEF ShownIsCurrent, card
<1> QED
    BY <1>4, <1>5, <1>6 DEF PlanIInv

\* The Run tap: only a draft is launched, and it has not been launched before.
LEMMA ApproveKeeps ==
    ASSUME PlanIInv, NEW card \in seen, Approve(card)
    PROVE  PlanIInv'
<1>1. /\ pstate = "draft" /\ pstate' = "launched" /\ launches = <<>>
      /\ run' = [content |-> content, state |-> "running"]
      /\ launches' = Append(launches, [tapped |-> card, ran |-> content])
      /\ UNCHANGED <<drafting, content, revision, shown, seen, task, restarts, faults>>
    BY DEF Approve, Current, PlanIInv, PlanInv
<1>2. card \in Cards /\ content \in Contents /\ revision # 0
    BY <1>1 DEF PlanIInv, PlanTypeOK, PlanInv
<1> DEFINE launch == [tapped |-> card, ran |-> content]
<1>3. launch \in [tapped : Cards, ran : Contents]
    BY <1>2
<1> HIDE DEF launch
<1>4. launches' \in Seq([tapped : Cards, ran : Contents]) /\ Len(launches') = 1
    <2>1. launches \in Seq([tapped : Cards, ran : Contents]) /\ Len(launches) = 0
        BY <1>1, EmptySeq
    <2> QED BY <1>1, <1>3, <2>1, AppendProperties DEF launch
<1>5. run' \in [content : Contents, state : LinkedStates]
    BY <1>1, <1>2 DEF LinkedStates
<1>6. PlanTypeOK'
    BY <1>1, <1>4, <1>5 DEF PlanIInv, PlanTypeOK
<1>7. PlanInv' /\ LaunchedOnce' /\ CancelledPlanStops'
    BY <1>1, <1>2, <1>4 DEF PlanIInv, PlanInv, LaunchedOnce, CancelledPlanStops
<1>8. ShownIsCurrent'
    BY <1>1 DEF PlanIInv, ShownIsCurrent
<1> QED
    BY <1>6, <1>7, <1>8 DEF PlanIInv

\* The Revise tap, and its end without a plan.
LEMMA ReviseKeeps ==
    ASSUME PlanIInv, NEW t \in Tasks,
           ReviseFails(t) \/ \E card \in seen : Revise(t, card)
    PROVE  PlanIInv'
<1>1. UNCHANGED <<drafting, plan, run, shown, seen, launches, restarts, faults>>
    BY DEF Revise, ReviseFails
<1>2. UNCHANGED <<pstate, content, revision>>
    BY <1>1 DEF plan
<1>3. \/ task' = [task EXCEPT ![t] = Nothing]
      \/ /\ task' = [task EXCEPT ![t] = revision]
         /\ pstate = "draft" /\ revision < MaxRevision
    BY DEF Revise, ReviseFails, Current
<1>4. revision \in 0 .. MaxRevision /\ MaxRevision \in Nat
      /\ (pstate = "draft" => revision \in 1 .. MaxRevision)
    BY PlanBoundsAssumption DEF PlanIInv, PlanTypeOK, PlanInv
<1>5. task' \in [Tasks -> 1 .. MaxRevision \cup {Nothing}]
    BY <1>3, <1>4 DEF PlanIInv, PlanTypeOK
<1>6. /\ \A u \in Tasks : task'[u] # Nothing => task'[u] < MaxRevision
      /\ pstate = "none" => \A u \in Tasks : task'[u] = Nothing
    BY <1>3, <1>4 DEF PlanIInv, PlanTypeOK, PlanInv
<1>7. PlanTypeOK'
    BY <1>1, <1>2, <1>5 DEF PlanIInv, PlanTypeOK
<1>8. PlanInv' /\ LaunchedOnce' /\ CancelledPlanStops' /\ ShownIsCurrent'
    BY <1>1, <1>2, <1>6 DEF PlanIInv, PlanInv, LaunchedOnce, CancelledPlanStops,
                            ShownIsCurrent
<1> QED
    BY <1>7, <1>8 DEF PlanIInv

\* The planner has answered a revise: the row is written as it was read.
LEMMA RevisedKeeps ==
    ASSUME PlanIInv, NEW t \in Tasks, NEW new \in Contents, NEW posted \in BOOLEAN,
           Revised(t, new, posted)
    PROVE  PlanIInv'
<1> DEFINE card == [rev |-> task[t] + 1, content |-> new]
<1>1. /\ task[t] # Nothing /\ task' = [task EXCEPT ![t] = Nothing]
      /\ content' = new /\ revision' = task[t] + 1
      /\ Post(card, posted)
      /\ UNCHANGED <<drafting, pstate, run, launches, restarts>>
    BY DEF Revised
<1>2. /\ task[t] \in 1 .. MaxRevision /\ task[t] < MaxRevision
      /\ MaxRevision \in Nat /\ pstate # "none"
    BY <1>1, PlanBoundsAssumption DEF PlanIInv, PlanTypeOK, PlanInv
<1>3. card \in Cards
    BY <1>2 DEF Cards
<1>4. /\ shown' \in Cards \cup {Nothing} /\ seen' \subseteq Cards
      /\ faults' \in 0 .. MaxFaults
      /\ faults' = 0 => shown' = card
    BY <1>1, <1>3, PostFacts DEF PlanIInv
<1> HIDE DEF card
<1>5. PlanTypeOK'
    <2>1. revision' \in 0 .. MaxRevision
        BY <1>1, <1>2
    <2> QED BY <1>1, <1>4, <2>1 DEF PlanIInv, PlanTypeOK
<1>6. PlanInv'
    <2>1. revision' # 0 /\ content' \in Contents
        BY <1>1, <1>2
    <2>2. \A u \in Tasks : task'[u] # Nothing => task'[u] < MaxRevision
        BY <1>1 DEF PlanIInv, PlanTypeOK, PlanInv
    <2> QED BY <1>1, <1>2, <2>1, <2>2 DEF PlanIInv, PlanInv
<1>7. LaunchedOnce' /\ CancelledPlanStops'
    BY <1>1 DEF PlanIInv, LaunchedOnce, CancelledPlanStops
<1>8. ShownIsCurrent'
    BY <1>1, <1>4 DEF ShownIsCurrent, card
<1> QED
    BY <1>5, <1>6, <1>7, <1>8 DEF PlanIInv

\* Discard and Stop cancel a draft, or a parked run with its plan.
LEMMA CancelKeeps ==
    ASSUME PlanIInv, Discard \/ Stop
    PROVE  PlanIInv'
<1>1. /\ pstate' = "cancelled"
      /\ \/ pstate = "draft" /\ UNCHANGED run
         \/ Parked /\ CancelRun
      /\ UNCHANGED <<drafting, content, revision, shown, seen, task, launches,
                     restarts, faults>>
    BY DEF Discard, Stop
<1>2. pstate \in {"draft", "launched", "cancelled"} /\ (pstate = "draft" => run = Nothing)
    BY <1>1 DEF Parked, PlanIInv, PlanInv, CancelledPlanStops
<1>3. \/ run = Nothing /\ run' = Nothing
      \/ /\ run' \in [content : Contents, state : LinkedStates]
         /\ run'.state = "cancelled"
    BY <1>1, <1>2 DEF Parked, CancelRun, PlanIInv, PlanTypeOK, LinkedStates
<1>4. PlanTypeOK'
    BY <1>1, <1>3 DEF PlanIInv, PlanTypeOK
<1>5. PlanInv' /\ LaunchedOnce' /\ CancelledPlanStops'
    BY <1>1, <1>2, <1>3 DEF PlanIInv, PlanInv, LaunchedOnce, CancelledPlanStops
<1>6. ShownIsCurrent'
    BY <1>1, <1>2 DEF PlanIInv, ShownIsCurrent
<1> QED
    BY <1>4, <1>5, <1>6 DEF PlanIInv

\* A cancelled run does not move, so its plan stays stopped.
LEMMA MovesKeep ==
    ASSUME PlanIInv, RunMoves
    PROVE  PlanIInv'
<1>1. PICK to \in LinkedStates \ {"cancelled"} :
          <<run.state, to>> \in LinkedSteps /\ run' = [run EXCEPT !.state = to]
    BY DEF RunMoves
<1>2. /\ run # Nothing
      /\ UNCHANGED <<drafting, pstate, content, revision, shown, seen, task, launches,
                     restarts, faults>>
    BY DEF RunMoves, plan
<1>3. run.state # "cancelled" /\ pstate = "launched"
    BY <1>1, <1>2 DEF LinkedSteps, PlanIInv, CancelledPlanStops
<1>4. run' \in [content : Contents, state : LinkedStates]
    BY <1>1, <1>2 DEF PlanIInv, PlanTypeOK
<1>5. PlanTypeOK'
    BY <1>2, <1>4 DEF PlanIInv, PlanTypeOK
<1>6. PlanInv' /\ LaunchedOnce' /\ CancelledPlanStops' /\ ShownIsCurrent'
    BY <1>2, <1>3 DEF PlanIInv, PlanInv, LaunchedOnce, CancelledPlanStops, ShownIsCurrent
<1> QED
    BY <1>5, <1>6 DEF PlanIInv

\* A crash, before or after a task has committed its row.
LEMMA PlanCrashKeeps ==
    ASSUME PlanIInv, PlanCrash
    PROVE  PlanIInv'
<1>1. /\ restarts \in Nat /\ restarts' = restarts + 1
      /\ drafting' = FALSE /\ \A t \in Tasks : task'[t] = Nothing
      /\ UNCHANGED <<shown, seen, launches, faults>>
    BY PlanBoundsAssumption DEF PlanCrash, PlanIInv, PlanTypeOK
<1>2. ShownIsCurrent'
    BY <1>1 DEF ShownIsCurrent
<1>3. /\ drafting' \in BOOLEAN /\ shown' \in Cards \cup {Nothing} /\ seen' \subseteq Cards
      /\ task' \in [Tasks -> 1 .. MaxRevision \cup {Nothing}]
      /\ launches' \in Seq([tapped : Cards, ran : Contents])
      /\ restarts' \in 0 .. MaxRestarts /\ faults' \in 0 .. MaxFaults
    <2>1. task' = [t \in Tasks |-> Nothing] /\ restarts < MaxRestarts
        BY DEF PlanCrash
    <2>2. task' \in [Tasks -> 1 .. MaxRevision \cup {Nothing}]
        BY <2>1
    <2>3. restarts' \in 0 .. MaxRestarts
        BY <1>1, <2>1, PlanBoundsAssumption
    <2> QED BY <1>1, <2>2, <2>3 DEF PlanIInv, PlanTypeOK
<1>4. CASE UNCHANGED <<plan, run>>
    <2>1. UNCHANGED <<pstate, content, revision, run>>
        BY <1>4 DEF plan
    <2>2. PlanTypeOK'
        BY <1>3, <2>1 DEF PlanIInv, PlanTypeOK
    <2> QED BY <1>1, <1>2, <2>1, <2>2
            DEF PlanIInv, PlanInv, LaunchedOnce, CancelledPlanStops
<1>5. CASE /\ drafting /\ pstate' = "draft" /\ content' \in Contents
           /\ revision' = 1 /\ UNCHANGED run
    <2>1. 1 \in 0 .. MaxRevision
        BY PlanBoundsAssumption
    <2>2. PlanTypeOK'
        BY <1>3, <1>5, <2>1 DEF PlanIInv, PlanTypeOK
    <2> QED BY <1>1, <1>2, <1>5, <2>2
            DEF PlanIInv, PlanInv, LaunchedOnce, CancelledPlanStops
<1>6. ASSUME NEW t \in Tasks, task[t] # Nothing, content' \in Contents,
             revision' = task[t] + 1, UNCHANGED <<pstate, run>>
      PROVE  PlanIInv'
    <2>1. pstate # "none" /\ revision' \in 1 .. MaxRevision /\ revision' # 0
        BY <1>6, PlanBoundsAssumption DEF PlanIInv, PlanTypeOK, PlanInv
    <2>2. pstate' = pstate /\ run' = run /\ revision' \in 0 .. MaxRevision
        BY <1>6, <2>1
    <2>3. PlanTypeOK'
        BY <1>3, <1>6, <2>2 DEF PlanIInv, PlanTypeOK
    <2> QED BY <1>1, <1>2, <1>6, <2>1, <2>3
            DEF PlanIInv, PlanInv, LaunchedOnce, CancelledPlanStops
<1>7. CASE Parked /\ CancelRun /\ UNCHANGED plan
    <2>1. /\ run # Nothing /\ run'.state = "cancelled"
          /\ run' \in [content : Contents, state : LinkedStates]
        BY <1>7
           DEF Parked, CancelRun, PlanIInv, PlanTypeOK, LinkedStates
    <2>2. UNCHANGED <<pstate, content, revision>>
        BY <1>7 DEF plan
    <2>3. PlanTypeOK'
        BY <1>3, <2>1, <2>2 DEF PlanIInv, PlanTypeOK
    <2> QED BY <1>1, <1>2, <2>1, <2>2, <2>3
            DEF PlanIInv, PlanInv, LaunchedOnce, CancelledPlanStops
<1> QED
    BY <1>4, <1>5, <1>6, <1>7 DEF PlanCrash

\* Every step keeps the invariant.
LEMMA PlanInductive == PlanIInv /\ [PlanNext]_planVars => PlanIInv'
<1> SUFFICES ASSUME PlanIInv, [PlanNext]_planVars
             PROVE  PlanIInv'
    OBVIOUS
<1>1. CASE DraftFails
    BY <1>1 DEF DraftFails, plan, PlanIInv, PlanTypeOK, PlanInv, LaunchedOnce,
                CancelledPlanStops, ShownIsCurrent
<1>2. CASE UNCHANGED planVars
    BY <1>2 DEF planVars, plan, PlanIInv, PlanTypeOK, PlanInv, LaunchedOnce,
                CancelledPlanStops, ShownIsCurrent
<1> QED BY <1>1, <1>2, DraftKeeps, ApproveKeeps, ReviseKeeps, RevisedKeeps,
           CancelKeeps, MovesKeep, PlanCrashKeeps DEF PlanNext

\* The rows, cards and tasks of a plan are well formed, and a plan has a run
\* and a launch from its Run tap on and not before.
THEOREM PlanInvariant == PlanSpec => [](PlanTypeOK /\ PlanInv /\ LaunchedOnce
                                        /\ CancelledPlanStops /\ ShownIsCurrent)
BY PlanInitHolds, PlanInductive, PTL DEF PlanSpec, PlanIInv

\* However often Run is tapped, the plan is launched at most once.
THEOREM LaunchedOnceHolds == PlanSpec => []LaunchedOnce
BY PlanInvariant, PTL

\* A cancelled plan has stopped its run, and a run has a plan that was launched.
THEOREM CancelledPlanStopsHolds == PlanSpec => []CancelledPlanStops
BY PlanInvariant, PTL

\* The card in the inbox shows the row, unless a card was lost or the process
\* crashed.
THEOREM ShownIsCurrentHolds == PlanSpec => []ShownIsCurrent
BY PlanInvariant, PTL

\* While one revise is handled at a time the card of the row's revision shows
\* the row, so what a Run tap launches is what the tapped card showed.
LEMMA CardsKeep ==
    ASSUME \A t, u \in Tasks : t = u,
           PlanIInv, CardsInv, RunsWhatWasTapped, PlanNext
    PROVE  CardsInv' /\ RunsWhatWasTapped'
<1> USE DEF PlanIInv
<1>1. revision \in Nat /\ \A c \in seen : c.rev \in Nat
    BY PlanBoundsAssumption DEF PlanTypeOK, Cards
<1>2. ASSUME NEW t \in Tasks, task[t] # Nothing
      PROVE  task[t] = revision /\ \A c \in seen : c.rev < task[t] + 1
    BY <1>1, <1>2 DEF CardsInv
<1>3. ASSUME NEW new \in Contents, NEW posted \in BOOLEAN, Draft(new, posted)
      PROVE  CardsInv' /\ RunsWhatWasTapped'
    <2>1. /\ seen = {} /\ content' = new /\ revision' = 1 /\ UNCHANGED launches
          /\ \A t \in Tasks : task'[t] = Nothing
          /\ seen' \subseteq {[rev |-> 1, content |-> new]}
        BY <1>3 DEF Draft, Post, PlanInv
    <2> QED BY <2>1 DEF CardsInv, RunsWhatWasTapped
<1>4. ASSUME NEW t \in Tasks, NEW new \in Contents, NEW posted \in BOOLEAN,
             Revised(t, new, posted)
      PROVE  CardsInv' /\ RunsWhatWasTapped'
    <2> DEFINE card == [rev |-> task[t] + 1, content |-> new]
    <2>1. /\ task[t] # Nothing /\ task' = [task EXCEPT ![t] = Nothing]
          /\ content' = new /\ revision' = task[t] + 1 /\ UNCHANGED launches
          /\ seen' \subseteq seen \cup {card}
        BY <1>4 DEF Revised, Post
    <2>2. \A u \in Tasks : task'[u] = Nothing
        BY <2>1 DEF PlanTypeOK
    <2>3. \A c \in seen' :
              c.rev <= revision' /\ (c.rev = revision' => c.content = content')
        BY <1>1, <1>2, <2>1
    <2> QED BY <2>1, <2>2, <2>3 DEF CardsInv, RunsWhatWasTapped
<1>5. ASSUME NEW card \in seen, Approve(card)
      PROVE  CardsInv' /\ RunsWhatWasTapped'
    <2>1. /\ launches = <<>> /\ card.rev = revision
          /\ launches' = Append(launches, [tapped |-> card, ran |-> content])
          /\ UNCHANGED <<content, revision, seen, task>>
        BY <1>5 DEF Approve, Current, PlanInv
    <2>2. card.content = content
        BY <2>1 DEF CardsInv
    <2> DEFINE launch == [tapped |-> card, ran |-> content]
    <2>3. card \in Cards /\ content \in Contents
        BY <1>5 DEF Approve, Current, PlanTypeOK, PlanInv
    <2>4. launch \in [tapped : Cards, ran : Contents]
        BY <2>3
    <2>5. launch.ran = launch.tapped.content
        BY <2>2
    <2> HIDE DEF launch
    <2>6. DOMAIN launches' = {1} /\ launches'[1] = launch
        <3>1. launches \in Seq([tapped : Cards, ran : Contents]) /\ Len(launches) = 0
            BY <2>1, EmptySeq
        <3> QED BY <2>1, <2>4, <3>1, AppendProperties DEF launch
    <2> QED BY <2>1, <2>5, <2>6 DEF CardsInv, RunsWhatWasTapped
<1>6. ASSUME NEW t \in Tasks, NEW card \in seen, Revise(t, card)
      PROVE  CardsInv' /\ RunsWhatWasTapped'
    BY <1>6 DEF Revise, plan, CardsInv, RunsWhatWasTapped, PlanTypeOK
<1>7. ASSUME NEW t \in Tasks, ReviseFails(t)
      PROVE  CardsInv' /\ RunsWhatWasTapped'
    BY <1>7 DEF ReviseFails, plan, CardsInv, RunsWhatWasTapped, PlanTypeOK
<1>8. CASE DraftFails \/ Discard \/ Stop \/ RunMoves
    <2>1. UNCHANGED <<content, revision, seen, task, launches>>
        BY <1>8 DEF DraftFails, Discard, Stop, RunMoves, plan
    <2> QED BY <2>1 DEF CardsInv, RunsWhatWasTapped
<1>9. CASE PlanCrash
    <2>1. /\ \A t \in Tasks : task'[t] = Nothing
          /\ UNCHANGED <<seen, launches>>
          /\ \/ UNCHANGED <<content, revision>>
             \/ drafting
             \/ \E t \in Tasks : task[t] # Nothing /\ revision' = task[t] + 1
        BY <1>9 DEF PlanCrash, plan
    <2>2. drafting => seen = {}
        BY DEF PlanInv
    <2>3. \A c \in seen' :
              c.rev <= revision' /\ (c.rev = revision' => c.content = content')
        BY <1>1, <1>2, <2>1, <2>2 DEF CardsInv
    <2> QED BY <2>1, <2>3 DEF CardsInv, RunsWhatWasTapped
<1> QED
    BY <1>3, <1>4, <1>5, <1>6, <1>7, <1>8, <1>9 DEF PlanNext

\* Two revises handled at once are all it takes for the finding, and no fewer:
\* whatever the taps, crashes and lost cards, one revise at a time leaves a
\* Run tap the steps of the card that was tapped.
THEOREM OneReviseRunsWhatWasTapped ==
    ASSUME \A t, u \in Tasks : t = u
    PROVE  PlanSpec => []RunsWhatWasTapped
<1> DEFINE Inv == PlanIInv /\ CardsInv /\ RunsWhatWasTapped
<1>1. PlanInit => Inv
    <2> SUFFICES ASSUME PlanInit
                 PROVE  CardsInv /\ RunsWhatWasTapped
        BY PlanInitHolds
    <2>1. seen = {} /\ (\A t \in Tasks : task[t] = Nothing) /\ DOMAIN launches = {}
        BY EmptySeq DEF PlanInit
    <2> QED BY <2>1 DEF CardsInv, RunsWhatWasTapped
<1>2. Inv /\ [PlanNext]_planVars => Inv'
    <2>1. ASSUME Inv, UNCHANGED planVars
          PROVE  CardsInv' /\ RunsWhatWasTapped'
        BY <2>1 DEF planVars, plan, CardsInv, RunsWhatWasTapped
    <2> QED BY <2>1, CardsKeep, PlanInductive
<1>3. Inv => RunsWhatWasTapped
    OBVIOUS
<1> QED
    BY <1>1, <1>2, <1>3, PTL DEF PlanSpec

-----------------------------------------------------------------------------
(***************************************************************************)
(* Schedules.                                                              *)
(***************************************************************************)
\* The next occurrence is strictly later.
LEMMA NextFireLater ==
    ASSUME NEW n \in Nat
    PROVE  NextFire(n) \in Nat /\ n < NextFire(n)
<1>1. Period \in Nat /\ Period > 0
    BY PeriodAssumption
<1>2. CASE Recurrence = "cron"
    <2> DEFINE q == n \div Period
    <2>1. q \in Nat /\ n < (q + 1) * Period
        BY <1>1
    <2> QED BY <1>1, <1>2, <2>1 DEF NextFire
<1>3. CASE Recurrence # "cron"
    BY <1>1, <1>3 DEF NextFire
<1> QED
    BY <1>2, <1>3

\* A sweep's clock is behind, and what was claimed lies before next_fire_at
\* (or, for a one-shot, is the end of the schedule).
SweepInv == \A s \in Sweeps : sweep[s] # Nobody => sweep[s].now <= clock

OnceInv ==
    Recurrence = "once" =>
        /\ \A s \in Sweeps : sweep[s] # Nobody => next <= clock
        /\ state = "active" => fired = <<>>

AheadInv ==
    Recurrence # "once" => \A i \in DOMAIN fired : fired[i] < next

IInv ==
    TypeOK /\ SweepInv /\ OnceInv /\ AheadInv /\ OncePerOccurrence /\ NeverEarly

\* The rows of a fresh process satisfy the invariant.
LEMMA InitHolds == Init => IInv
<1> SUFFICES ASSUME Init
             PROVE  IInv
    OBVIOUS
<1>1. fired \in Seq(Nat) /\ DOMAIN fired = {}
    BY EmptySeq DEF Init
<1> QED
    BY <1>1, PeriodAssumption
       DEF Init, IInv, TypeOK, SweepInv, OnceInv, AheadInv, OncePerOccurrence, NeverEarly

\* Appending an occurrence later than all the others.
LEMMA AppendFired ==
    ASSUME TypeOK, fired' = Append(fired, next)
    PROVE  /\ fired' \in Seq(Nat) /\ DOMAIN fired' = 1 .. Len(fired) + 1
           /\ DOMAIN fired = 1 .. Len(fired) /\ Len(fired) \in Nat
           /\ \A i \in DOMAIN fired : fired'[i] = fired[i]
           /\ fired'[Len(fired) + 1] = next
           /\ \A i \in DOMAIN fired : fired[i] \in Nat
<1>1. fired \in Seq(Nat) /\ next \in Nat
    BY DEF TypeOK
<1>2. /\ Append(fired, next) \in Seq(Nat)
      /\ Len(Append(fired, next)) = Len(fired) + 1
      /\ \A i \in 1 .. Len(fired) : Append(fired, next)[i] = fired[i]
      /\ Append(fired, next)[Len(fired) + 1] = next
    BY <1>1, AppendProperties
<1>3. \A i \in 1 .. Len(fired) : fired[i] \in Nat
    BY <1>1, ElementOfSeq
<1> QED
    BY <1>1, <1>2, <1>3, LenProperties

\* Claiming a due row, which moves it on or spends it, keeps the invariant.
LEMMA ClaimKeeps ==
    ASSUME IInv, NEW s \in Sweeps, Claim(s), Due(s)
    PROVE  IInv'
<1>1. /\ sweep[s] # Nobody /\ sweep[s] \in Sweep
      /\ sweep[s].now \in Nat /\ sweep[s].now <= clock
      /\ clock \in Nat /\ next \in Nat
    BY DEF Claim, Listed, IInv, TypeOK, SweepInv, Sweep
<1>2. /\ state = "active" /\ fired' = Append(fired, next)
      /\ sweep' = [sweep EXCEPT ![s].occ = next]
      /\ UNCHANGED <<clock, put, refused, dropped, crashes>>
      /\ IF Recurrence = "once" THEN state' = "done" /\ next' = next
         ELSE next' = NextFire(sweep[s].now) /\ state' = state
    BY DEF Claim, Due
<1>3. next <= clock
    BY <1>1 DEF Due, IInv, OnceInv
<1>4. Recurrence # "once" => next' \in Nat /\ next < next'
    BY <1>1, <1>2, NextFireLater DEF Due
<1>5. /\ fired' \in Seq(Nat) /\ DOMAIN fired' = 1 .. Len(fired) + 1
      /\ DOMAIN fired = 1 .. Len(fired) /\ Len(fired) \in Nat
      /\ \A i \in DOMAIN fired : fired'[i] = fired[i]
      /\ fired'[Len(fired) + 1] = next
      /\ \A i \in DOMAIN fired : fired[i] \in Nat
    BY <1>2, AppendFired DEF IInv
<1>6. \A i \in DOMAIN fired : fired[i] < next
    <2>1. Recurrence = "once" => DOMAIN fired = {}
        <3>1. Recurrence = "once" => fired = <<>>
            BY <1>2 DEF IInv, OnceInv
        <3> QED BY <1>5, <3>1
    <2> QED BY <2>1 DEF IInv, AheadInv
<1>7. /\ sweep' \in [Sweeps -> Sweep \cup {Nobody}]
      /\ \A t \in Sweeps : sweep'[t] # Nobody =>
            sweep[t] # Nobody /\ sweep'[t].now = sweep[t].now
    <2> DEFINE new == [sweep[s] EXCEPT !.occ = next]
    <2>1. new \in Sweep /\ new.now = sweep[s].now
        BY <1>1 DEF Sweep
    <2>2. sweep' = [sweep EXCEPT ![s] = new]
        BY <1>2
    <2> HIDE DEF new
    <2> QED BY <1>1, <2>1, <2>2 DEF IInv, TypeOK
<1>8. TypeOK'
    BY <1>1, <1>2, <1>4, <1>5, <1>7 DEF IInv, TypeOK
<1>9. SweepInv'
    BY <1>2, <1>7 DEF IInv, SweepInv
<1>10. OnceInv'
    BY <1>2, <1>7 DEF IInv, OnceInv
<1>11. AheadInv'
    BY <1>1, <1>2, <1>4, <1>5, <1>6 DEF AheadInv
<1>12. OncePerOccurrence'
    BY <1>1, <1>5, <1>6 DEF IInv, OncePerOccurrence
<1>13. NeverEarly'
    BY <1>1, <1>2, <1>3, <1>5 DEF IInv, NeverEarly
<1> QED
    BY <1>8, <1>9, <1>10, <1>11, <1>12, <1>13 DEF IInv

\* Every step keeps the invariant.
LEMMA NextKeeps ==
    ASSUME IInv, [Next]_vars
    PROVE  IInv'
<1>1. clock \in Nat /\ next \in Nat /\ crashes \in Nat /\ \A i \in DOMAIN fired : fired[i] \in Nat
    <2>1. fired \in Seq(Nat)
        BY DEF IInv, TypeOK
    <2>2. DOMAIN fired = 1 .. Len(fired) /\ \A i \in 1 .. Len(fired) : fired[i] \in Nat
        BY <2>1, LenProperties, ElementOfSeq
    <2> QED BY <2>2 DEF IInv, TypeOK
<1>2. CASE Tick
    BY <1>1, <1>2 DEF Tick, IInv, TypeOK, SweepInv, OnceInv, AheadInv, OncePerOccurrence,
                      NeverEarly, Sweep
<1>3. CASE Cancel
    BY <1>3 DEF Cancel, IInv, TypeOK, SweepInv, OnceInv, AheadInv, OncePerOccurrence,
                NeverEarly
<1>4. ASSUME UNCHANGED <<clock, state, next, fired>>,
             sweep' \in [Sweeps -> Sweep \cup {Nobody}],
             \A s \in Sweeps : sweep'[s] # Nobody =>
                 \/ sweep'[s] = sweep[s]
                 \/ sweep'[s].now = clock /\ next <= clock,
             put' \subseteq Nat, refused' \subseteq Nat, dropped' \subseteq Nat,
             crashes' \in Nat
      PROVE  IInv'
    BY <1>1, <1>4 DEF IInv, TypeOK, SweepInv, OnceInv, AheadInv, OncePerOccurrence, NeverEarly
<1>5. CASE Crash
    <2>1. /\ crashes' = crashes + 1 /\ sweep' = [s \in Sweeps |-> Nobody]
          /\ dropped' = dropped \cup
                            {sweep[s].occ : s \in {t \in Sweeps : Drafting(t)}}
          /\ UNCHANGED <<clock, state, next, fired, put, refused>>
        BY <1>5 DEF Crash
    <2>2. \A s \in Sweeps : Drafting(s) => sweep[s].occ \in Nat
        BY DEF Drafting, IInv, TypeOK, Sweep
    <2>3. dropped' \subseteq Nat /\ put' \subseteq Nat /\ refused' \subseteq Nat
        BY <2>1, <2>2 DEF IInv, TypeOK
    <2> QED BY <1>1, <1>4, <2>1, <2>3 DEF IInv, TypeOK
<1>6. ASSUME NEW s \in Sweeps, List(s)
      PROVE  IInv'
    <2> DEFINE new == [now |-> clock, occ |-> Nobody]
    <2>1. new \in Sweep /\ new.now = clock
        BY <1>1 DEF Sweep
    <2>2. sweep' = [sweep EXCEPT ![s] = new] /\ next <= clock
          /\ UNCHANGED <<clock, state, next, fired, put, refused, dropped, crashes>>
        BY <1>6 DEF List
    <2> HIDE DEF new
    <2>3. /\ sweep' \in [Sweeps -> Sweep \cup {Nobody}]
          /\ \A t \in Sweeps : sweep'[t] = IF t = s THEN new ELSE sweep[t]
        BY <2>1, <2>2 DEF IInv, TypeOK
    <2> QED BY <1>1, <1>4, <2>1, <2>2, <2>3 DEF IInv, TypeOK
<1>7. ASSUME NEW s \in Sweeps, Claim(s)
      PROVE  IInv'
    <2>1. CASE Due(s)
        BY <1>7, <2>1, ClaimKeeps
    <2>2. CASE ~Due(s)
        BY <1>1, <1>4, <1>7, <2>2 DEF Claim, IInv, TypeOK
    <2> QED BY <2>1, <2>2
<1>8. ASSUME NEW s \in Sweeps, NEW posted \in BOOLEAN, Drafted(s, posted)
      PROVE  IInv'
    <2>1. sweep[s].occ \in Nat
        BY <1>8 DEF Drafted, Drafting, IInv, TypeOK, Sweep
    <2> QED BY <1>1, <1>4, <1>8, <2>1 DEF Drafted, IInv, TypeOK
<1>9. CASE UNCHANGED vars
    BY <1>1, <1>4, <1>9 DEF vars, IInv, TypeOK
<1> QED
    BY <1>2, <1>3, <1>5, <1>6, <1>7, <1>8, <1>9 DEF Next

\* The invariant holds of every behaviour.
LEMMA InvariantHolds == Spec => []IInv
<1>1. Init => IInv
    BY InitHolds
<1>2. IInv /\ [Next]_vars => IInv'
    BY NextKeeps
<1> QED
    BY <1>1, <1>2, PTL DEF Spec

\* No occurrence is claimed by two sweeps.
THEOREM OncePerOccurrenceHolds == Spec => []OncePerOccurrence
<1>1. IInv => OncePerOccurrence
    BY DEF IInv
<1> QED
    BY <1>1, InvariantHolds, PTL

\* No occurrence is claimed before its time.
THEOREM NeverEarlyHolds == Spec => []NeverEarly
<1>1. IInv => NeverEarly
    BY DEF IInv
<1> QED
    BY <1>1, InvariantHolds, PTL

\* A cancelled or spent schedule claims nothing any more.
THEOREM CancelIsFinalHolds == Spec => CancelIsFinal
<1>1. Next => (state # "active" => fired' = fired /\ state' = state)
    BY DEF Next, Tick, Cancel, Crash, List, Claim, Due, Drafted
<1>2. [Next]_vars => [(state # "active") => fired' = fired /\ state' = state]_vars
    BY <1>1
<1> QED
    BY <1>2, PTL DEF Spec, CancelIsFinal

\* Between its claim and its card an occurrence is in the hands of a sweep;
\* after it the household has the card, or the refusal or the crash that lost
\* it is known.
THEOREM NoneForgottenHolds == Spec => []NoneForgotten
<1>1. Init => NoneForgotten
    BY EmptySeq DEF Init, NoneForgotten
<1>2. IInv /\ NoneForgotten /\ [Next]_vars => NoneForgotten'
    <2> SUFFICES ASSUME IInv, NoneForgotten, [Next]_vars
                 PROVE  NoneForgotten'
        OBVIOUS
    <2> DEFINE Known == put \cup refused \cup dropped
               Held(n) == \E s \in Sweeps : Drafting(s) /\ sweep[s].occ = n
    <2>1. ASSUME UNCHANGED fired, Known \subseteq Known',
                 \A s \in Sweeps : Drafting(s) =>
                     \/ sweep'[s] = sweep[s] \/ sweep[s].occ \in Known'
          PROVE  NoneForgotten'
        BY <2>1 DEF NoneForgotten, Drafting
    <2>2. CASE Tick \/ Cancel \/ UNCHANGED vars
        BY <2>1, <2>2 DEF Tick, Cancel, vars
    <2>3. CASE Crash
        BY <2>1, <2>3 DEF Crash
    <2>4. ASSUME NEW s \in Sweeps, List(s)
          PROVE  NoneForgotten'
        BY <2>1, <2>4 DEF List, Drafting, IInv, TypeOK
    <2>5. ASSUME NEW s \in Sweeps, NEW posted \in BOOLEAN, Drafted(s, posted)
          PROVE  NoneForgotten'
        BY <2>1, <2>5 DEF Drafted, IInv, TypeOK
    <2>6. ASSUME NEW s \in Sweeps, Claim(s), ~Due(s)
          PROVE  NoneForgotten'
        BY <2>1, <2>6 DEF Claim, Listed, Drafting, IInv, TypeOK
    <2>7. ASSUME NEW s \in Sweeps, Claim(s), Due(s)
          PROVE  NoneForgotten'
        <3>1. /\ fired' = Append(fired, next) /\ Listed(s)
              /\ sweep' = [sweep EXCEPT ![s].occ = next]
              /\ UNCHANGED <<put, refused, dropped>>
            BY <2>7 DEF Claim
        <3>2. /\ DOMAIN fired' = 1 .. Len(fired) + 1
              /\ DOMAIN fired = 1 .. Len(fired) /\ Len(fired) \in Nat
              /\ \A i \in DOMAIN fired : fired'[i] = fired[i]
              /\ fired'[Len(fired) + 1] = next
            BY <3>1, AppendFired DEF IInv
        <3>3. /\ next \in Nat /\ next # Nobody
              /\ sweep[s] \in Sweep /\ sweep[s] # Nobody
            BY <3>1, NobodyAssumption DEF Listed, IInv, TypeOK
        <3> DEFINE new == [sweep[s] EXCEPT !.occ = next]
        <3>4. new \in Sweep /\ new.occ = next
            BY <3>3 DEF Sweep
        <3>5. new # Nobody
            BY <3>4, NobodyAssumption DEF Sweep
        <3>6. \A t \in Sweeps : sweep'[t] = IF t = s THEN new ELSE sweep[t]
            BY <3>1 DEF IInv, TypeOK
        <3> HIDE DEF new
        <3> DEFINE After(n) == \E t \in Sweeps :
                       sweep'[t] # Nobody /\ sweep'[t].occ # Nobody /\ sweep'[t].occ = n
        <3>7. After(next)
            BY <3>3, <3>4, <3>5, <3>6
        <3>8. \A n : Held(n) => After(n)
            BY <3>1, <3>6 DEF Drafting, Listed
        <3>9. ASSUME NEW i \in DOMAIN fired'
              PROVE  fired'[i] \in Known \/ After(fired'[i])
            <4>1. CASE i = Len(fired) + 1
                BY <3>2, <3>7, <4>1
            <4>2. CASE i \in DOMAIN fired
                BY <3>2, <3>8, <4>2 DEF NoneForgotten
            <4> QED BY <3>2, <4>1, <4>2
        <3> QED BY <3>1, <3>9 DEF NoneForgotten, Drafting
    <2> QED
        BY <2>2, <2>3, <2>4, <2>5, <2>6, <2>7 DEF Next
<1> QED
    BY <1>1, <1>2, InvariantHolds, PTL DEF Spec
=============================================================================
