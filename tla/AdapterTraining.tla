--------------------------- MODULE AdapterTraining ---------------------------
(***************************************************************************)
(* Adapters trained on the conversations of a household: the tick of       *)
(* adapter_scheduler.py with training_orchestrator.py, the rows of         *)
(* adapter_registry.py, the proposals of adapter_proposal_service.py and   *)
(* the taps of api/adapters.py.  One household; a run stands for the       *)
(* adapter it yields.                                                      *)
(*                                                                         *)
(* A tick is ONE transaction on a thread: what it writes is locked and     *)
(* seen by nobody until it commits, after every household has had its      *)
(* hours of training; an exception or a restart undoes it.  A tap is a     *)
(* request on a thread: it loads the proposal, asks who may decide,        *)
(* flushes (waiting for rows others hold) and commits.  The inbox cards    *)
(* and llm.interface, which apply and revert write as well, are left out:  *)
(* nothing here reads them.                                                *)
(***************************************************************************)
EXTENDS Naturals, FiniteSets

CONSTANTS
    Runs,        \* trainings
    Threads,     \* requests being handled at the same time
    None,        \* no adapter
    Modes,       \* values adapter.auto_approve_deployments may take
    MinExamples, \* adapter.auto_train_min_examples
    MaxExamples, MaxTroubles  \* bounds

VARIABLES
    fresh,      \* examples newer than last_cutoff_at
    cooling,    \* last_trained_at is less than min_hours_between_runs ago
    isTraining, \* is_training, as committed
    tick,       \* the running tick and the writes of its transaction
    status,     \* adapter_proposals
    overdue,    \* proposals past their expires_at
    active,     \* active_adapter
    replaced,   \* the adapter of the newest row of adapter_history
    request,    \* what a thread is doing
    troubles,   \* restarts, and ticks that raised
    acted,      \* runs proposed or deployed, committed or not
    passed,     \* history: runs whose evaluation said PASS
    approved    \* history: runs deployed by a tap, or by a tick told to

vars == <<fresh, cooling, isTraining, tick, status, acted, overdue, active,
          replaced, request, troubles, passed, approved>>

-----------------------------------------------------------------------------
ASSUME TrainingAssumption ==
    /\ None \notin Runs
    /\ MinExamples \in Nat \ {0} /\ MaxExamples \in Nat /\ MaxTroubles \in Nat
    /\ Modes \subseteq BOOLEAN

Adapters == Runs \cup {None}
Statuses == {"none", "pending", "applied", "dismissed", "expired", "superseded"}

NoTick == [stage |-> "off", auto |-> FALSE, run |-> None, prior |-> None,
           supersedes |-> {}, cut |-> 0]
Ticks == [stage : {"off", "training", "writing", "others"}, auto : BOOLEAN,
          run : Adapters, prior : Adapters, supersedes : SUBSET Runs,
          cut : 0 .. MaxExamples]

\* "to" and "prior": the adapter to deploy and the one loaded as active;
\* "status": what to write to the proposal.
NoRequest == [stage |-> "free", run |-> None, status |-> "none", prior |-> None,
              to |-> None]
Requests == [stage : {"free", "loaded", "reverting", "found", "decided", "flushed"},
             run : Adapters, status : Statuses, prior : Adapters, to : Adapters]

TypeOK ==
    /\ fresh \in 0 .. MaxExamples /\ cooling \in BOOLEAN /\ isTraining \in BOOLEAN
    /\ tick \in Ticks
    /\ status \in [Runs -> Statuses]
    /\ overdue \subseteq Runs
    /\ active \in Adapters /\ replaced \in Adapters
    /\ request \in [Threads -> Requests]
    /\ troubles \in 0 .. MaxTroubles
    /\ acted \subseteq Runs /\ passed \subseteq Runs /\ approved \subseteq Runs

Init ==
    /\ fresh = 0 /\ cooling = FALSE /\ isTraining = FALSE
    /\ tick = NoTick
    /\ status = [r \in Runs |-> "none"]
    /\ overdue = {}
    /\ active = None /\ replaced = None
    /\ request = [t \in Threads |-> NoRequest]
    /\ troubles = 0
    /\ acted = {} /\ passed = {} /\ approved = {}

-----------------------------------------------------------------------------
(* Rows held by a transaction that has not committed.                      *)

TickHolds(row) ==
    /\ tick.stage = "others"
    /\ row \in tick.supersedes \/ (row = "active" /\ tick.auto /\ tick.run # None)

RequestHolds(row) ==
    \E t \in Threads :
        /\ request[t].stage = "flushed"
        /\ \/ row = request[t].run /\ request[t].status # "none"
           \/ row = "active" /\ request[t].to # None

Free(row) == ~TickHolds(row) /\ ~RequestHolds(row)

-----------------------------------------------------------------------------
(* The tick.                                                               *)

TickOnly == UNCHANGED <<overdue, request>>

\* Faulty: the lock is committed when it is taken.
AcquiresAndCommits(auto) ==
    /\ tick.stage = "off"
    /\ ~isTraining /\ ~cooling /\ fresh >= MinExamples
    /\ tick' = [NoTick EXCEPT !.stage = "training", !.auto = auto]
    /\ isTraining' = TRUE
    /\ UNCHANGED <<fresh, cooling, status, acted, active, replaced, troubles,
                   passed, approved>> /\ TickOnly

\* Not in training, not cooling down, enough examples; the lock is taken,
\* inside the tick's transaction.
Acquires(auto) ==
    /\ tick.stage = "off"
    /\ ~isTraining /\ ~cooling /\ fresh >= MinExamples
    /\ tick' = [NoTick EXCEPT !.stage = "training", !.auto = auto]
    /\ UNCHANGED <<fresh, cooling, isTraining, status, acted, active, replaced,
                   troubles, passed, approved>> /\ TickOnly

\* The orchestrator raises: the lock is released and nothing else is written.
Raises ==
    /\ tick.stage = "training"
    /\ troubles < MaxTroubles /\ troubles' = troubles + 1
    /\ tick' = [tick EXCEPT !.stage = "others"]
    /\ UNCHANGED <<fresh, cooling, isTraining, status, acted, active, replaced,
                   passed, approved>> /\ TickOnly

\* It could not enqueue, or the training failed: the cutoff moves to now all
\* the same, past every example there is, trained on or not.
TrainingFails ==
    /\ tick.stage = "training"
    /\ tick' = [tick EXCEPT !.stage = "others", !.cut = fresh]
    /\ UNCHANGED <<fresh, cooling, isTraining, status, acted, active, replaced,
                   troubles, passed, approved>> /\ TickOnly

\* Faulty: a missing verdict passes.
NotFailed(verdict) == verdict # "FAIL"

\* Only a PASS is acted on; a missing verdict is none.
ActsOn(verdict) == verdict = "PASS"

\* Faulty: earlier proposals stay.
SupersedesNone == {}

\* _supersede_prior_pending.
PriorPending == {r \in Runs : status[r] = "pending"}

\* It was trained and evaluated: _handle_outcome takes the time and loads the
\* rows it is about to replace.
Evaluated(run, verdict) ==
    /\ tick.stage = "training" /\ run \notin acted
    /\ passed' = IF verdict = "PASS" THEN passed \cup {run} ELSE passed
    /\ IF ActsOn(verdict)
       THEN /\ tick' = [tick EXCEPT !.stage = "writing", !.run = run, !.cut = fresh,
                                    !.prior = active,
                                    !.supersedes = IF tick.auto THEN {}
                                                   ELSE PriorPending]
            /\ acted' = acted \cup {run}
       ELSE /\ tick' = [tick EXCEPT !.stage = "others", !.cut = fresh]
            /\ UNCHANGED acted
    /\ UNCHANGED <<fresh, cooling, isTraining, status, active, replaced, troubles,
                   approved>> /\ TickOnly

\* The flush of deploy, or of create, once nobody holds the rows.  A second
\* first deployment is refused by the database and ends the tick.
Writes ==
    /\ tick.stage = "writing"
    /\ \A r \in tick.supersedes : Free(r)
    /\ tick.auto => Free("active")
    /\ IF tick.auto /\ tick.prior = None /\ active # None
       THEN tick' = NoTick
       ELSE tick' = [tick EXCEPT !.stage = "others"]
    /\ UNCHANGED <<fresh, cooling, isTraining, status, acted, active, replaced, troubles,
                   passed, approved>> /\ TickOnly

\* deploy: a column is written if it differs from what was loaded.  replaced_at
\* is the time of the call: if another deployment was committed in between,
\* either row may be the newest.
Deploys(run, prior) ==
    /\ active' = IF run = prior THEN active ELSE run
    /\ replaced' \in CASE prior = None -> {replaced}
                       [] prior = active -> {prior}
                       [] OTHER -> {prior, replaced}

\* The other households are done: all is committed.
TickCommits ==
    /\ tick.stage = "others"
    /\ isTraining' = FALSE
    /\ fresh' = fresh - tick.cut
    /\ cooling' = (cooling \/ tick.cut > 0)
    /\ IF tick.auto /\ tick.run # None
       THEN Deploys(tick.run, tick.prior) /\ approved' = approved \cup {tick.run}
       ELSE UNCHANGED <<active, replaced, approved>>
    /\ status' = [r \in Runs |-> CASE r \in tick.supersedes -> "superseded"
                                   [] r = tick.run /\ ~tick.auto -> "pending"
                                   [] OTHER -> status[r]]
    /\ tick' = NoTick
    /\ UNCHANGED <<acted, troubles, passed>> /\ TickOnly

\* Another household's step raises out of the tick: all is rolled back.
TickFails ==
    /\ tick.stage # "off"
    /\ troubles < MaxTroubles /\ troubles' = troubles + 1
    /\ tick' = NoTick
    /\ UNCHANGED <<fresh, cooling, isTraining, status, acted, active, replaced,
                   passed, approved>> /\ TickOnly

-----------------------------------------------------------------------------
(* Taps.                                                                   *)

TapOnly == UNCHANGED <<fresh, cooling, isTraining, tick, acted, overdue,
                       troubles, passed>>
RowsKept == UNCHANGED <<status, active, replaced, approved>>

Goes(t, r) == request' = [request EXCEPT ![t] = r]

\* apply_proposal or dismiss_proposal finds the proposal pending.  The session
\* keeps what it loaded while the user's role is asked for.
Loads(t, run, decision) ==
    /\ request[t] = NoRequest
    /\ status[run] = "pending"
    /\ Goes(t, [NoRequest EXCEPT !.stage = "loaded", !.run = run, !.status = decision])
    /\ RowsKept /\ TapOnly

\* apply: expired, or deployed over what is active now.  dismiss looks at
\* nothing else.
Decides(t) ==
    /\ request[t].stage = "loaded"
    /\ LET r == request[t]
           d == [r EXCEPT !.stage = "decided"]
       IN  Goes(t, CASE r.status = "dismissed" -> d
                     [] r.run \in overdue -> [d EXCEPT !.status = "expired"]
                     [] OTHER -> [d EXCEPT !.prior = active, !.to = r.run])
    /\ RowsKept /\ TapOnly

\* revert_deployment of the adapter that is active.
Reverts(t, run) ==
    /\ request[t] = NoRequest
    /\ active = run
    /\ Goes(t, [NoRequest EXCEPT !.stage = "reverting"])
    /\ RowsKept /\ TapOnly

\* rollback: back to the newest replaced one, if any ...
Finds(t) ==
    /\ request[t].stage = "reverting"
    /\ Goes(t, IF replaced = None THEN NoRequest
               ELSE [request[t] EXCEPT !.stage = "found", !.to = replaced])
    /\ RowsKept /\ TapOnly

\* ... over what is active by then.
Restores(t) ==
    /\ request[t].stage = "found"
    /\ Goes(t, [request[t] EXCEPT !.stage = "decided", !.prior = active])
    /\ RowsKept /\ TapOnly

\* The flush waits for rows others hold.  A second first deployment is
\* refused, and the request fails.
Flushes(t) ==
    /\ LET r == request[t]
       IN  /\ r.stage = "decided"
           /\ r.status # "none" => Free(r.run)
           /\ r.to # None => Free("active")
           /\ Goes(t, IF r.to # None /\ r.prior = None /\ active # None
                      THEN NoRequest ELSE [r EXCEPT !.stage = "flushed"])
    /\ RowsKept /\ TapOnly

Commits(t) ==
    /\ request[t].stage = "flushed"
    /\ LET r == request[t]
       IN  /\ IF r.to = None THEN UNCHANGED <<active, replaced>> ELSE Deploys(r.to, r.prior)
           /\ IF r.status = "none" THEN UNCHANGED status
              ELSE status' = [status EXCEPT ![r.run] = r.status]
           /\ approved' = IF r.status = "applied" THEN approved \cup {r.run} ELSE approved
    /\ Goes(t, NoRequest)
    /\ TapOnly

-----------------------------------------------------------------------------
(* Around them.                                                            *)

\* A conversation leaves an example.
Arrives ==
    /\ fresh < MaxExamples /\ fresh' = fresh + 1
    /\ UNCHANGED <<cooling, isTraining, tick, status, acted, overdue, active,
                   replaced, request, troubles, passed, approved>>

CoolsDown ==
    /\ cooling /\ cooling' = FALSE
    /\ UNCHANGED <<fresh, isTraining, tick, status, acted, overdue, active,
                   replaced, request, troubles, passed, approved>>

\* expires_at passes, of a proposal somebody may still decide.
Expires(run) ==
    /\ status[run] = "pending" /\ run \notin overdue
    /\ overdue' = overdue \cup {run}
    /\ UNCHANGED <<fresh, cooling, isTraining, tick, status, acted, active,
                   replaced, request, troubles, passed, approved>>

\* A restart: open transactions are rolled back.
Crash ==
    /\ troubles < MaxTroubles /\ troubles' = troubles + 1
    /\ tick' = NoTick
    /\ request' = [t \in Threads |-> NoRequest]
    /\ UNCHANGED <<fresh, cooling, isTraining, status, acted, overdue, active,
                   replaced, passed, approved>>

-----------------------------------------------------------------------------
TickStep ==
    \/ \E auto \in Modes : Acquires(auto)
    \/ TrainingFails
    \/ \E run \in Runs, verdict \in {"PASS", "FAIL", "MISSING"} : Evaluated(run, verdict)
    \/ Writes \/ TickCommits

RequestStep(t) == Decides(t) \/ Finds(t) \/ Restores(t) \/ Flushes(t) \/ Commits(t)

Next ==
    \/ TickStep \/ Raises \/ TickFails
    \/ \E t \in Threads, run \in Runs :
           \/ \E decision \in {"applied", "dismissed"} : Loads(t, run, decision)
           \/ Reverts(t, run)
    \/ \E t \in Threads : RequestStep(t)
    \/ Arrives \/ CoolsDown \/ Crash
    \/ \E run \in Runs : Expires(run)

Spec == Init /\ [][Next]_vars

\* The loop ticks on and every training ends (enqueue_timeout_seconds); the
\* handlers of requests run to their end; rows are granted in turn.
Fairness ==
    /\ WF_vars(TickStep) /\ SF_vars(Writes)
    /\ \A t \in Threads : WF_vars(RequestStep(t))

FairSpec == Spec /\ Fairness

-----------------------------------------------------------------------------
(* Properties.                                                             *)

\* "Only one outstanding proposal at a time": whatever taps do while a tick
\* is training, supersedes and commits.
OnePending == Cardinality({r \in Runs : status[r] = "pending"}) <= 1

\* An adapter that is live, or that a revert would make live, passed its
\* evaluation and was deployed by a tap, or by a tick told to deploy.
LiveWasApproved == {active, replaced} \ {None} \subseteq passed \cap approved

TrainingEnds ==
    \/ TrainingFails
    \/ \E run \in Runs, verdict \in {"PASS", "FAIL", "MISSING"} : Evaluated(run, verdict)

\* Training never dies out: as long as there are again and again enough new
\* examples and no cooldown, trainings are run to their end again and again,
\* whatever restarts, ticks that raised and transactions rolled back have left
\* behind.  It does not say that they succeed: a training that failed moves the
\* cutoff past its examples as well.
TrainingGoesOn ==
    []<>(fresh >= MinExamples /\ ~cooling) => []<><<TrainingEnds>>_vars

\* "Mark the proposal dismissed.  No adapter state changes": what is live was
\* not dismissed, nor superseded.
LiveIsApplied == active # None /\ status[active] # "none" => status[active] = "applied"
=============================================================================
