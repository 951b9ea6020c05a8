------------------------ MODULE ProposedAction_proofs ------------------------
(***************************************************************************)
(* Proofs about ProposedAction for every number of taps and restarts.      *)
(***************************************************************************)
EXTENDS ProposedAction, TLAPS

\* Rows, tasks and requests keep step.
RowsInv ==
    \A t \in Taps :
        /\ node[t] = "succeeded" => ran[t] > 0
        /\ nodeRow[t] = "completed" => node[t] = "succeeded"
        /\ posting[t] # "nobody" => nodeRow[t] # "none"
        /\ task[t] # "none" => tapRow[t] # "none"
        /\ task[t] = "queued" => nodeRow[t] = "none"
        /\ task[t] = "waiting" => nodeRow[t] # "none"

\* A row that is being polled is one the app knows: no poll expires the row a
\* dispatcher has created.
PollingInv ==
    \A t \in Taps :
        /\ polling = <<"tap", t>> => tapRow[t] # "none"
        /\ polling = <<"node", t>> => tapRow[t] = "none" /\ nodeRow[t] # "none"

\* Whatever says "done" was said after a row had completed ...
DoneInv ==
    \A t \in Taps :
        tapRow[t] = "completed" \/ card[t] # "none" \/ task[t] \in {"done", "already"} =>
            AlreadyCompleted

\* ... which stays completed for whoever taps afterwards.
LateInv ==
    \A t \in late :
        tapRow[t] # "none" /\ AlreadyCompleted /\ (t \notin blind => nodeRow[t] = "none")

IInv == TypeOK /\ IssuedIsFresh /\ RowsInv /\ PollingInv /\ DoneInv /\ LateInv

USE TapsAssumption

\* A completed row with the key of the proposal stays one.
CompletedStays ==
    \A t \in Taps :
        tapRow[t] # "none" /\ nodeRow[t] = "completed" =>
            tapRow'[t] # "none" /\ nodeRow'[t] = "completed"

LEMMA AlreadyCompletedStays ==
    ASSUME CompletedStays, AlreadyCompleted
    PROVE  AlreadyCompleted'
BY DEF CompletedStays, AlreadyCompleted

LEMMA RowsAre ==
    ASSUME NEW r \in Rows
    PROVE  \E t \in Taps : r = <<"tap", t>> \/ r = <<"node", t>>
BY DEF Rows

LEMMA InitHolds == Init => IInv
<1> SUFFICES ASSUME Init
             PROVE  IInv
    OBVIOUS
<1>1. TypeOK
    BY DEF Init, TypeOK, Statuses, Loaded
<1>2. IssuedIsFresh /\ RowsInv /\ DoneInv /\ LateInv
    BY DEF Init, IssuedIsFresh, RowsInv, DoneInv, LateInv
<1>3. PollingInv
    BY DEF Init, PollingInv, Rows
<1> QED
    BY <1>1, <1>2, <1>3 DEF IInv

-----------------------------------------------------------------------------
(* Taps and their handlers.                                                *)

LEMMA TapKeeps ==
    ASSUME IInv, NEW t \in Taps, Tap(t)
    PROVE  IInv'
<1>1. TypeOK'
    BY DEF Tap, IInv, TypeOK, Statuses
<1>2. IssuedIsFresh'
    BY DEF Tap, IInv, IssuedIsFresh
<1>3. RowsInv' /\ PollingInv'
    BY DEF Tap, IInv, TypeOK, RowsInv, PollingInv
<1>4. CompletedStays
    BY DEF Tap, IInv, TypeOK, CompletedStays
<1>5. DoneInv'
    BY <1>4, AlreadyCompletedStays DEF Tap, IInv, TypeOK, DoneInv
<1>6. (\E u \in Taps : tapRow[u] = "completed") => AlreadyCompleted
    BY DEF IInv, DoneInv
<1>7. LateInv'
    BY <1>4, <1>6, AlreadyCompletedStays DEF Tap, IInv, TypeOK, LateInv
<1> QED
    BY <1>1, <1>2, <1>3, <1>5, <1>7 DEF IInv

LEMMA TapDirectKeeps ==
    ASSUME IInv, NEW t \in Taps, TapDirect(t)
    PROVE  IInv'
<1>1. TypeOK'
    BY DEF TapDirect, CreateNodeJob, IInv, TypeOK, Statuses
<1>2. IssuedIsFresh'
    BY DEF TapDirect, CreateNodeJob, IInv, TypeOK, IssuedIsFresh
<1>3. RowsInv' /\ PollingInv'
    BY DEF TapDirect, CreateNodeJob, IInv, TypeOK, RowsInv, PollingInv
<1>4. CompletedStays
    BY DEF TapDirect, CreateNodeJob, IInv, TypeOK, CompletedStays
<1>5. DoneInv' /\ LateInv'
    BY <1>4, AlreadyCompletedStays
       DEF TapDirect, CreateNodeJob, IInv, TypeOK, DoneInv, LateInv
<1> QED
    BY <1>1, <1>2, <1>3, <1>5 DEF IInv

\* A handler ends without having created a row.
LEMMA HandlerEnds ==
    ASSUME IInv, NEW t \in Taps, NEW status \in {"completed", "failed"},
           NEW stage \in {"done", "already", "ended"},
           task[t] # "none",
           tapRow' = [tapRow EXCEPT ![t] = status], TaskGoes(t, stage),
           UNCHANGED <<nodeRow, issued, card, blind>>, HandlerOnly,
           status = "completed" => AlreadyCompleted,
           stage # "ended" => AlreadyCompleted
    PROVE  IInv'
<1>1. TypeOK'
    BY DEF HandlerOnly, TaskGoes, IInv, TypeOK, Statuses
<1>2. IssuedIsFresh'
    BY DEF HandlerOnly, IInv, IssuedIsFresh
<1>3. RowsInv' /\ PollingInv'
    BY DEF HandlerOnly, TaskGoes, IInv, TypeOK, RowsInv, PollingInv
<1>4. CompletedStays
    BY DEF IInv, TypeOK, CompletedStays
<1>5. DoneInv'
    BY <1>4, AlreadyCompletedStays DEF HandlerOnly, TaskGoes, IInv, TypeOK, DoneInv
<1>6. LateInv'
    BY <1>4, AlreadyCompletedStays DEF HandlerOnly, IInv, TypeOK, LateInv
<1> QED
    BY <1>1, <1>2, <1>3, <1>5, <1>6 DEF IInv

\* The row a handler creates is its own, and of no late tap that looked.
LEMMA DispatchesKeeps ==
    ASSUME IInv, NEW t \in Taps, Dispatches(t)
    PROVE  IInv'
<1>1. CASE /\ AlreadyCompleted
           /\ RecordSuccess(t, "already") /\ UNCHANGED <<nodeRow, issued, blind>>
    BY <1>1, HandlerEnds DEF Dispatches, RecordSuccess
<1>2. CASE /\ CreateNodeJob(t) /\ TaskGoes(t, "waiting") /\ UNCHANGED tapRow
           /\ blind' = IF AlreadyCompleted THEN blind \cup {t} ELSE blind
    <2>1. /\ task[t] = "queued" /\ nodeRow[t] = "none"
          /\ ~AlreadyCompleted => late = {}
          /\ UNCHANGED card /\ HandlerOnly
        BY <1>2 DEF Dispatches, IInv, RowsInv, LateInv
    <2>2. TypeOK'
        BY <1>2, <2>1 DEF CreateNodeJob, TaskGoes, HandlerOnly, IInv, TypeOK, Statuses
    <2>3. IssuedIsFresh'
        BY <1>2, <2>1 DEF CreateNodeJob, HandlerOnly, IInv, TypeOK, IssuedIsFresh
    <2>4. RowsInv' /\ PollingInv'
        BY <1>2, <2>1
           DEF CreateNodeJob, TaskGoes, HandlerOnly, IInv, TypeOK, RowsInv, PollingInv
    <2>5. CompletedStays
        BY <1>2, <2>1 DEF CreateNodeJob, IInv, TypeOK, CompletedStays
    <2>6. DoneInv'
        BY <1>2, <2>1, <2>5, AlreadyCompletedStays DEF TaskGoes, IInv, TypeOK, DoneInv
    <2>7. LateInv'
        <3>1. CASE ~AlreadyCompleted
            BY <2>1, <3>1 DEF HandlerOnly, LateInv
        <3>2. CASE AlreadyCompleted
            BY <1>2, <2>1, <2>5, <3>2, AlreadyCompletedStays
               DEF CreateNodeJob, HandlerOnly, IInv, TypeOK, LateInv
        <3> QED BY <3>1, <3>2
    <2> QED
        BY <2>2, <2>3, <2>4, <2>6, <2>7 DEF IInv
<1> QED
    BY <1>1, <1>2 DEF Dispatches

LEMMA HandlerKeeps ==
    ASSUME IInv, NEW t \in Taps, Handler(t)
    PROVE  IInv'
<1>1. CASE Refuses(t)
    BY <1>1, HandlerEnds DEF Refuses, RecordFailure
<1>2. CASE Dispatches(t)
    BY <1>2, DispatchesKeeps
<1>3. CASE Hears(t)
    <2>1. task[t] = "waiting" => tapRow[t] # "none"
        BY DEF IInv, RowsInv
    <2>2. CASE nodeRow[t] = "completed" /\ RecordSuccess(t, "done")
        <3>1. AlreadyCompleted
            BY <1>3, <2>1, <2>2 DEF Hears, AlreadyCompleted
        <3> QED
            BY <1>3, <2>2, <3>1, HandlerEnds DEF Hears, RecordSuccess
    <2>3. CASE nodeRow[t] = "failed" /\ RecordFailure(t)
        BY <1>3, <2>3, HandlerEnds DEF Hears, RecordFailure
    <2> QED
        BY <1>3, <2>2, <2>3 DEF Hears
<1>4. CASE GivesUp(t)
    BY <1>4, HandlerEnds DEF GivesUp, RecordFailure
<1>5. CASE \E posted \in BOOLEAN : PostsCard(t, posted)
    <2>1. /\ task[t] \in {"done", "already"} /\ TaskGoes(t, "ended")
          /\ card' \in {card, [card EXCEPT ![t] = task[t]]}
          /\ UNCHANGED <<tapRow, nodeRow, issued, blind>> /\ HandlerOnly
        BY <1>5 DEF PostsCard
    <2>2. TypeOK'
        BY <2>1 DEF TaskGoes, HandlerOnly, IInv, TypeOK
    <2>3. IssuedIsFresh' /\ RowsInv' /\ PollingInv'
        BY <2>1 DEF TaskGoes, HandlerOnly, IInv, TypeOK, IssuedIsFresh, RowsInv, PollingInv
    <2>4. AlreadyCompleted /\ AlreadyCompleted'
        BY <2>1 DEF IInv, DoneInv, AlreadyCompleted
    <2>5. DoneInv' /\ LateInv'
        BY <2>1, <2>4 DEF HandlerOnly, IInv, DoneInv, LateInv
    <2> QED
        BY <2>2, <2>3, <2>5 DEF IInv
<1> QED
    BY <1>1, <1>2, <1>3, <1>4, <1>5 DEF Handler

-----------------------------------------------------------------------------
(* The node.                                                               *)

\* What a step of the node may change.
LEMMA NodeKeeps ==
    ASSUME IInv, NEW n \in Taps, NodeStep(n)
    PROVE  IInv'
<1>1. TypeOK
    BY DEF IInv
<1>2. /\ TypeOK' /\ IssuedIsFresh'
      /\ \A t \in Taps :
             /\ node'[t] = "succeeded" => ran'[t] > 0
             /\ nodeRow'[t] = "completed" => node'[t] = "succeeded"
             /\ posting'[t] # "nobody" => nodeRow'[t] # "none"
             /\ (nodeRow'[t] = "none") = (nodeRow[t] = "none")
             /\ nodeRow[t] = "completed" => nodeRow'[t] = "completed"
      /\ UNCHANGED <<tapRow, task, polling, card, late, blind>>
    <2>1. CASE Verified(n)
        BY <1>1, <2>1 DEF Verified, NodeOnly, IInv, TypeOK, IssuedIsFresh, RowsInv
    <2>2. CASE Fetches(n)
        BY <1>1, <2>2 DEF Fetches, NodeOnly, IInv, TypeOK, Statuses, IssuedIsFresh, RowsInv
    <2>3. CASE Runs(n)
        BY <1>1, <2>3 DEF Runs, NodeOnly, IInv, TypeOK, IssuedIsFresh, RowsInv
    <2>4. CASE PostLoads(n)
        BY <1>1, <2>4 DEF PostLoads, NodeOnly, IInv, TypeOK, Loaded, IssuedIsFresh, RowsInv
    <2>5. CASE PostWrites(n)
        BY <1>1, <2>5 DEF PostWrites, NodeOnly, IInv, TypeOK, Statuses, Loaded,
                          IssuedIsFresh, RowsInv
    <2> QED
        BY <2>1, <2>2, <2>3, <2>4, <2>5 DEF NodeStep
<1>3. RowsInv' /\ PollingInv'
    BY <1>2 DEF IInv, RowsInv, PollingInv
<1>4. CompletedStays
    BY <1>2 DEF CompletedStays
<1>5. DoneInv' /\ LateInv'
    BY <1>1, <1>2, <1>4, AlreadyCompletedStays DEF IInv, TypeOK, DoneInv, LateInv
<1> QED
    BY <1>2, <1>3, <1>5 DEF IInv

-----------------------------------------------------------------------------
(* Polls, time and restarts.                                               *)

LEMMA PollKeeps ==
    ASSUME IInv, NEW r \in Rows, PollLoads(r) \/ PollAnswers(r)
    PROVE  IInv'
<1>1. CASE PollLoads(r)
    <2>1. /\ polling' = r
          /\ UNCHANGED <<tapRow, nodeRow, overdue, task, issued, node, posting, card,
                         crashes, ran, late, blind>>
        BY <1>1 DEF PollLoads, PollOnly
    <2>2. PollingInv'
        BY <1>1, <2>1 DEF PollLoads, Polled, RowOf, PollingInv
    <2> QED
        BY <2>1, <2>2 DEF IInv, TypeOK, IssuedIsFresh, RowsInv, DoneInv, LateInv,
                          AlreadyCompleted
<1>2. CASE PollAnswers(r)
    <2>1. /\ polling = r /\ polling' = NoRow
          /\ UNCHANGED <<overdue, task, issued, node, posting, card, crashes, ran, late, blind>>
        BY <1>2 DEF PollAnswers, PollOnly
    <2>2. PICK t \in Taps : r = <<"tap", t>> \/ r = <<"node", t>>
        BY RowsAre
    <2>3. CASE UNCHANGED <<tapRow, nodeRow>>
        BY <2>1, <2>3 DEF IInv, TypeOK, IssuedIsFresh, RowsInv, DoneInv, LateInv,
                          AlreadyCompleted, PollingInv, Rows
    <2>4. CASE r = <<"tap", t>> /\ tapRow' = [tapRow EXCEPT ![t] = "expired"]
               /\ UNCHANGED nodeRow
        <3>1. tapRow[t] # "none"
            BY <2>1, <2>4 DEF IInv, PollingInv
        <3>2. TypeOK' /\ IssuedIsFresh' /\ RowsInv'
            BY <2>1, <2>4, <3>1 DEF IInv, TypeOK, Statuses, IssuedIsFresh, RowsInv
        <3>3. CompletedStays
            BY <2>4 DEF CompletedStays, IInv, TypeOK
        <3>4. DoneInv' /\ LateInv'
            BY <2>1, <2>4, <3>3, AlreadyCompletedStays
               DEF IInv, TypeOK, DoneInv, LateInv
        <3>5. PollingInv'
            BY <2>1 DEF PollingInv, Rows
        <3> QED
            BY <3>2, <3>4, <3>5 DEF IInv
    <2>5. CASE r = <<"node", t>> /\ nodeRow' = [nodeRow EXCEPT ![t] = "expired"]
               /\ UNCHANGED tapRow
        <3>1. tapRow[t] = "none" /\ nodeRow[t] # "none"
            BY <2>1, <2>5 DEF IInv, PollingInv
        <3>2. TypeOK' /\ IssuedIsFresh' /\ RowsInv'
            BY <2>1, <2>5, <3>1 DEF IInv, TypeOK, Statuses, IssuedIsFresh, RowsInv
        <3>3. CompletedStays
            BY <2>5, <3>1 DEF CompletedStays, IInv, TypeOK
        <3>4. DoneInv' /\ LateInv'
            BY <2>1, <2>5, <3>1, <3>3, AlreadyCompletedStays
               DEF IInv, TypeOK, DoneInv, LateInv
        <3>5. PollingInv'
            BY <2>1 DEF PollingInv, Rows
        <3> QED
            BY <3>2, <3>4, <3>5 DEF IInv
    <2> QED
        BY <1>2, <2>2, <2>3, <2>4, <2>5 DEF PollAnswers, SetRow
<1> QED
    BY <1>1, <1>2

LEMMA LapsesKeeps ==
    ASSUME IInv, NEW r \in Rows, Lapses(r)
    PROVE  IInv'
BY DEF Lapses, IInv, TypeOK, IssuedIsFresh, RowsInv, PollingInv, DoneInv, LateInv,
       AlreadyCompleted

LEMMA CrashKeeps ==
    ASSUME IInv, Crash
    PROVE  IInv'
<1>1. TypeOK'
    BY DEF Crash, IInv, TypeOK, Loaded
<1>2. IssuedIsFresh' /\ RowsInv'
    BY DEF Crash, IInv, TypeOK, IssuedIsFresh, RowsInv
<1>3. PollingInv'
    BY DEF Crash, PollingInv, Rows
<1>4. DoneInv' /\ LateInv'
    BY DEF Crash, IInv, DoneInv, LateInv, AlreadyCompleted
<1> QED
    BY <1>1, <1>2, <1>3, <1>4 DEF IInv

LEMMA StepKeeps == IInv /\ [Next]_vars => IInv'
<1> SUFFICES ASSUME IInv, [Next]_vars
             PROVE  IInv'
    OBVIOUS
<1>1. CASE UNCHANGED vars
    BY <1>1 DEF vars, IInv, TypeOK, IssuedIsFresh, RowsInv, PollingInv, DoneInv, LateInv,
                AlreadyCompleted
<1> QED
    BY <1>1, TapKeeps, TapDirectKeeps, HandlerKeeps, NodeKeeps, PollKeeps, LapsesKeeps,
       CrashKeeps
       DEF Next

-----------------------------------------------------------------------------
\* Rows, tasks and requests are well formed.
THEOREM TypeCorrect == Spec => []TypeOK
<1>1. IInv => TypeOK
    BY DEF IInv
<1> QED
    BY <1>1, InitHolds, StepKeeps, PTL DEF Spec

\* A command is run at most once, delivered twice or late, and across restarts.
THEOREM CommandRunsOnceHolds == Spec => []CommandRunsOnce
<1>1. IInv => CommandRunsOnce
    BY DEF IInv, IssuedIsFresh, CommandRunsOnce
<1> QED
    BY <1>1, InitHolds, StepKeeps, PTL DEF Spec

\* Whoever is told that a proposal was carried out has a node that ran it.
THEOREM ToldDoneWasDoneHolds == Spec => []ToldDoneWasDone
<1>1. IInv => ToldDoneWasDone
    BY DEF IInv, DoneInv, AlreadyCompleted, RowsInv, ToldDoneWasDone
<1> QED
    BY <1>1, InitHolds, StepKeeps, PTL DEF Spec

\* A tap after one has completed runs nothing, however rows are overwritten
\* in between, if its look for the completed row was answered.
THEOREM TapAfterDoneHolds == Spec => []TapAfterDoneRunsNothing
<1>1. IInv => TapAfterDoneRunsNothing
    BY DEF IInv, TypeOK, LateInv, IssuedIsFresh, TapAfterDoneRunsNothing
<1> QED
    BY <1>1, InitHolds, StepKeeps, PTL DEF Spec
=============================================================================
