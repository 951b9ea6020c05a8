-------------------------- MODULE NodeUpdate_proofs --------------------------
(***************************************************************************)
(* Proofs about NodeUpdate for every number of tasks, versions and         *)
(* threads: rows are well formed, and no node fakes a completed update.    *)
(***************************************************************************)
EXTENDS NodeUpdate, TLAPS

\* What a heartbeat carries, and what a request is about to write, was true
\* when it was loaded, and stays true: what has run has run, and a task that
\* was created keeps its target.
ReportsRan ==
    /\ version \in ran
    /\ \A h \in Threads : request[h].op = "heartbeat" => request[h].reports \in ran

WritesCreated ==
    \A h \in Threads :
        request[h].op \in {"cancel", "reconcile", "dispatch"} =>
            /\ request[h].task \in Tasks
            /\ state[request[h].task] # "none"
            /\ request[h].write # "none"
            /\ request[h].write = "success" => target[request[h].task] \in ran

IInv == TypeOK /\ ReportsRan /\ WritesCreated /\ SuccessWasRun

USE UpdateAssumption

LEMMA InitHolds == Init => IInv
<1> SUFFICES ASSUME Init
             PROVE  IInv
    OBVIOUS
<1>1. Idle \in Requests
    BY DEF Idle, Doing, Requests, States, Open, Terminal
<1>2. TypeOK
    BY <1>1 DEF Init, TypeOK, States
<1> QED
    BY <1>2 DEF Init, IInv, ReportsRan, WritesCreated, SuccessWasRun, Idle, Doing

\* The shape of what a thread takes up.
LEMMA GoesKeepsType ==
    ASSUME TypeOK, NEW h \in Threads, NEW r \in Requests, Goes(h, r)
    PROVE  /\ request' \in [Threads -> Requests]
           /\ request'[h] = r
           /\ \A g \in Threads : g # h => request'[g] = request[g]
BY DEF TypeOK, Goes

\* A thread goes on, and neither the tasks nor the node change.
LEMMA RequestKeeps ==
    ASSUME IInv, NEW h \in Threads, NEW r \in Requests, Goes(h, r),
           UNCHANGED <<state, target, old, version, install, ran>>,
           sweep' \subseteq Tasks,
           r.op = "heartbeat" => r.reports \in ran,
           r.op \in {"cancel", "reconcile", "dispatch"} =>
               /\ r.task \in Tasks /\ state[r.task] # "none" /\ r.write # "none"
               /\ r.write = "success" => target[r.task] \in ran
    PROVE  IInv'
<1>1. TypeOK
    BY DEF IInv
<1>2. /\ request' \in [Threads -> Requests]
      /\ request'[h] = r
      /\ \A g \in Threads : g # h => request'[g] = request[g]
    BY <1>1, GoesKeepsType
<1>3. TypeOK'
    BY <1>1, <1>2 DEF TypeOK
<1>4. ReportsRan'
    BY <1>2 DEF IInv, ReportsRan
<1>5. WritesCreated'
    BY <1>2 DEF IInv, WritesCreated
<1>6. SuccessWasRun'
    BY DEF IInv, SuccessWasRun
<1> QED
    BY <1>3, <1>4, <1>5, <1>6 DEF IInv

LEMMA IdleIsRequest ==
    /\ Idle \in Requests /\ Idle.op = "none"
BY DEF Idle, Doing, Requests, States, Open, Terminal

LEMMA AsksUpdateKeeps ==
    ASSUME IInv, NEW h \in Threads, AsksUpdate(h)
    PROVE  IInv'
<1> DEFINE r == Doing("create", 0, "none")
<1>1. r \in Requests /\ r.op = "create"
    BY DEF Idle, Doing, Requests, States, Open, Terminal
<1>2. Goes(h, r) /\ UNCHANGED <<state, target, old, sweep, version, install, ran>>
    BY DEF AsksUpdate, NodeKept
<1> HIDE DEF r
<1> QED
    BY <1>1, <1>2, RequestKeeps DEF IInv, TypeOK

LEMMA GivesUpKeeps ==
    ASSUME IInv, NEW h \in Threads, GivesUp(h)
    PROVE  IInv'
<1>1. Goes(h, Idle) /\ UNCHANGED <<state, target, old, sweep, version, install, ran>>
    BY DEF GivesUp, NodeKept
<1> QED
    BY <1>1, IdleIsRequest, RequestKeeps DEF IInv, TypeOK

\* A new task has a number, and a target, that no request has loaded.
LEMMA CreatesKeeps ==
    ASSUME IInv, NEW h \in Threads, NEW v \in Versions, Creates(h, v)
    PROVE  IInv'
<1>1. TypeOK
    BY DEF IInv
<1>2. PICK t \in Tasks \ Created :
          /\ state' = [state EXCEPT ![t] = "pending"]
          /\ target' = [target EXCEPT ![t] = v]
    BY DEF Creates
<1>3. Goes(h, Idle) /\ UNCHANGED <<old, sweep, version, install, ran>>
    BY DEF Creates, NodeKept
<1>4. /\ request' \in [Threads -> Requests]
      /\ request'[h] = Idle
      /\ \A g \in Threads : g # h => request'[g] = request[g]
    BY <1>1, <1>3, IdleIsRequest, GoesKeepsType
<1>5. /\ state[t] = "none"
      /\ state' \in [Tasks -> States] /\ target' \in [Tasks -> Versions]
      /\ state'[t] = "pending"
      /\ \A u \in Tasks : u # t => state'[u] = state[u] /\ target'[u] = target[u]
    BY <1>1, <1>2 DEF TypeOK, Created, States, Open
<1>6. TypeOK'
    BY <1>1, <1>3, <1>4, <1>5 DEF TypeOK
<1>7. ReportsRan'
    BY <1>3, <1>4, IdleIsRequest DEF IInv, ReportsRan
<1>8. WritesCreated'
    BY <1>3, <1>4, <1>5, IdleIsRequest DEF IInv, WritesCreated
<1>9. SuccessWasRun'
    BY <1>3, <1>5 DEF IInv, SuccessWasRun
<1> QED
    BY <1>6, <1>7, <1>8, <1>9 DEF IInv

LEMMA AsksCancelKeeps ==
    ASSUME IInv, NEW h \in Threads, NEW t \in Tasks, AsksCancel(h, t)
    PROVE  IInv'
<1> DEFINE r == Doing("cancel", t, "failed")
<1>1. r \in Requests /\ r.op = "cancel" /\ r.task = t /\ r.write = "failed"
    BY DEF Idle, Doing, Requests, States, Open, Terminal, Tasks
<1>2. /\ Goes(h, r) /\ state[t] # "none"
      /\ UNCHANGED <<state, target, old, sweep, version, install, ran>>
    BY DEF AsksCancel, NodeKept, Open
<1> HIDE DEF r
<1> QED
    BY <1>1, <1>2, RequestKeeps DEF IInv, TypeOK

LEMMA BeatsKeeps ==
    ASSUME IInv, NEW h \in Threads, Beats(h)
    PROVE  IInv'
<1> DEFINE r == [op |-> "heartbeat", task |-> 0, write |-> "none", reports |-> version]
           done == Doing("reconciled", 0, "none")
<1>1. version \in Versions /\ version \in ran
    BY DEF IInv, TypeOK, ReportsRan
<1>2. r \in Requests /\ r.op = "heartbeat" /\ r.reports = version
    BY <1>1 DEF Requests, States
<1>3. done \in Requests /\ done.op = "reconciled"
    BY DEF Idle, Doing, Requests, States, Open, Terminal
<1>4. /\ Goes(h, r) \/ Goes(h, done)
      /\ UNCHANGED <<state, target, old, sweep, version, install, ran>>
    BY DEF Beats, NodeKept
<1> HIDE DEF r, done
<1> QED
    BY <1>1, <1>2, <1>3, <1>4, RequestKeeps DEF IInv, TypeOK

\* A task is found done only when its target is what the heartbeat reports.
LEMMA ReconcilesKeeps ==
    ASSUME IInv, NEW h \in Threads, Reconciles(h)
    PROVE  IInv'
<1> DEFINE under == InState({"dispatched", "in_progress"})
           done == Doing("reconciled", 0, "none")
           write(t, w) == Doing("reconcile", t, w)
<1>1. /\ request[h].op = "heartbeat"
      /\ UNCHANGED <<state, target, old, sweep, version, install, ran>>
    BY DEF Reconciles, NodeKept
<1>2. \/ Goes(h, done)
      \/ \E t \in under : \E w \in Outcome(t, request[h].reports) :
             w # "none" /\ Goes(h, write(t, w))
    BY DEF Reconciles
<1>3. CASE Goes(h, done)
    <2>1. done \in Requests /\ done.op = "reconciled"
        BY DEF Idle, Doing, Requests, States, Open, Terminal
    <2> HIDE DEF done
    <2> QED
        BY <1>1, <1>3, <2>1, RequestKeeps DEF IInv, TypeOK
<1>4. CASE \E t \in under : \E w \in Outcome(t, request[h].reports) :
               w # "none" /\ Goes(h, write(t, w))
    <2>1. PICK t \in under : \E w \in Outcome(t, request[h].reports) :
               w # "none" /\ Goes(h, write(t, w))
        BY <1>4
    <2>2. PICK w \in Outcome(t, request[h].reports) : w # "none" /\ Goes(h, write(t, w))
        BY <2>1
    <2>3. t \in Tasks /\ state[t] # "none"
        BY DEF InState
    <2>4. w \in {"success", "in_progress"}
        BY <2>2 DEF Outcome
    <2>5. w = "success" => target[t] \in ran
        BY <1>1, <2>2 DEF Outcome, IInv, ReportsRan
    <2>6. /\ write(t, w) \in Requests /\ write(t, w).op = "reconcile"
          /\ write(t, w).task = t /\ write(t, w).write = w
        BY <2>3, <2>4 DEF Idle, Doing, Requests, States, Open, Terminal, Tasks
    <2> HIDE DEF write
    <2> QED
        BY <1>1, <2>2, <2>3, <2>4, <2>5, <2>6, RequestKeeps DEF IInv, TypeOK
<1> QED
    BY <1>2, <1>3, <1>4

LEMMA PicksKeeps ==
    ASSUME IInv, NEW h \in Threads, NEW busy \in BOOLEAN, Picks(h, busy)
    PROVE  IInv'
<1> DEFINE waiting == InState({"pending"})
           write(t) == Doing("dispatch", t, "dispatched")
<1>1. UNCHANGED <<state, target, old, sweep, version, install, ran>>
    BY DEF Picks, NodeKept
<1>2. \/ Goes(h, Idle)
      \/ \E t \in waiting : Goes(h, write(t))
    BY DEF Picks
<1>3. CASE Goes(h, Idle)
    BY <1>1, <1>3, IdleIsRequest, RequestKeeps DEF IInv, TypeOK
<1>4. CASE \E t \in waiting : Goes(h, write(t))
    <2>1. PICK t \in waiting : Goes(h, write(t))
        BY <1>4
    <2>2. t \in Tasks /\ state[t] # "none"
        BY DEF InState
    <2>3. /\ write(t) \in Requests /\ write(t).op = "dispatch"
          /\ write(t).task = t /\ write(t).write = "dispatched"
        BY <2>2 DEF Idle, Doing, Requests, States, Open, Terminal, Tasks
    <2> HIDE DEF write
    <2> QED
        BY <1>1, <2>1, <2>2, <2>3, RequestKeeps DEF IInv, TypeOK
<1> QED
    BY <1>2, <1>3, <1>4

\* The UPDATE writes what was loaded, over whatever the row has become: the
\* target it was compared with is still the target.
LEMMA CommitsKeeps ==
    ASSUME IInv, NEW h \in Threads, NEW arrives \in BOOLEAN, Commits(h, arrives)
    PROVE  IInv'
<1> DEFINE k == request[h].task
           next == IF request[h].op = "reconcile"
                   THEN Doing("reconciled", 0, "none") ELSE Idle
<1>1. TypeOK /\ request[h] \in Requests
    BY DEF IInv, TypeOK
<1>2. /\ k \in Tasks /\ request[h].write \in States \ {"none"}
      /\ request[h].write = "success" => target[k] \in ran
    BY <1>1 DEF Commits, IInv, WritesCreated, Requests
<1>3. /\ state' = [state EXCEPT ![k] = request[h].write]
      /\ Goes(h, next)
      /\ UNCHANGED <<target, old, sweep, version, ran>>
      /\ install' \in {install, k}
    BY DEF Commits
<1>4. next \in Requests /\ next.op \in {"none", "reconciled"}
    BY DEF Idle, Doing, Requests, States, Open, Terminal
<1> HIDE DEF next, k
<1>5. /\ request' \in [Threads -> Requests]
      /\ request'[h] = next
      /\ \A g \in Threads : g # h => request'[g] = request[g]
    BY <1>1, <1>3, <1>4, GoesKeepsType
<1>6. /\ state' \in [Tasks -> States]
      /\ state'[k] = request[h].write
      /\ \A u \in Tasks : u # k => state'[u] = state[u]
    BY <1>1, <1>2, <1>3 DEF TypeOK
<1>7. install' \in 0 .. MaxTasks
    BY <1>1, <1>2, <1>3 DEF TypeOK, Tasks
<1>8. TypeOK'
    BY <1>1, <1>3, <1>5, <1>6, <1>7 DEF TypeOK
<1>9. ReportsRan'
    BY <1>3, <1>4, <1>5 DEF IInv, ReportsRan
<1>10. WritesCreated'
    BY <1>2, <1>3, <1>4, <1>5, <1>6 DEF IInv, WritesCreated
<1>11. SuccessWasRun'
    BY <1>2, <1>3, <1>6 DEF IInv, SuccessWasRun
<1> QED
    BY <1>8, <1>9, <1>10, <1>11 DEF IInv

LEMMA InstallsKeeps ==
    ASSUME IInv, Installs
    PROVE  IInv'
<1>1. install \in Tasks /\ target[install] \in Versions
    BY DEF Installs, IInv, TypeOK, Tasks
<1>2. /\ version' = target[install] /\ ran' = ran \cup {target[install]} /\ install' = 0
      /\ UNCHANGED <<state, target, old, request, sweep>>
    BY DEF Installs
<1>3. TypeOK'
    BY <1>1, <1>2 DEF IInv, TypeOK
<1> QED
    BY <1>2, <1>3 DEF IInv, ReportsRan, WritesCreated, SuccessWasRun

LEMMA FailsKeeps ==
    ASSUME IInv, NEW reports \in BOOLEAN, Fails(reports)
    PROVE  IInv'
<1>1. install \in Tasks
    BY DEF Fails, IInv, TypeOK, Tasks
<1>2. /\ state' \in [Tasks -> States]
      /\ \A t \in Tasks : state'[t] \in {state[t], "failed"}
      /\ install' = 0 /\ UNCHANGED <<target, old, request, sweep, version, ran>>
    BY <1>1 DEF Fails, IInv, TypeOK, States, Terminal
<1>3. TypeOK'
    BY <1>2 DEF IInv, TypeOK
<1> QED
    BY <1>2, <1>3 DEF IInv, ReportsRan, WritesCreated, SuccessWasRun

\* The sweeper and time.
LEMMA SweeperKeeps ==
    ASSUME IInv,
           \/ \E t \in Tasks : Ages(t)
           \/ \E stuck \in SUBSET Tasks : Sweeps(stuck)
           \/ EndsStale
    PROVE  IInv'
<1>1. /\ state' \in [Tasks -> States]
      /\ \A t \in Tasks : state'[t] \in {state[t], "failed"}
      /\ UNCHANGED <<target, request, version, install, ran>>
      /\ old' \subseteq Tasks /\ sweep' \subseteq Tasks
    <2>1. CASE \E t \in Tasks : Ages(t)
        BY <2>1 DEF Ages, NodeKept, IInv, TypeOK
    <2>2. CASE \E stuck \in SUBSET Tasks : Sweeps(stuck)
        BY <2>2 DEF Sweeps, Stale, NodeKept, IInv, TypeOK
    <2>3. CASE EndsStale
        BY <2>3 DEF EndsStale, NodeKept, IInv, TypeOK, States, Terminal
    <2> QED
        BY <2>1, <2>2, <2>3
<1>2. TypeOK'
    BY <1>1 DEF IInv, TypeOK
<1> QED
    BY <1>1, <1>2 DEF IInv, ReportsRan, WritesCreated, SuccessWasRun

LEMMA CrashKeeps ==
    ASSUME IInv, Crash
    PROVE  IInv'
<1>1. /\ request' = [h \in Threads |-> Idle] /\ sweep' = {}
      /\ UNCHANGED <<state, target, old, version, install, ran>>
    BY DEF Crash, NodeKept
<1>2. TypeOK'
    BY <1>1, IdleIsRequest DEF IInv, TypeOK
<1> QED
    BY <1>1, <1>2, IdleIsRequest DEF IInv, ReportsRan, WritesCreated, SuccessWasRun

LEMMA StepKeeps == IInv /\ [Next]_vars => IInv'
<1> SUFFICES ASSUME IInv, [Next]_vars
             PROVE  IInv'
    OBVIOUS
<1>1. ASSUME NEW h \in Threads, Handles(h)
      PROVE  IInv'
    BY <1>1, CreatesKeeps, GivesUpKeeps, ReconcilesKeeps, PicksKeeps, CommitsKeeps
       DEF Handles
<1>2. ASSUME NEW h \in Threads, \E t \in Tasks : AsksCancel(h, t)
      PROVE  IInv'
    BY <1>2, AsksCancelKeeps
<1>3. CASE UNCHANGED vars
    BY <1>3 DEF vars, IInv, TypeOK, ReportsRan, WritesCreated, SuccessWasRun
<1> QED
    BY <1>1, <1>2, <1>3, AsksUpdateKeeps, BeatsKeeps, InstallsKeeps, FailsKeeps,
       SweeperKeeps, CrashKeeps
       DEF Next

\* Rows, requests and what the node runs are well formed.
THEOREM TypeCorrect == Spec => []TypeOK
<1>1. IInv => TypeOK
    BY DEF IInv
<1> QED
    BY <1>1, InitHolds, StepKeeps, PTL DEF Spec

\* A task that ended well asked for a version the node has run: nothing late,
\* lost, swept or written over fakes a completed update.
THEOREM SuccessWasRunHolds == Spec => []SuccessWasRun
<1>1. IInv => SuccessWasRun
    BY DEF IInv
<1> QED
    BY <1>1, InitHolds, StepKeeps, PTL DEF Spec
=============================================================================
