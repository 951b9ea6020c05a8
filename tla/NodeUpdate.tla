------------------------------ MODULE NodeUpdate ------------------------------
(***************************************************************************)
(* Updates of a node: the tasks of api/node_updates.py, the heartbeat of   *)
(* admin.py that hands them out and finds them done, and the sweeper of    *)
(* main.py that ends those nothing is heard of.                            *)
(*                                                                         *)
(* The endpoints run on threads.  Each loads the task, thinks, and commits *)
(* an UPDATE by primary key, whatever the row has become; only the node's  *)
(* own report is conditional on the row.  The node is outside: it may be   *)
(* off, refuse, die while installing, and its heartbeats may be late.      *)
(***************************************************************************)
EXTENDS Naturals

CONSTANTS
    MaxTasks,  \* bound on the tasks of the node, numbered as created
    Versions,  \* versions a task may ask for
    Factory,   \* the version the node starts with
    Threads    \* requests being handled at the same time

VARIABLES
    state,    \* node_tasks.state
    target,   \* node_tasks.target_version
    old,      \* tasks created more than ANY_STATE_CEILING ago
    request,  \* what a thread has loaded and is about to write
    sweep,    \* the tasks the sweeper has loaded as stale
    version,  \* what the node runs
    install,  \* the task the node is carrying out, or 0
    ran       \* history: versions the node has run

vars == <<state, target, old, request, sweep, version, install, ran>>

-----------------------------------------------------------------------------
ASSUME UpdateAssumption == MaxTasks \in Nat /\ Factory \in Versions

Tasks == 1 .. MaxTasks
Open == {"pending", "dispatched", "in_progress"}
Terminal == {"success", "failed"}
States == {"none"} \cup Open \cup Terminal

\* "task" and "write": the row to update and its new state; "reports": the
\* version a heartbeat carries.
Doing(op, t, w) == [op |-> op, task |-> t, write |-> w, reports |-> Factory]
Idle == Doing("none", 0, "none")
Requests ==
    [op : {"none", "create", "cancel", "heartbeat", "reconcile", "reconciled", "dispatch"},
     task : 0 .. MaxTasks, write : States, reports : Versions]

TypeOK ==
    /\ state \in [Tasks -> States]
    /\ target \in [Tasks -> Versions]
    /\ old \subseteq Tasks
    /\ request \in [Threads -> Requests]
    /\ sweep \subseteq Tasks
    /\ version \in Versions
    /\ install \in 0 .. MaxTasks
    /\ ran \subseteq Versions

Init ==
    /\ state = [t \in Tasks |-> "none"]
    /\ target = [t \in Tasks |-> Factory]
    /\ old = {}
    /\ request = [h \in Threads |-> Idle]
    /\ sweep = {}
    /\ version = Factory /\ install = 0 /\ ran = {Factory}

-----------------------------------------------------------------------------
(* The user.                                                               *)

NodeKept == UNCHANGED <<version, install, ran>>
Goes(h, r) == request' = [request EXCEPT ![h] = r]
Created == {t \in Tasks : state[t] # "none"}

\* request_node_update: no open task.  Then GitHub is asked for the version.
AsksUpdate(h) ==
    /\ request[h] = Idle
    /\ \A t \in Tasks : state[t] \notin Open
    /\ Created # Tasks
    /\ Goes(h, Doing("create", 0, "none"))
    /\ UNCHANGED <<state, target, old, sweep>> /\ NodeKept

\* The insert, or a 503.
Creates(h, v) ==
    /\ request[h].op = "create"
    /\ \E t \in Tasks \ Created :
           /\ \A u \in Tasks \ Created : t <= u
           /\ state' = [state EXCEPT ![t] = "pending"]
           /\ target' = [target EXCEPT ![t] = v]
    /\ Goes(h, Idle)
    /\ UNCHANGED <<old, sweep>> /\ NodeKept

GivesUp(h) ==
    /\ request[h].op = "create"
    /\ Goes(h, Idle)
    /\ UNCHANGED <<state, target, old, sweep>> /\ NodeKept

\* cancel_node_task loads an open task, and asks who may touch it.
AsksCancel(h, t) ==
    /\ request[h] = Idle
    /\ state[t] \in Open
    /\ Goes(h, Doing("cancel", t, "failed"))
    /\ UNCHANGED <<state, target, old, sweep>> /\ NodeKept

-----------------------------------------------------------------------------
(* The heartbeat.                                                          *)

\* The node sends what it runs, or no version, and then nothing is reconciled.
Beats(h) ==
    /\ request[h] = Idle
    /\ \/ Goes(h, [op |-> "heartbeat", task |-> 0, write |-> "none", reports |-> version])
       \/ Goes(h, Doing("reconciled", 0, "none"))
    /\ UNCHANGED <<state, target, old, sweep>> /\ NodeKept

Newest(t, S) == t \in S /\ \A u \in S : u <= t
Oldest(t, S) == t \in S /\ \A u \in S : t <= u
InState(S) == {t \in Tasks : state[t] \in S}

\* Faulty: any heartbeat of a task under way ends it well.
OutcomeUnmatched(t, v) == {"success"}

\* What a heartbeat says of the task: done; under way, when it was handed out
\* at least 30 seconds ago; or nothing.
Outcome(t, v) ==
    IF v = target[t] THEN {"success"}
    ELSE IF state[t] = "dispatched" THEN {"in_progress", "none"}
    ELSE {"none"}

\* reconcile_open_task loads the newest task under way.
Reconciles(h) ==
    /\ request[h].op = "heartbeat"
    /\ LET under == InState({"dispatched", "in_progress"})
       IN  IF under = {} THEN Goes(h, Doing("reconciled", 0, "none"))
           ELSE \E t \in under : \E w \in Outcome(t, request[h].reports) :
                    /\ Newest(t, under)
                    /\ Goes(h, IF w = "none" THEN Doing("reconciled", 0, "none")
                               ELSE Doing("reconcile", t, w))
    /\ UNCHANGED <<state, target, old, sweep>> /\ NodeKept

\* dispatch_pending_task loads the oldest pending task, unless the node has
\* reported that it is busy.
Picks(h, busy) ==
    /\ request[h].op = "reconciled"
    /\ LET waiting == InState({"pending"})
       IN  IF busy \/ waiting = {} THEN Goes(h, Idle)
           ELSE \E t \in waiting :
                    /\ Oldest(t, waiting)
                    /\ Goes(h, Doing("dispatch", t, "dispatched"))
    /\ UNCHANGED <<state, target, old, sweep>> /\ NodeKept

\* The UPDATE of a request, by primary key.  A dispatched task goes out with
\* the answer, which may be lost; a node that is installing takes no other.
Commits(h, arrives) ==
    /\ request[h].op \in {"cancel", "reconcile", "dispatch"}
    /\ state' = [state EXCEPT ![request[h].task] = request[h].write]
    /\ Goes(h, IF request[h].op = "reconcile"
               THEN Doing("reconciled", 0, "none") ELSE Idle)
    /\ install' = IF request[h].op = "dispatch" /\ arrives /\ install = 0
                  THEN request[h].task ELSE install
    /\ UNCHANGED <<target, old, sweep, version, ran>>

-----------------------------------------------------------------------------
(* The node.                                                               *)

\* It installs the version of the task ...
Installs ==
    /\ install # 0
    /\ version' = target[install] /\ ran' = ran \cup {target[install]}
    /\ install' = 0
    /\ UNCHANGED <<state, target, old, request, sweep>>

\* ... or gives up, or dies, and may report it: a conditional UPDATE.
\* report_task_status.
Fails(reports) ==
    /\ install # 0
    /\ state' = IF reports /\ state[install] \notin Terminal
                THEN [state EXCEPT ![install] = "failed"] ELSE state
    /\ install' = 0
    /\ UNCHANGED <<target, old, request, sweep, version, ran>>

-----------------------------------------------------------------------------
(* The sweeper.                                                            *)

\* Fifteen minutes pass.
Ages(t) ==
    /\ state[t] \in Open /\ t \notin old
    /\ old' = old \cup {t}
    /\ UNCHANGED <<state, target, request, sweep>> /\ NodeKept

\* Faulty: a task the node has not taken is not looked at.
StaleDispatched == {t \in old : state[t] \in Open \ {"pending"}}

\* Open tasks over the ceiling.
Stale == {t \in old : state[t] \in Open}

\* It loads them, with those that have been in progress for ten minutes ...
Sweeps(stuck) ==
    /\ sweep = {} /\ Stale \cup stuck # {}
    /\ stuck \subseteq InState({"in_progress"})
    /\ sweep' = Stale \cup stuck
    /\ UNCHANGED <<state, target, old, request>> /\ NodeKept

\* ... and commits them as failed.
EndsStale ==
    /\ sweep # {}
    /\ state' = [t \in Tasks |-> IF t \in sweep THEN "failed" ELSE state[t]]
    /\ sweep' = {}
    /\ UNCHANGED <<target, old, request>> /\ NodeKept

\* A restart loses the requests and the sweep.
Crash ==
    /\ request' = [h \in Threads |-> Idle] /\ sweep' = {}
    /\ <<request', sweep'>> # <<request, sweep>>
    /\ UNCHANGED <<state, target, old>> /\ NodeKept

-----------------------------------------------------------------------------
Handles(h) ==
    \/ \E v \in Versions : Creates(h, v)
    \/ GivesUp(h) \/ Reconciles(h) \/ \E busy \in BOOLEAN : Picks(h, busy)
    \/ \E arrives \in BOOLEAN : Commits(h, arrives)

Next ==
    \/ \E h \in Threads :
           \/ AsksUpdate(h) \/ Beats(h) \/ Handles(h)
           \/ \E t \in Tasks : AsksCancel(h, t)
    \/ Installs \/ \E reports \in BOOLEAN : Fails(reports)
    \/ \E t \in Tasks : Ages(t)
    \/ \E stuck \in SUBSET Tasks : Sweeps(stuck)
    \/ EndsStale \/ Crash

Spec == Init /\ [][Next]_vars

\* Time passes and the sweeper's loop runs on; requests run to their end.
\* Nothing is assumed of the node or of the user.
Fairness ==
    /\ \A t \in Tasks : WF_vars(Ages(t))
    /\ SF_vars(EndsStale) /\ WF_vars(\E stuck \in SUBSET Tasks : Sweeps(stuck))
    /\ \A h \in Threads : WF_vars(Handles(h))

FairSpec == Spec /\ Fairness

-----------------------------------------------------------------------------
(* Properties.                                                             *)

\* "A node must not be able to fake a completed update": a task that ended
\* well asked for a version the node has run, whatever was late or swept.
SuccessWasRun == \A t \in Tasks : state[t] = "success" => target[t] \in ran

\* Every task ends: with the node off, an installer that dies, answers that
\* are lost and rows written over, the sweeper gets it.
TaskEnds == \A t \in Tasks : (state[t] \in Open) ~> (state[t] \in Terminal)

\* "A terminal state must never be clobbered."
TerminalIsFinal ==
    [][\A t \in Tasks : state[t] \in Terminal => state'[t] = state[t]]_vars

\* "Used to reject new update requests while one is already queued."
OneOpenTask == \A t, u \in Tasks : state[t] \in Open /\ state[u] \in Open => t = u
=============================================================================
