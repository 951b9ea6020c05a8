--------------------------- MODULE ProposedAction ---------------------------
(***************************************************************************)
(* Taps on interactive cards: the rows of api/callbacks.py, the dispatcher *)
(* of services/proposable_action_service.py and the one-time verification  *)
(* of services/node_command_service.py.                                    *)
(*                                                                         *)
(* A tap is on the confirm button of one proposal, so that all share an    *)
(* idempotency key: CC runs its handler, which creates a second row for    *)
(* the node and polls it.  Or it is on an element of a command that lives  *)
(* on the node, and creates the node's row at once.  Endpoints run on      *)
(* threads, cut where they wait; a handler runs on the event loop.  The    *)
(* node is outside: it may be slow or never answer.                        *)
(***************************************************************************)
EXTENDS Naturals, FiniteSets

CONSTANTS
    Taps,       \* taps in the app
    NoRow,      \* "no row is being polled"
    MaxCrashes  \* bound on restarts of the process

VARIABLES
    tapRow,     \* status of the row of a tap on a proposal
    nodeRow,    \* status of the row the node works on
    overdue,    \* rows past their expires_at, as <<plane, tap>>
    task,       \* the background task that runs the handler of a tap
    issued,     \* _pending_commands: published, not yet verified
    node,       \* what the node does for a command
    posting,    \* the row's status as loaded by a request that posts a result
    polling,    \* the row a request of the app has loaded as pending
    card,       \* the inbox card a tap has led to
    crashes,
    ran,        \* history: times the node has run the callback of a row
    late,       \* history: taps made after one had completed
    blind       \* history: taps put to the node by a look that failed open

vars == <<tapRow, nodeRow, overdue, task, issued, node, posting, polling, card,
          crashes, ran, late, blind>>

-----------------------------------------------------------------------------
Rows == {"tap", "node"} \X Taps

ASSUME TapsAssumption == MaxCrashes \in Nat /\ NoRow \notin Rows

Statuses == {"none", "pending", "completed", "failed", "expired"}
Loaded == {"nobody"} \cup Statuses

RowOf(r) == IF r[1] = "tap" THEN tapRow[r[2]] ELSE nodeRow[r[2]]

\* The rows the app polls: it does not know the row a dispatcher creates.
Polled(r) == r[1] = "tap" \/ tapRow[r[2]] = "none"

TypeOK ==
    /\ tapRow \in [Taps -> Statuses]
    /\ nodeRow \in [Taps -> Statuses]
    /\ overdue \subseteq Rows
    /\ task \in [Taps -> {"none", "queued", "waiting", "done",
                          "already", "ended"}]
    /\ issued \subseteq Taps
    /\ node \in [Taps -> {"idle", "verified", "fetched", "succeeded", "failed"}]
    /\ posting \in [Taps -> Loaded]
    /\ polling \in Rows \cup {NoRow}
    /\ card \in [Taps -> {"none", "done", "already"}]
    /\ crashes \in 0 .. MaxCrashes
    /\ ran \in [Taps -> Nat]
    /\ late \subseteq Taps /\ blind \subseteq Taps

Init ==
    /\ tapRow = [t \in Taps |-> "none"]
    /\ nodeRow = [n \in Taps |-> "none"]
    /\ overdue = {} /\ issued = {} /\ crashes = 0 /\ late = {} /\ blind = {}
    /\ task = [t \in Taps |-> "none"]
    /\ node = [n \in Taps |-> "idle"]
    /\ posting = [n \in Taps |-> "nobody"]
    /\ polling = NoRow
    /\ card = [t \in Taps |-> "none"]
    /\ ran = [n \in Taps |-> 0]

-----------------------------------------------------------------------------
(* A tap.                                                                  *)

\* create_callback on the server plane: the row, then a background task.
Tap(t) ==
    /\ tapRow[t] = "none" /\ nodeRow[t] = "none"
    /\ tapRow' = [tapRow EXCEPT ![t] = "pending"]
    /\ task' = [task EXCEPT ![t] = "queued"]
    /\ late' = IF \E u \in Taps : tapRow[u] = "completed" THEN late \cup {t} ELSE late
    /\ UNCHANGED <<nodeRow, overdue, issued, node, posting, polling, card, crashes,
                   ran, blind>>

\* A row for the node and its command, whose id may be verified once.
CreateNodeJob(n) ==
    nodeRow' = [nodeRow EXCEPT ![n] = "pending"] /\ issued' = issued \cup {n}

\* create_callback on the node plane.
TapDirect(t) ==
    /\ tapRow[t] = "none" /\ nodeRow[t] = "none"
    /\ CreateNodeJob(t)
    /\ UNCHANGED <<tapRow, overdue, task, node, posting, polling, card, crashes, ran,
                   late, blind>>

-----------------------------------------------------------------------------
(* The handler of a confirm tap, _handle_execute.                          *)

HandlerOnly == UNCHANGED <<overdue, node, posting, polling, crashes, ran, late>>
TaskGoes(t, stage) == task' = [task EXCEPT ![t] = stage]

\* _record_callback_result for the tap: whatever the row has become since.
\* Only a success is put on an inbox card.
RecordFailure(t) ==
    /\ tapRow' = [tapRow EXCEPT ![t] = "failed"] /\ TaskGoes(t, "ended")
RecordSuccess(t, outcome) ==
    /\ tapRow' = [tapRow EXCEPT ![t] = "completed"] /\ TaskGoes(t, outcome)

\* Proposals are off, no node offers the action, the parameters are wrong.
Refuses(t) ==
    /\ task[t] = "queued"
    /\ RecordFailure(t)
    /\ UNCHANGED <<nodeRow, issued, card, blind>> /\ HandlerOnly

\* Faulty: the key is not compared.
NeverCompleted == FALSE

\* _already_completed: a row with this key is completed.  Only the rows the
\* dispatcher creates have the key.
AlreadyCompleted ==
    \E u \in Taps : tapRow[u] # "none" /\ nodeRow[u] = "completed"

\* The calls to nodes that resolve the action, then: answered from an earlier
\* tap, or put to the node.  The look for an earlier tap fails open: when the
\* query raises, or the proposal came without a key, it finds none.
Dispatches(t) ==
    /\ task[t] = "queued"
    /\ \/ /\ AlreadyCompleted
          /\ RecordSuccess(t, "already")
          /\ UNCHANGED <<nodeRow, issued, blind>>
       \/ /\ CreateNodeJob(t) /\ TaskGoes(t, "waiting")
          /\ blind' = IF AlreadyCompleted THEN blind \cup {t} ELSE blind
          /\ UNCHANGED tapRow
    /\ UNCHANGED card /\ HandlerOnly

\* Faulty: any row that has left "pending" is taken for a success.
HearsOfLeaving(t) ==
    /\ task[t] = "waiting"
    /\ nodeRow[t] # "pending"
    /\ RecordSuccess(t, "done")
    /\ UNCHANGED <<nodeRow, issued, card, blind>> /\ HandlerOnly

\* The dispatcher's poll of the node's row finds it settled.
Hears(t) ==
    /\ task[t] = "waiting"
    /\ \/ nodeRow[t] = "completed" /\ RecordSuccess(t, "done")
       \/ nodeRow[t] = "failed" /\ RecordFailure(t)
    /\ UNCHANGED <<nodeRow, issued, card, blind>> /\ HandlerOnly

\* It gives up after 25 seconds; the row stays.
GivesUp(t) ==
    /\ task[t] = "waiting" /\ nodeRow[t] \notin {"completed", "failed"}
    /\ RecordFailure(t)
    /\ UNCHANGED <<nodeRow, issued, card, blind>> /\ HandlerOnly

\* The fan-out of a recorded success to the inbox, which may fail.
PostsCard(t, posted) ==
    /\ task[t] \in {"done", "already"}
    /\ card' = IF posted THEN [card EXCEPT ![t] = task[t]] ELSE card
    /\ TaskGoes(t, "ended")
    /\ UNCHANGED <<tapRow, nodeRow, issued, blind>> /\ HandlerOnly

-----------------------------------------------------------------------------
(* The node.  A command may be delivered again, or late, or never.         *)

NodeOnly == UNCHANGED <<tapRow, overdue, task, polling, card, crashes, late, blind>>

\* Faulty: the entry stays and the command can be verified again.
VerifiedStays(n) ==
    /\ node[n] \in {"idle", "succeeded", "failed"}
    /\ n \in issued /\ <<"node", n>> \notin overdue
    /\ node' = [node EXCEPT ![n] = "verified"]
    /\ UNCHANGED <<nodeRow, posting, ran, issued>> /\ NodeOnly

\* verify_command: known, in time, and never a second time.
Verified(n) ==
    /\ node[n] \in {"idle", "succeeded", "failed"}
    /\ n \in issued /\ <<"node", n>> \notin overdue
    /\ issued' = issued \ {n}
    /\ node' = [node EXCEPT ![n] = "verified"]
    /\ UNCHANGED <<nodeRow, posting, ran>> /\ NodeOnly

\* get_callback_payload: gone if expired, expired on read, or handed out.
Fetches(n) ==
    /\ node[n] = "verified"
    /\ LET lapses == nodeRow[n] = "pending" /\ <<"node", n>> \in overdue
       IN  /\ nodeRow' = IF lapses THEN [nodeRow EXCEPT ![n] = "expired"] ELSE nodeRow
           /\ node' = [node EXCEPT ![n] =
                          IF lapses \/ nodeRow[n] = "expired" THEN "idle" ELSE "fetched"]
    /\ UNCHANGED <<issued, posting, ran>> /\ NodeOnly

\* The node runs the command's callback, or fails without running it.
Runs(n) ==
    /\ node[n] = "fetched"
    /\ \/ /\ ran' = [ran EXCEPT ![n] = @ + 1]
          /\ \E result \in {"succeeded", "failed"} : node' = [node EXCEPT ![n] = result]
       \/ node' = [node EXCEPT ![n] = "failed"] /\ UNCHANGED ran
    /\ UNCHANGED <<nodeRow, issued, posting>> /\ NodeOnly

\* post_callback_result loads the row.  The node may post again when it has
\* not seen the answer.
PostLoads(n) ==
    /\ node[n] \in {"succeeded", "failed"} /\ posting[n] = "nobody"
    /\ posting' = [posting EXCEPT ![n] = nodeRow[n]]
    /\ UNCHANGED <<nodeRow, issued, node, ran>> /\ NodeOnly

\* _record_callback_result: the status column is written if it differs from
\* what was loaded.
PostWrites(n) ==
    /\ posting[n] # "nobody"
    /\ LET status == IF node[n] = "succeeded" THEN "completed" ELSE "failed"
       IN  nodeRow' = IF posting[n] = status THEN nodeRow
                      ELSE [nodeRow EXCEPT ![n] = status]
    /\ posting' = [posting EXCEPT ![n] = "nobody"]
    /\ UNCHANGED <<issued, node, ran>> /\ NodeOnly

-----------------------------------------------------------------------------
(* The app polls the row of its tap until it leaves "pending".             *)

PollOnly ==
    UNCHANGED <<overdue, task, issued, node, posting, card, crashes, ran, late, blind>>

\* get_callback_status loads the row, then asks who may see it.  Requests for
\* other rows change nothing of this one: one is out at a time.
PollLoads(r) ==
    /\ RowOf(r) = "pending" /\ Polled(r) /\ polling = NoRow
    /\ polling' = r
    /\ UNCHANGED <<tapRow, nodeRow>> /\ PollOnly

SetRow(r, status) ==
    IF r[1] = "tap"
    THEN tapRow' = [tapRow EXCEPT ![r[2]] = status] /\ UNCHANGED nodeRow
    ELSE nodeRow' = [nodeRow EXCEPT ![r[2]] = status] /\ UNCHANGED tapRow

\* Faulty: only the node's own read expires a row.
AnswersAsLoaded(r) ==
    /\ polling = r
    /\ UNCHANGED <<tapRow, nodeRow>>
    /\ polling' = NoRow
    /\ PollOnly

\* The answer: a row loaded as pending is expired when its time is over.
PollAnswers(r) ==
    /\ polling = r
    /\ IF r \in overdue THEN SetRow(r, "expired") ELSE UNCHANGED <<tapRow, nodeRow>>
    /\ polling' = NoRow
    /\ PollOnly

\* Five minutes pass, of a row whose age is still looked at.
Lapses(r) ==
    /\ \/ polling = r
       \/ Polled(r) /\ RowOf(r) = "pending"
       \/ r[1] = "node" /\ (r[2] \in issued \/ node[r[2]] = "verified")
    /\ r \notin overdue
    /\ overdue' = overdue \cup {r}
    /\ UNCHANGED <<tapRow, nodeRow, task, issued, node, posting, polling, card,
                   crashes, ran, late, blind>>

\* A restart loses the tasks, the requests and the commands to be verified.
Crash ==
    /\ crashes < MaxCrashes /\ crashes' = crashes + 1
    /\ task' = [t \in Taps |-> IF task[t] = "none" THEN "none" ELSE "ended"]
    /\ issued' = {}
    /\ posting' = [n \in Taps |-> "nobody"]
    /\ polling' = NoRow
    /\ UNCHANGED <<tapRow, nodeRow, overdue, node, card, ran, late, blind>>

-----------------------------------------------------------------------------
Handler(t) ==
    \/ Refuses(t) \/ Dispatches(t) \/ Hears(t) \/ GivesUp(t)
    \/ \E posted \in BOOLEAN : PostsCard(t, posted)

NodeStep(n) ==
    Verified(n) \/ Fetches(n) \/ Runs(n) \/ PostLoads(n) \/ PostWrites(n)

Next ==
    \/ \E t \in Taps : Tap(t) \/ TapDirect(t) \/ Handler(t) \/ NodeStep(t)
    \/ \E r \in Rows : PollLoads(r) \/ PollAnswers(r) \/ Lapses(r)
    \/ Crash

Spec == Init /\ [][Next]_vars

\* The app polls on, requests end and time passes.  Nothing is assumed of
\* the handlers, which a restart loses, or of the node.
Fairness ==
    \A r \in Rows : WF_vars(PollLoads(r)) /\ WF_vars(PollAnswers(r)) /\ WF_vars(Lapses(r))

FairSpec == Spec /\ Fairness

-----------------------------------------------------------------------------
(* Properties.                                                             *)

\* "The mobile status poll always terminates": whatever a restart loses and
\* the node leaves unanswered, a polled row leaves "pending".
PollTerminates ==
    \A r \in Rows : (Polled(r) /\ RowOf(r) = "pending") ~> (RowOf(r) # "pending")

\* A household that is told a proposal was carried out, on the card or by the
\* status of the tap, has a node that ran it.
ToldDoneWasDone ==
    \A t \in Taps :
        tapRow[t] = "completed" \/ card[t] # "none" =>
            \E u \in Taps : tapRow[u] # "none" /\ ran[u] > 0 /\ node[u] = "succeeded"

\* A tap made after one had completed is answered from it and runs nothing,
\* whatever the other taps, late results, polls and restarts have written to
\* the rows since; unless its look for the completed row failed open.
TapAfterDoneRunsNothing ==
    \A t \in late \ blind : ran[t] = 0 /\ nodeRow[t] = "none"

\* "A double-tap / re-post never runs the target callback twice", said of the
\* look itself, which fails open (the code does not keep it, see README).
RepostRunsNothing == \A t \in late : ran[t] = 0

\* A command delivered twice, or answered late, is run at most once: its id
\* is verified once.
CommandRunsOnce == \A n \in Taps : ran[n] <= 1

\* The invariant behind it: a command that may still be verified has not
\* reached the node, and one that was fetched has not been run.
IssuedIsFresh ==
    \A n \in Taps :
        /\ n \in issued => node[n] = "idle" /\ ran[n] = 0
        /\ node[n] \in {"verified", "fetched"} => ran[n] = 0 /\ n \notin issued
        /\ nodeRow[n] = "none" => n \notin issued /\ node[n] = "idle" /\ ran[n] = 0
        /\ ran[n] <= 1

\* "A double-tap never runs the target callback twice."
DoubleTapRunsOnce ==
    \A t, u \in Taps :
        /\ tapRow[t] # "none" /\ ran[t] > 0
        /\ tapRow[u] # "none" /\ ran[u] > 0
        => t = u

\* "Every failure returns a visible card": a handler that has ended without a
\* success leaves more than the status of its row.
FailureIsVisible ==
    \A t \in Taps : task[t] = "ended" /\ tapRow[t] = "failed" => card[t] # "none"
=============================================================================
