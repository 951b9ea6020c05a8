------------------------------ MODULE Schedule ------------------------------
(***************************************************************************)
(* One scheduled errand (app/services/schedule_service.py, the table       *)
(* schedules): at next_fire_at a sweep claims the occurrence, moves the    *)
(* row on to the next one and drafts an errand plan (module ErrandPlan).   *)
(*                                                                         *)
(* A sweep reads the clock once, lists what is due, and comes to this      *)
(* schedule only after it has planned the ones before it.  The periodic    *)
(* task of one process runs one sweep at a time; Sweeps may be larger, for *)
(* several processes on one database.  Time is counted in ticks.           *)
(***************************************************************************)
EXTENDS Naturals, Sequences

CONSTANTS
    Sweeps,      \* sweeps that may be at work
    Recurrence,  \* "once", "interval" or "cron"
    Period,      \* ticks between two occurrences
    Horizon,     \* bound on the clock
    MaxCrashes,  \* bound on process crashes
    Nobody       \* null: a sweep at rest

VARIABLES
    clock,
    state, next,     \* the row: next_fire_at
    sweep,           \* by sweep: [now, occ], occ = Nobody until it has claimed
    fired,           \* history: occurrences in the order they were claimed
    put,             \* history: occurrences put to the household
    refused,         \* history: those whose card the notification service
                     \* did not take
    dropped,         \* history: those a sweep was drafting when a crash came
    crashes

vars == <<clock, state, next, sweep, fired, put, refused, dropped, crashes>>

-----------------------------------------------------------------------------
ASSUME RecurrenceAssumption == Recurrence \in {"once", "interval", "cron"}
ASSUME PeriodAssumption == Period \in Nat \ {0}
ASSUME BoundsAssumption == Horizon \in Nat /\ MaxCrashes \in Nat
ASSUME NobodyAssumption ==
    /\ Nobody \notin Nat
    /\ Nobody \notin [now : Nat, occ : Nat \cup {Nobody}]

Sweep == [now : Nat, occ : Nat \cup {Nobody}]

TypeOK ==
    /\ clock \in Nat /\ crashes \in Nat
    /\ state \in {"active", "done", "cancelled"}
    /\ next \in Nat
    /\ sweep \in [Sweeps -> Sweep \cup {Nobody}]
    /\ fired \in Seq(Nat)
    /\ put \subseteq Nat /\ refused \subseteq Nat /\ dropped \subseteq Nat

\* create_schedule.
Init ==
    /\ clock = 0 /\ state = "active"
    /\ next \in 1 .. Period
    /\ sweep = [s \in Sweeps |-> Nobody]
    /\ fired = <<>> /\ put = {} /\ refused = {} /\ dropped = {}
    /\ crashes = 0

\* compute_next_fire: strictly after the instant; a cron is a fixed grid.
NextFire(after) ==
    IF Recurrence = "cron" THEN (after \div Period + 1) * Period
    ELSE after + Period

-----------------------------------------------------------------------------
Tick ==
    /\ clock < Horizon /\ clock' = clock + 1
    /\ UNCHANGED <<state, next, sweep, fired, put, refused, dropped, crashes>>

\* fire_due_schedules, its scan.
List(s) ==
    /\ sweep[s] = Nobody
    /\ state = "active" /\ next <= clock
    /\ sweep' = [sweep EXCEPT ![s] = [now |-> clock, occ |-> Nobody]]
    /\ UNCHANGED <<clock, state, next, fired, put, refused, dropped, crashes>>

\* Faulty: a recurring schedule is claimed without the still-due guard.
DueIfActive(s) == state = "active"
\* Faulty: a claim does not look at the state.
DueIfListed(s) == Recurrence # "once" => next <= sweep[s].now

\* _claim_one_shot and _claim_and_rearm, their guards.
Due(s) == state = "active" /\ (Recurrence # "once" => next <= sweep[s].now)

Listed(s) == sweep[s] # Nobody /\ sweep[s].occ = Nobody

\* Faulty: the row is moved on to the occurrence that was claimed.
ClaimNotMovedOn(s) ==
    /\ Listed(s)
    /\ IF Due(s)
       THEN /\ fired' = Append(fired, next)
            /\ sweep' = [sweep EXCEPT ![s].occ = next]
            /\ state' = IF Recurrence = "once" THEN "done" ELSE "active"
       ELSE sweep' = [sweep EXCEPT ![s] = Nobody] /\ UNCHANGED <<state, fired>>
    /\ UNCHANGED <<clock, next, put, refused, dropped, crashes>>

Claim(s) ==
    /\ Listed(s)
    /\ IF Due(s)
       THEN /\ fired' = Append(fired, next)
            /\ sweep' = [sweep EXCEPT ![s].occ = next]
            /\ IF Recurrence = "once" THEN state' = "done" /\ UNCHANGED next
               ELSE next' = NextFire(sweep[s].now) /\ UNCHANGED state
       ELSE /\ sweep' = [sweep EXCEPT ![s] = Nobody]
            /\ UNCHANGED <<state, next, fired>>
    /\ UNCHANGED <<clock, put, refused, dropped, crashes>>

Drafting(s) == sweep[s] # Nobody /\ sweep[s].occ # Nobody

\* Faulty: an exception of the planner is swallowed with its occurrence.
DraftedIfLucky(s, posted) ==
    /\ Drafting(s)
    /\ sweep' = [sweep EXCEPT ![s] = Nobody]
    /\ put' = IF posted THEN put \cup {sweep[s].occ} ELSE put
    /\ UNCHANGED <<clock, state, next, fired, refused, dropped, crashes>>

\* Faulty: the periodic task ends with its first occurrence.
DraftedThenDies(s, posted) ==
    /\ Drafting(s) /\ posted
    /\ put' = put \cup {sweep[s].occ}
    /\ UNCHANGED <<clock, state, next, sweep, fired, refused, dropped, crashes>>

\* draft_errand_plan_detached returns: a plan card went out, or one that says
\* it could not be planned.  Either is best-effort: if the notification service
\* does not take it, that is logged and forgotten.
Drafted(s, posted) ==
    /\ Drafting(s)
    /\ sweep' = [sweep EXCEPT ![s] = Nobody]
    /\ IF posted THEN put' = put \cup {sweep[s].occ} /\ UNCHANGED refused
       ELSE refused' = refused \cup {sweep[s].occ} /\ UNCHANGED put
    /\ UNCHANGED <<clock, state, next, fired, dropped, crashes>>

\* cancel_schedule.
Cancel ==
    /\ state = "active" /\ state' = "cancelled"
    /\ UNCHANGED <<clock, next, sweep, fired, put, refused, dropped, crashes>>

Crash ==
    /\ crashes < MaxCrashes /\ crashes' = crashes + 1
    /\ sweep' = [s \in Sweeps |-> Nobody]
    /\ dropped' = dropped \cup
                      {sweep[s].occ : s \in {t \in Sweeps : Drafting(t)}}
    /\ UNCHANGED <<clock, state, next, fired, put, refused>>

Next ==
    \/ Tick \/ Cancel \/ Crash
    \/ \E s \in Sweeps :
          \/ List(s) \/ Claim(s)
          \/ \E posted \in BOOLEAN : Drafted(s, posted)

Spec == Init /\ [][Next]_vars

\* The periodic task goes on and time passes; nothing is assumed of the users
\* or of the notification service.
Sweeping(s) ==
    List(s) \/ Claim(s) \/ \E posted \in BOOLEAN : Drafted(s, posted)

FairSpec ==
    /\ Spec /\ WF_vars(Tick)
    /\ \A s \in Sweeps : WF_vars(Sweeping(s))

-----------------------------------------------------------------------------
(***************************************************************************)
(* Properties.                                                             *)
(***************************************************************************)
\* "exactly one sweep fires the occurrence": none is claimed twice, by sweeps
\* that list the same row, read the clock at different times and reach it late.
OncePerOccurrence ==
    \A i, j \in DOMAIN fired : i < j => fired[i] < fired[j]

\* No occurrence is claimed before its time.
NeverEarly == \A i \in DOMAIN fired : fired[i] <= clock

\* Once the household has cancelled it nothing fires, whatever a sweep has
\* listed before.
CancelIsFinal == [][(state # "active") => fired' = fired /\ state' = state]_vars

\* An occurrence that is due is claimed, or the schedule is cancelled.
DueFires ==
    \A n \in 1 .. Horizon :
        (state = "active" /\ next = n /\ n <= clock)
            ~> (state = "cancelled" \/ \E i \in DOMAIN fired : fired[i] = n)

\* What is claimed is put to the household.  Only a card that was not taken and
\* a crash while it was being drafted lose an occurrence: those claimed before
\* the crash and after it are put all the same.
FiredIsPut ==
    \A n \in 1 .. Horizon :
        (\E i \in DOMAIN fired : fired[i] = n)
            ~> (n \in put \cup refused \cup dropped)

\* At any moment what was claimed is put to the household, known to be lost, or
\* in the hands of a sweep (proved in Errands_proofs).
NoneForgotten ==
    \A i \in DOMAIN fired :
        \/ fired[i] \in put \cup refused \cup dropped
        \/ \E s \in Sweeps : Drafting(s) /\ sweep[s].occ = fired[i]

\* What the sources say and the code does not do (see README, findings).
\* "it survives restarts because the due state lives in the schedules row".
SurvivesRestart ==
    \A n \in 1 .. Horizon :
        (\E i \in DOMAIN fired : fired[i] = n) ~> (n \in put \cup refused)

\* "ANY failure posts a card so the user is never left hanging".
AnyFailurePostsACard == refused = {}
=============================================================================
