--------------------------- MODULE PhoneCall_proofs ---------------------------
(***************************************************************************)
(* Proofs about PhoneCall for every number of sessions, workers, threads   *)
(* and crashes, every set of caps and events: an active call has its       *)
(* owner, and sessions keep the promise of module CallPromise.             *)
(***************************************************************************)
EXTENDS PhoneCall, FiniteSetTheorems, TLAPS

Placed == ACTIVE_STATES \cup {"done", "failed"}

\* A call has been claimed by nobody, or by the worker its row names.
OwnerInv ==
    \A c \in Calls : dialers[c] # {} => dialers[c] = {worker[c]} /\ worker[c] \in Workers

\* Who has been told to dial decides which states a row may have; a row
\* waits to be dialed only after a tap.
PlacedInv ==
    \A c \in Calls :
        /\ dialers[c] = {} => state[c] \in {"none", "draft", "confirmed", "declined",
                                             "expired", "failed"}
        /\ dialers[c] # {} => state[c] \in Placed
        /\ state[c] = "confirmed" => confirmedBy[c]

\* What the loop and the threads hold of a row that was read earlier: a plan
\* that is being drafted has none, a blocked tap has confirmed it, and what
\* the reaper listed and the gateway reports on has been placed.
HeldInv ==
    /\ \A c \in drafting : state[c] = "none"
    /\ tap # NoCall /\ dialers[tap] = {} => state[tap] = "confirmed"
    /\ \A c \in Calls : toReap[c] # "no" => dialers[c] # {}
    /\ \A t \in Threads : request[t] # NoRequest => dialers[request[t].call] # {}

IInv == TypeOK /\ OwnerInv /\ PlacedInv /\ HeldInv

USE CapsAssumption, CrashAssumption, NullAssumption, EventAssumption

LEMMA InitHolds == Init => IInv
<1> SUFFICES ASSUME Init
             PROVE  IInv
    OBVIOUS
<1>1. TypeOK
    <2>1. /\ state \in [Calls -> States] /\ age \in [Calls -> Ages]
          /\ confirmedBy \in [Calls -> BOOLEAN]
          /\ worker \in [Calls -> Workers \cup {NoWorker}]
          /\ outcome \in [Calls -> Outcomes]
        BY DEF Init, States, Ages, Outcomes
    <2>2. /\ request \in [Threads -> Requests \cup {NoRequest}]
          /\ toReap \in [Calls -> Ages \cup {"no", "reload"}]
          /\ dialers \in [Calls -> SUBSET Workers]
        BY DEF Init
    <2> QED
        BY <2>1, <2>2 DEF Init, TypeOK
<1>2. OwnerInv /\ PlacedInv
    BY DEF Init, OwnerInv, PlacedInv
<1>3. HeldInv
    BY DEF Init, HeldInv
<1> QED
    BY <1>1, <1>2, <1>3 DEF IInv

-----------------------------------------------------------------------------
(* The phase of a session.                                                 *)

PhaseOf(d, s) ==
    IF d # {} THEN "placed"
    ELSE CASE s = "none" -> "idle"
           [] s = "draft" -> "asked"
           [] s = "confirmed" -> "authorised"
           [] OTHER -> "over"

\* A call that has its owner is not placed twice.
LEMMA PhaseIs ==
    ASSUME OwnerInv, OwnerInv'
    PROVE  /\ phase = [c \in Calls |-> PhaseOf(dialers[c], state[c])]
           /\ phase' = [c \in Calls |-> PhaseOf(dialers'[c], state'[c])]
<1>1. /\ Cardinality({}) = 0 /\ \A w : Cardinality({w}) = 1
      /\ ~(0 > 1) /\ ~(1 > 1)
    BY FS_EmptySet, FS_Singleton
<1>2. \A c \in Calls : ~(Cardinality(dialers[c]) > 1) /\ ~(Cardinality(dialers'[c]) > 1)
    <2> TAKE c \in Calls
    <2>1. Cardinality(dialers[c]) \in {0, 1}
        BY <1>1 DEF OwnerInv
    <2>2. Cardinality(dialers'[c]) \in {0, 1}
        BY <1>1 DEF OwnerInv
    <2> QED
        BY <1>1, <2>1, <2>2
<1> QED
    BY <1>2 DEF phase, PhaseOf

\* Every step but the commit of a plan, the tap and the claim moves rows as
\* Moves says: it keeps the invariant and is a refusal, of no plan if none is
\* refused.
Moves ==
    \A c \in Calls :
        \/ state'[c] = state[c]
        \/ dialers[c] # {} /\ state'[c] \in Placed
        \/ state[c] = "draft" /\ state'[c] \in {"declined", "expired"}
        \/ state[c] = "confirmed" /\ state'[c] = "failed"

Holds ==
    /\ \A c \in drafting' : c \in drafting \/ state[c] = "none"
    /\ tap' # NoCall =>
           tap' = tap /\ (state'[tap] = state[tap] \/ dialers[tap] # {})
    /\ \A c \in Calls : toReap'[c] # "no" => dialers[c] # {}
    /\ \A t \in Threads : request'[t] # NoRequest => dialers[request'[t].call] # {}

\* A step of a linked call, as an errand run sees it.
LinkStep ==
    \A c \in Calls :
        \/ status'[c] = status[c]
        \/ <<status[c], status'[c]>> \in Link!CallSteps \cup {<<"none", "draft">>}

LEMMA StatusOfPlaced ==
    /\ \A c \in Calls : state[c] \in Placed => status[c] \in Link!LateCall
    /\ \A c \in Calls : state'[c] \in Placed => status'[c] \in Link!LateCall
    /\ \A c \in Calls :
           /\ state[c] \in {"none", "draft", "confirmed", "failed"} => status[c] = state[c]
           /\ state[c] \in {"declined", "expired"} => status[c] = "refused"
           /\ state'[c] \in {"none", "draft", "confirmed", "failed"} => status'[c] = state'[c]
           /\ state'[c] \in {"declined", "expired"} => status'[c] = "refused"
           /\ state[c] \in ACTIVE_STATES => status[c] = "live"
           /\ state'[c] \in ACTIVE_STATES => status'[c] = "live"
BY DEF status, Placed, ACTIVE_STATES, Link!LateCall

LEMMA MovesKeep ==
    ASSUME IInv, TypeOK', Moves, Holds, UNCHANGED <<worker, dialers, confirmedBy>>
    PROVE  IInv' /\ Promise!Next /\ LinkStep
<1>1. OwnerInv /\ OwnerInv'
    BY DEF IInv, OwnerInv
<1>2. PlacedInv'
    BY DEF IInv, PlacedInv, Moves, Placed, ACTIVE_STATES
<1>3. HeldInv'
    <2>1. \A c \in drafting' : state'[c] = "none"
        BY DEF IInv, TypeOK, HeldInv, PlacedInv, Moves, Holds, Placed, ACTIVE_STATES
    <2>2. tap' # NoCall /\ dialers'[tap'] = {} => state'[tap'] = "confirmed"
        BY DEF IInv, HeldInv, Holds
    <2> QED
        BY <2>1, <2>2 DEF Holds, HeldInv
<1> DEFINE C == {c \in Calls : dialers[c] = {} /\ state[c] \in {"draft", "confirmed"}
                               /\ state'[c] # state[c]}
<1>4. C \in SUBSET {c \in Calls : phase[c] \in {"asked", "authorised"}}
    BY <1>1, PhaseIs DEF PhaseOf
<1>5. phase' = [c \in Calls |-> IF c \in C THEN "over" ELSE phase[c]]
    <2>1. ASSUME NEW c \in Calls
          PROVE  PhaseOf(dialers'[c], state'[c]) =
                     IF c \in C THEN "over" ELSE PhaseOf(dialers[c], state[c])
        BY DEF PhaseOf, Moves, IInv, PlacedInv, Placed, ACTIVE_STATES
    <2> HIDE DEF C
    <2> QED
        BY <1>1, <2>1, PhaseIs
<1>6. Promise!Refuse
    <2> HIDE DEF C
    <2> QED
        BY <1>4, <1>5 DEF Promise!Refuse
<1>7. LinkStep
    <2>1. ASSUME NEW c \in Calls
          PROVE  \/ status'[c] = status[c]
                 \/ <<status[c], status'[c]>> \in Link!CallSteps
        <3>1. CASE dialers[c] # {}
            <4>1. state[c] \in Placed /\ state'[c] \in Placed
                BY <3>1, <1>1, <1>2 DEF IInv, PlacedInv
            <4>2. status[c] \in Link!LateCall /\ status'[c] \in Link!LateCall
                BY <4>1, StatusOfPlaced
            <4> QED
                BY <4>2 DEF Link!CallSteps
        <3>2. CASE dialers[c] = {}
            <4>1. state[c] \in {"none", "draft", "confirmed", "declined", "expired", "failed"}
                BY <3>2 DEF IInv, PlacedInv
            <4> QED
                BY <3>2, <4>1, StatusOfPlaced DEF Moves, Link!CallSteps
        <3> QED
            BY <3>1, <3>2
    <2> QED
        BY <2>1 DEF LinkStep
<1> QED
    BY <1>1, <1>2, <1>3, <1>6, <1>7 DEF IInv, Promise!Next

-----------------------------------------------------------------------------
(* Drafting and the confirm tap.                                           *)

LEMMA PlanSteps ==
    ASSUME IInv, NEW c \in Calls, StartPlan(c) \/ AbandonPlan(c)
    PROVE  IInv' /\ Promise!Next /\ LinkStep
<1>1. TypeOK'
    BY DEF IInv, TypeOK, StartPlan, AbandonPlan, row
<1>2. Moves /\ Holds /\ UNCHANGED <<worker, dialers, confirmedBy>>
    BY DEF IInv, TypeOK, HeldInv, StartPlan, AbandonPlan, row, Moves, Holds
<1> QED
    BY <1>1, <1>2, MovesKeep

LEMMA CommitPlanSteps ==
    ASSUME IInv, NEW c \in Calls, CommitPlan(c)
    PROVE  IInv' /\ Promise!Next /\ LinkStep
<1>1. TypeOK /\ state[c] = "none" /\ dialers[c] = {} /\ tap = NoCall
    BY DEF IInv, HeldInv, PlacedInv, CommitPlan, LoopFree, Placed, ACTIVE_STATES
<1>2. /\ state'[c] = "draft" /\ \A d \in Calls : d # c => state'[d] = state[d]
      /\ drafting' = drafting \ {c}
      /\ UNCHANGED <<age, confirmedBy, worker, outcome, enabled, tap, pushed, reaping,
                     toReap, queue, request, dialers, wontCall, crashes>>
    BY <1>1 DEF CommitPlan, TypeOK
<1>3. TypeOK'
    BY <1>1 DEF CommitPlan, TypeOK, States
<1>4. OwnerInv /\ OwnerInv' /\ PlacedInv'
    BY <1>1, <1>2 DEF IInv, OwnerInv, PlacedInv
<1>5. HeldInv'
    BY <1>1, <1>2 DEF IInv, TypeOK, HeldInv
<1>6. Promise!Ask(c)
    BY <1>1, <1>2, <1>4, PhaseIs DEF PhaseOf, Promise!Ask, Promise!Move
<1>7. LinkStep
    BY <1>1, <1>2, StatusOfPlaced DEF LinkStep, Link!CallSteps, status
<1> QED
    BY <1>3, <1>4, <1>5, <1>6, <1>7 DEF IInv, Promise!Next

\* The tap authorises that very call.
LEMMA ConfirmSteps ==
    ASSUME IInv, NEW c \in Calls, Confirm(c)
    PROVE  IInv' /\ Promise!Next /\ LinkStep
<1>1. TypeOK /\ state[c] = "draft" /\ dialers[c] = {}
    BY DEF IInv, PlacedInv, Confirm, Placed, ACTIVE_STATES
<1>2. /\ state'[c] = "confirmed" /\ \A d \in Calls : d # c => state'[d] = state[d]
      /\ confirmedBy' = [confirmedBy EXCEPT ![c] = TRUE] /\ tap' = c
      /\ UNCHANGED <<worker, outcome, drafting, toReap, request, dialers>>
    BY <1>1 DEF Confirm, TypeOK
<1>3. TypeOK'
    BY <1>1 DEF Confirm, TypeOK, States, Ages
<1>4. OwnerInv /\ OwnerInv' /\ PlacedInv'
    BY <1>1, <1>2 DEF IInv, TypeOK, OwnerInv, PlacedInv
<1>5. HeldInv'
    BY <1>1, <1>2 DEF IInv, TypeOK, HeldInv
<1>6. Promise!Approve(c)
    BY <1>1, <1>2, <1>4, PhaseIs DEF PhaseOf, Promise!Approve, Promise!Move
<1>7. LinkStep
    BY <1>1, <1>2, StatusOfPlaced DEF LinkStep, Link!CallSteps, status
<1> QED
    BY <1>3, <1>4, <1>5, <1>6, <1>7 DEF IInv, Promise!Next

\* A claim places the call of whoever wins it, once.
LEMMA ClaimSteps ==
    ASSUME IInv, NEW w \in Workers, NEW c \in Calls, ClaimDial(w, c)
    PROVE  IInv' /\ Promise!Next /\ LinkStep
<1>1. TypeOK /\ state[c] = "confirmed" /\ dialers[c] = {} /\ confirmedBy[c]
    BY DEF IInv, PlacedInv, ClaimDial, Claim, Placed, ACTIVE_STATES
<1>2. /\ state'[c] = "dialing" /\ worker'[c] = w /\ dialers'[c] = {w}
      /\ \A d \in Calls : d # c => /\ state'[d] = state[d] /\ worker'[d] = worker[d]
                                   /\ dialers'[d] = dialers[d]
      /\ UNCHANGED <<confirmedBy, outcome, drafting, tap, toReap, request>>
    BY <1>1 DEF ClaimDial, Claim, TypeOK, loop
<1>3. TypeOK'
    <2>1. /\ state' \in [Calls -> States] /\ worker' \in [Calls -> Workers \cup {NoWorker}]
          /\ dialers' \in [Calls -> SUBSET Workers]
        BY <1>1 DEF ClaimDial, Claim, TypeOK, States, ACTIVE_STATES
    <2>2. UNCHANGED <<age, confirmedBy, outcome, today, enabled, loop, queue, request,
                      wontCall, crashes>>
        BY DEF ClaimDial, Claim
    <2> QED
        BY <1>1, <2>1, <2>2 DEF TypeOK, loop
<1>4. OwnerInv /\ OwnerInv' /\ PlacedInv'
    BY <1>1, <1>2 DEF IInv, OwnerInv, PlacedInv, Placed, ACTIVE_STATES
<1>5. HeldInv'
    <2>1. \A d \in Calls : dialers[d] # {} => dialers'[d] # {}
        BY <1>2
    <2>2. \A t \in Threads : request[t] # NoRequest => request[t].call \in Calls
        BY <1>1 DEF TypeOK, Requests
    <2>3. tap # NoCall /\ dialers'[tap] = {} => tap # c /\ state[tap] = "confirmed"
        BY <1>1, <1>2, <2>1 DEF IInv, TypeOK, HeldInv
    <2>4. \A d \in drafting : state'[d] = "none"
        BY <1>1, <1>2 DEF IInv, TypeOK, HeldInv
    <2> QED
        BY <1>1, <1>2, <2>1, <2>2, <2>3, <2>4 DEF IInv, TypeOK, HeldInv
<1>6. Promise!Place(c)
    BY <1>1, <1>2, <1>4, PhaseIs DEF PhaseOf, Promise!Place, Promise!Move
<1>7. LinkStep
    BY <1>1, <1>2, StatusOfPlaced DEF LinkStep, Link!CallSteps, status, ACTIVE_STATES
<1> QED
    BY <1>3, <1>4, <1>5, <1>6, <1>7 DEF IInv, Promise!Next

-----------------------------------------------------------------------------
(* The other taps, and the queue.                                          *)

LEMMA TapSteps ==
    ASSUME IInv, NEW c \in Calls, RefuseConfirm(c) \/ CancelCall(c) \/ DeclineForErrand(c)
    PROVE  IInv' /\ Promise!Next /\ LinkStep
<1>1. /\ state' \in [Calls -> States]
      /\ \A d \in Calls : d # c => state'[d] = state[d]
      /\ \/ state'[c] = state[c]
         \/ state[c] = "draft" /\ state'[c] \in {"declined", "expired"}
    <2>1. \A s \in States : Transition(s, "declined") \in
              IF s = "draft" THEN {"declined"} ELSE {s}
        BY DEF Transition, TRANSITIONS, States, ACTIVE_STATES, TERMINAL_STATES
    <2>2. state \in [Calls -> States] /\ state[c] \in States
        BY DEF IInv, TypeOK
    <2>3. {"declined", "expired"} \subseteq States
        BY DEF States, TERMINAL_STATES
    <2>4. CASE RefuseConfirm(c)
        BY <2>1, <2>2, <2>3, <2>4 DEF RefuseConfirm
    <2>5. CASE CancelCall(c)
        BY <2>2, <2>3, <2>5 DEF CancelCall
    <2>6. CASE DeclineForErrand(c)
        BY <2>1, <2>2, <2>3, <2>6 DEF DeclineForErrand
    <2> QED
        BY <2>4, <2>5, <2>6
<1>2. /\ wontCall' \subseteq Calls
      /\ UNCHANGED <<age, confirmedBy, worker, outcome, today, enabled, loop, queue, request,
                     dialers, crashes>>
      /\ tap = NoCall
    BY DEF RefuseConfirm, CancelCall, DeclineForErrand, LoopFree, IInv, TypeOK
<1>3. TypeOK'
    BY <1>1, <1>2 DEF IInv, TypeOK, loop
<1>4. Moves /\ Holds
    BY <1>1, <1>2 DEF Moves, Holds, loop, IInv, HeldInv
<1> QED
    BY <1>2, <1>3, <1>4, MovesKeep

\* The blocked tap: its verdict lands on the row it has confirmed, or that a
\* worker has claimed meanwhile.
LEMMA EnqueueSteps ==
    ASSUME IInv, PushJob \/ EnqueueReturns \/ EnqueueRaises
    PROVE  IInv' /\ Promise!Next /\ LinkStep
<1>1. tap \in Calls /\ TypeOK
    BY DEF IInv, TypeOK, PushJob, EnqueueReturns, EnqueueRaises, EndTap
<1>2. /\ state' \in [Calls -> States]
      /\ state' = state \/ (tap' = NoCall /\ state' = [state EXCEPT ![tap] = "failed"])
      /\ tap' \in {tap, NoCall} /\ pushed' \in BOOLEAN /\ queue' \subseteq Calls
      /\ tap' # NoCall => state' = state
      /\ UNCHANGED <<age, confirmedBy, worker, outcome, today, enabled, drafting, reaping,
                     toReap, request, dialers, wontCall, crashes>>
    <2>1. "failed" \in States
        BY DEF States, TERMINAL_STATES
    <2>2. CASE PushJob
        BY <1>1, <2>2 DEF PushJob, TypeOK, row
    <2>3. CASE EnqueueReturns
        BY <1>1, <2>3 DEF EnqueueReturns, TypeOK, row
    <2>4. CASE EnqueueRaises
        BY <1>1, <2>1, <2>4 DEF EnqueueRaises, EndTap, TypeOK
    <2> QED
        BY <2>2, <2>3, <2>4
<1>3. TypeOK'
    BY <1>1, <1>2 DEF TypeOK
<1>4. Moves
    <2>1. dialers[tap] = {} => state[tap] = "confirmed"
        BY <1>1 DEF IInv, HeldInv
    <2> QED
        BY <1>1, <1>2, <2>1 DEF Moves, Placed, TypeOK
<1>5. Holds
    BY <1>1, <1>2 DEF Holds, IInv, HeldInv
<1> QED
    BY <1>2, <1>3, <1>4, <1>5, MovesKeep

-----------------------------------------------------------------------------
(* Gateway events.                                                         *)

\* An event is about a call that was placed when it was received, and is.
LEMMA EventSteps ==
    ASSUME IInv, NEW t \in Threads,
           Apply(t) \/ (\E c \in Calls, e \in EventKinds : Receive(t, c, e))
    PROVE  IInv' /\ Promise!Next /\ LinkStep
<1>1. TypeOK
    BY DEF IInv
<1>2. CASE Apply(t)
    <2> DEFINE r == request[t]
    <2>1. r \in Requests /\ r.call \in Calls /\ r.event \in Events /\ dialers[r.call] # {}
        BY <1>1, <1>2 DEF Apply, TypeOK, Requests, IInv, HeldInv
    <2>2. /\ request' = [request EXCEPT ![t] = NoRequest]
          /\ UNCHANGED <<confirmedBy, worker, today, enabled, loop, queue, dialers, wontCall,
                         crashes>>
        BY <1>2 DEF Apply
    <2>3. Decided(r) = r.read \/ Decided(r) \in Placed
        BY DEF Decided, StateEvents, Placed, ACTIVE_STATES
    <2>4. Placed \subseteq States
        BY DEF Placed, States, TERMINAL_STATES
    <2>5. /\ state' \in [Calls -> States]
          /\ \A c \in Calls : state'[c] = state[c] \/ (c = r.call /\ state'[c] \in Placed)
        <3>1. CASE Accepts(r)
            <4>1. state' = [state EXCEPT ![r.call] = IF Decided(r) = r.read THEN @
                                                     ELSE Decided(r)]
                BY <1>2, <3>1 DEF Apply
            <4> HIDE DEF r
            <4> QED
                BY <1>1, <2>1, <2>3, <2>4, <4>1 DEF TypeOK
        <3>2. CASE ~Accepts(r)
            BY <1>1, <1>2, <3>2 DEF Apply, TypeOK
        <3> QED
            BY <3>1, <3>2
    <2>6. age' \in [Calls -> Ages] /\ outcome' \in [Calls -> Outcomes]
        BY <1>1, <1>2, <2>1 DEF Apply, TypeOK, Ages, Outcomes, OutcomeEvents
    <2>7. TypeOK'
        BY <1>1, <2>2, <2>5, <2>6 DEF TypeOK, loop
    <2>8. Moves
        BY <2>1, <2>5 DEF Moves
    <2>9. Holds
        BY <1>1, <2>1, <2>2, <2>5 DEF Holds, loop, IInv, HeldInv, TypeOK
    <2> QED
        BY <2>2, <2>7, <2>8, <2>9, MovesKeep
<1>3. CASE \E c \in Calls, e \in EventKinds : Receive(t, c, e)
    <2>1. PICK c \in Calls, e \in EventKinds : Receive(t, c, e)
        BY <1>3
    <2> DEFINE r == [call |-> c, event |-> e, read |-> state[c]]
    <2>2. r \in Requests /\ r.call = c /\ dialers[c] # {}
        BY <1>1, <2>1 DEF Receive, Requests, TypeOK
    <2>3. /\ request' = [request EXCEPT ![t] = r]
          /\ UNCHANGED <<row, today, enabled, loop, queue, dialers, wontCall, crashes>>
        BY <2>1 DEF Receive
    <2> HIDE DEF r
    <2>4. TypeOK'
        BY <1>1, <2>2, <2>3 DEF TypeOK, row, loop
    <2>5. Moves /\ Holds
        BY <1>1, <2>2, <2>3 DEF Moves, Holds, row, loop, IInv, HeldInv, TypeOK
    <2> QED
        BY <2>3, <2>4, <2>5, MovesKeep DEF row
<1> QED
    BY <1>2, <1>3

-----------------------------------------------------------------------------
(* The reaper, and the environment.                                        *)

LEMMA ReapStartSteps ==
    ASSUME IInv, ReapStart
    PROVE  IInv' /\ Promise!Next /\ LinkStep
<1>1. /\ reaping' \in BOOLEAN /\ tap = NoCall
      /\ toReap' = [c \in Calls |-> IF c \in Active THEN age[c] ELSE "no"]
      /\ UNCHANGED <<row, today, enabled, drafting, tap, pushed, queue, request, dialers,
                     wontCall, crashes>>
    BY DEF ReapStart, LoopFree
<1>2. toReap' \in [Calls -> Ages \cup {"no", "reload"}]
    BY <1>1 DEF IInv, TypeOK
<1>3. TypeOK'
    BY <1>1, <1>2 DEF IInv, TypeOK, row
<1>4. \A c \in Calls : toReap'[c] # "no" => dialers[c] # {}
    BY <1>1 DEF IInv, PlacedInv, Active, ACTIVE_STATES
<1>5. Moves /\ Holds
    BY <1>1, <1>4 DEF Moves, Holds, row, IInv, HeldInv
<1> QED
    BY <1>1, <1>3, <1>5, MovesKeep DEF row

\* A visit fails a call that was placed, whatever it has become.
LEMMA ReapVisitSteps ==
    ASSUME IInv, NEW c \in Calls, ReapVisit(c)
    PROVE  IInv' /\ Promise!Next /\ LinkStep
<1>1. /\ TypeOK /\ tap = NoCall /\ dialers[c] # {}
      /\ UNCHANGED <<age, confirmedBy, worker, outcome, today, enabled, drafting, tap, pushed,
                     reaping, queue, request, dialers, wontCall, crashes>>
    BY DEF ReapVisit, Visit, LoopFree, IInv, HeldInv
<1>2. \/ /\ state' = [state EXCEPT ![c] = "failed"]
         /\ toReap' = [d \in Calls |-> IF d = c \/ toReap[d] = "no" THEN "no" ELSE "reload"]
      \/ state' = state /\ toReap' = [toReap EXCEPT ![c] = "no"]
    BY DEF ReapVisit, Visit
<1>3. "failed" \in States /\ "failed" \in Placed
    BY DEF States, TERMINAL_STATES, Placed
<1>4. /\ state' \in [Calls -> States] /\ toReap' \in [Calls -> Ages \cup {"no", "reload"}]
      /\ \A d \in Calls : state'[d] = state[d] \/ (d = c /\ state'[d] \in Placed)
      /\ \A d \in Calls : toReap'[d] # "no" => toReap[d] # "no"
    BY <1>1, <1>2, <1>3 DEF TypeOK
<1>5. TypeOK'
    BY <1>1, <1>4 DEF TypeOK
<1>6. Moves
    BY <1>1, <1>4 DEF Moves
<1>7. Holds
    BY <1>1, <1>4 DEF Holds, IInv, HeldInv
<1> QED
    BY <1>1, <1>5, <1>6, <1>7, MovesKeep

LEMMA ReapFinishSteps ==
    ASSUME IInv, ReapFinish
    PROVE  IInv' /\ Promise!Next /\ LinkStep
<1>1. /\ TypeOK /\ tap = NoCall /\ reaping' \in BOOLEAN
      /\ UNCHANGED <<age, confirmedBy, worker, outcome, today, enabled, drafting, tap, pushed,
                     toReap, queue, request, dialers, wontCall, crashes>>
      /\ state' = [c \in Calls |->
                      IF c \in {d \in Calls : state[d] = "draft" /\ age[d] = "over"}
                      THEN "expired" ELSE state[c]]
    BY DEF ReapFinish, EndPass, LoopFree, IInv
<1>2. "expired" \in States
    BY DEF States, TERMINAL_STATES
<1>3. TypeOK'
    BY <1>1, <1>2 DEF TypeOK
<1>4. Moves /\ Holds
    BY <1>1 DEF Moves, Holds, IInv, HeldInv
<1> QED
    BY <1>1, <1>3, <1>4, MovesKeep

LEMMA AroundSteps ==
    ASSUME IInv,
           \/ \E c \in Calls : LoseJob(c) \/ \E a \in Ages : AgeTo(c, a)
           \/ NewDay \/ ToggleGate \/ Crash
    PROVE  IInv' /\ Promise!Next /\ LinkStep
<1>1. TypeOK
    BY DEF IInv
<1>2. /\ UNCHANGED <<state, confirmedBy, worker, outcome, dialers, wontCall>>
      /\ age' \in [Calls -> Ages] /\ today' \subseteq Calls /\ enabled' \in BOOLEAN
      /\ drafting' \subseteq drafting /\ tap' \in {tap, NoCall} /\ pushed' \in BOOLEAN
      /\ queue' \subseteq Calls /\ reaping' \in BOOLEAN /\ crashes' \in Nat
      /\ request' = request \/ request' = [t \in Threads |-> NoRequest]
      /\ toReap' = toReap \/ toReap' = [c \in Calls |-> "no"]
    <2>1. CASE \E c \in Calls : LoseJob(c)
        BY <1>1, <2>1 DEF LoseJob, TypeOK, row, loop
    <2>2. CASE \E c \in Calls, a \in Ages : AgeTo(c, a)
        BY <1>1, <2>2 DEF AgeTo, TypeOK, loop
    <2>3. CASE NewDay
        BY <1>1, <2>3 DEF NewDay, TypeOK, row, loop
    <2>4. CASE ToggleGate
        <3>1. enabled' \in BOOLEAN
            BY <2>4 DEF ToggleGate
        <3>2. UNCHANGED <<row, today, loop, queue, request, dialers, wontCall, crashes>>
            BY <2>4 DEF ToggleGate
        <3> QED
            BY <1>1, <3>1, <3>2 DEF TypeOK, row, loop
    <2>5. CASE Crash
        <3>1. reaping' \in BOOLEAN /\ pushed' \in BOOLEAN
            BY <2>5 DEF Crash
        <3>2. /\ UNCHANGED <<row, today, enabled, queue, dialers, wontCall>>
              /\ crashes' = crashes + 1 /\ drafting' = {} /\ tap' = NoCall
              /\ toReap' = [c \in Calls |-> "no"]
              /\ request' = [t \in Threads |-> NoRequest]
            BY <2>5 DEF Crash
        <3> QED
            BY <1>1, <3>1, <3>2 DEF TypeOK, row
    <2> QED
        BY <2>1, <2>2, <2>3, <2>4, <2>5
<1>3. TypeOK'
    BY <1>1, <1>2 DEF TypeOK
<1>4. Moves /\ Holds
    BY <1>1, <1>2 DEF Moves, Holds, IInv, HeldInv
<1> QED
    BY <1>2, <1>3, <1>4, MovesKeep

-----------------------------------------------------------------------------
LEMMA NextSteps ==
    ASSUME IInv, Next
    PROVE  IInv' /\ Promise!Next /\ LinkStep
BY PlanSteps, CommitPlanSteps, ConfirmSteps, ClaimSteps, TapSteps, EnqueueSteps, EventSteps,
   ReapStartSteps, ReapVisitSteps, ReapFinishSteps, AroundSteps
   DEF Next

LEMMA StutterKeeps ==
    ASSUME IInv, UNCHANGED vars
    PROVE  IInv' /\ UNCHANGED Promise!vars
BY DEF vars, row, loop, seen, IInv, TypeOK, OwnerInv, PlacedInv, HeldInv, Promise!vars, phase

LEMMA Invariance == Spec => []IInv
<1>1. IInv /\ [Next]_vars => IInv'
    BY NextSteps, StutterKeeps
<1> QED
    BY <1>1, InitHolds, PTL DEF Spec

\* Rows, tasks, threads and the queue are well formed.
THEOREM TypeCorrect == Spec => []TypeOK
<1>1. IInv => TypeOK
    BY DEF IInv
<1> QED
    BY <1>1, Invariance, PTL

\* A call under way has been claimed by the worker its row names, and by no
\* other: what is sent to the call reaches the worker on the line.
THEOREM ActiveHasOwnerHolds == Spec => []ActiveHasOwner
<1>1. IInv => ActiveHasOwner
    <2> SUFFICES ASSUME IInv, NEW c \in Active
                 PROVE  worker[c] # NoWorker /\ dialers[c] = {worker[c]}
        BY DEF ActiveHasOwner
    <2>1. dialers[c] # {}
        BY DEF IInv, PlacedInv, Active, ACTIVE_STATES
    <2> QED
        BY <2>1 DEF IInv, OwnerInv, Active
<1> QED
    BY <1>1, Invariance, PTL

\* A session keeps the promise of module CallPromise: placed at most once,
\* only after a tap on that very plan, and never after it was refused.
THEOREM PromiseKept == Spec => ImplementsPromise
<1>1. Init => Promise!Init
    <2> SUFFICES ASSUME Init
                 PROVE  Promise!Init
        OBVIOUS
    <2>1. Cardinality({}) = 0 /\ ~(0 > 1)
        BY FS_EmptySet
    <2> QED
        BY <2>1 DEF Init, Promise!Init, phase
<1>2. IInv /\ [Next]_vars => [Promise!Next]_(Promise!vars)
    BY NextSteps, StutterKeeps
<1> QED
    BY <1>1, <1>2, Invariance, PTL DEF Spec, ImplementsPromise, Promise!Spec

\* What module WorkflowRun assumes of a linked call: it takes no other steps.
THEOREM LinkedAsAssumedHolds == Spec => LinkedAsAssumed
<1>1. IInv /\ [Next]_vars =>
          [\A c \in Calls :
              \/ status'[c] = status[c]
              \/ <<status[c], status'[c]>> \in Link!CallSteps \cup {<<"none", "draft">>}]_vars
    BY NextSteps DEF LinkStep
<1> QED
    BY <1>1, Invariance, PTL DEF Spec, LinkedAsAssumed
=============================================================================
