------------------------ MODULE AdapterTraining_proofs ------------------------
(***************************************************************************)
(* Proofs about AdapterTraining for every number of trainings, requests,   *)
(* examples, restarts and failing ticks.                                   *)
(***************************************************************************)
EXTENDS AdapterTraining, FiniteSetTheorems, TLAPS

\* What may be live: nothing, or what was evaluated and approved.
Fit == {None} \cup (passed \cap approved)

RowsInv ==
    /\ active \in Fit /\ replaced \in Fit
    /\ \A r \in Runs : status[r] # "none" => r \in passed

\* What a tick is about to write: a run that passed, over an adapter that was
\* fit, and in the place of every pending proposal.
TickInv ==
    /\ tick.cut <= fresh
    /\ tick.run \in passed \cup {None} /\ tick.prior \in Fit
    /\ tick.supersedes \subseteq passed
    /\ tick.run # None /\ ~tick.auto => PriorPending \subseteq tick.supersedes

\* What a request is about to write: the run of its proposal, when the tap
\* applies it, or an adapter that was fit.
RequestInv ==
    \A t \in Threads :
        /\ request[t].prior \in Fit
        /\ request[t].run \in passed \cup {None}
        /\ request[t].status \in {"none", "applied", "dismissed", "expired"}
        /\ request[t].stage = "loaded" =>
               request[t].status \in {"applied", "dismissed"} /\ request[t].to = None
        /\ request[t].stage = "reverting" => request[t].status = "none"
        /\ request[t].status = "none" => request[t].to \in Fit
        /\ request[t].status # "none" =>
               /\ request[t].run # None
               /\ request[t].to # None =>
                      request[t].to = request[t].run /\ request[t].status = "applied"

AtMostOne == \A r, s \in PriorPending : r = s

IInv == TypeOK /\ RowsInv /\ TickInv /\ RequestInv /\ AtMostOne

USE TrainingAssumption

LEMMA InitHolds == Init => IInv
<1> SUFFICES ASSUME Init
             PROVE  IInv
    OBVIOUS
<1>1. NoTick \in Ticks /\ NoRequest \in Requests
    BY DEF NoTick, Ticks, NoRequest, Requests, Adapters, Statuses
<1>2. TypeOK
    <2>1. active \in Adapters /\ replaced \in Adapters /\ tick \in Ticks
        BY <1>1 DEF Init, Adapters
    <2>2. status \in [Runs -> Statuses] /\ request \in [Threads -> Requests]
        BY <1>1 DEF Init, Statuses
    <2>3. fresh \in 0 .. MaxExamples /\ troubles \in 0 .. MaxTroubles
        BY DEF Init
    <2> QED
        BY <2>1, <2>2, <2>3 DEF Init, TypeOK
<1>3. RowsInv /\ AtMostOne
    BY DEF Init, RowsInv, Fit, AtMostOne, PriorPending
<1>4. TickInv
    BY DEF Init, TickInv, NoTick, Fit
<1>5. RequestInv
    BY DEF Init, RequestInv, NoRequest, Fit
<1> QED
    BY <1>2, <1>3, <1>4, <1>5 DEF IInv

-----------------------------------------------------------------------------
(* The tick.                                                               *)

\* A step that changes the tick and not the rows.
LEMMA TickKeeps ==
    ASSUME IInv,
           tick' \in Ticks, tick'.cut <= fresh,
           passed' \subseteq Runs, acted' \subseteq Runs, passed \subseteq passed',
           tick'.run \in passed' \cup {None}, tick'.prior \in Fit,
           tick'.supersedes \subseteq passed,
           tick'.run # None /\ ~tick'.auto => PriorPending \subseteq tick'.supersedes,
           troubles' \in 0 .. MaxTroubles,
           UNCHANGED <<fresh, cooling, isTraining, status, active, replaced, approved,
                       overdue, request>>
    PROVE  IInv'
<1>1. TypeOK'
    BY DEF IInv, TypeOK
<1>2. Fit \subseteq Fit' /\ PriorPending' = PriorPending
    BY DEF Fit, PriorPending
<1>3. RowsInv' /\ AtMostOne'
    BY <1>2 DEF IInv, RowsInv, AtMostOne
<1>4. TickInv'
    BY <1>2 DEF TickInv
<1>5. RequestInv'
    BY <1>2 DEF IInv, RequestInv
<1> QED
    BY <1>1, <1>3, <1>4, <1>5 DEF IInv

LEMMA NoTickFacts ==
    /\ NoTick \in Ticks /\ NoTick.cut = 0 /\ NoTick.run = None /\ NoTick.prior = None
    /\ NoTick.supersedes = {} /\ NoTick.auto = FALSE
BY DEF NoTick, Ticks, Adapters

LEMMA TickStepsKeep ==
    ASSUME IInv,
           \/ \E auto \in Modes : Acquires(auto)
           \/ TrainingFails \/ Writes \/ Raises \/ TickFails
    PROVE  IInv'
<1>1. /\ tick \in Ticks /\ tick.cut <= fresh /\ fresh \in 0 .. MaxExamples
      /\ troubles \in 0 .. MaxTroubles /\ None \in Fit
      /\ passed \subseteq Runs /\ acted \subseteq Runs
      /\ tick.run \in passed \cup {None} /\ tick.prior \in Fit
      /\ tick.supersedes \subseteq passed
      /\ tick.run # None /\ ~tick.auto => PriorPending \subseteq tick.supersedes
    BY DEF IInv, TypeOK, TickInv, Fit
<1>2. CASE \E auto \in Modes : Acquires(auto)
    <2>1. PICK auto \in Modes : Acquires(auto)
        BY <1>2
    <2>2. /\ tick' \in Ticks /\ tick'.cut = 0 /\ tick'.run = None /\ tick'.prior = None
          /\ tick'.supersedes = {}
        BY <2>1, NoTickFacts DEF Acquires, Ticks
    <2>3. UNCHANGED <<fresh, cooling, isTraining, status, acted, active, replaced,
                      troubles, passed, approved, overdue, request>>
        BY <2>1 DEF Acquires, TickOnly
    <2> QED
        BY <1>1, <2>2, <2>3, TickKeeps
<1>3. CASE TrainingFails
    <2>1. /\ tick' \in Ticks /\ tick'.cut = fresh /\ tick'.run = tick.run
          /\ tick'.prior = tick.prior /\ tick'.supersedes = tick.supersedes
          /\ tick'.auto = tick.auto
        BY <1>1, <1>3 DEF TrainingFails, Ticks
    <2>2. UNCHANGED <<fresh, cooling, isTraining, status, acted, active, replaced,
                      troubles, passed, approved, overdue, request>>
        BY <1>3 DEF TrainingFails, TickOnly
    <2> QED
        BY <1>1, <2>1, <2>2, TickKeeps
<1>4. CASE Writes
    <2>1. /\ tick' \in Ticks
          /\ \/ tick' = NoTick
             \/ /\ tick'.cut = tick.cut /\ tick'.run = tick.run
                /\ tick'.prior = tick.prior /\ tick'.supersedes = tick.supersedes
                /\ tick'.auto = tick.auto
        BY <1>1, <1>4, NoTickFacts DEF Writes, Ticks
    <2>2. UNCHANGED <<fresh, cooling, isTraining, status, acted, active, replaced,
                      troubles, passed, approved, overdue, request>>
        BY <1>4 DEF Writes, TickOnly
    <2> QED
        BY <1>1, <2>1, <2>2, NoTickFacts, TickKeeps
<1>5. CASE Raises
    <2>1. /\ tick' \in Ticks
          /\ tick'.cut = tick.cut /\ tick'.run = tick.run
          /\ tick'.prior = tick.prior /\ tick'.supersedes = tick.supersedes
          /\ tick'.auto = tick.auto
        BY <1>1, <1>5 DEF Raises, Ticks
    <2>2. /\ troubles' \in 0 .. MaxTroubles
          /\ UNCHANGED <<fresh, cooling, isTraining, status, acted, active, replaced,
                         passed, approved, overdue, request>>
        BY <1>1, <1>5 DEF Raises, TickOnly
    <2> QED
        BY <1>1, <2>1, <2>2, TickKeeps
<1>6. CASE TickFails
    <2>1. /\ tick' = NoTick /\ troubles' \in 0 .. MaxTroubles
          /\ UNCHANGED <<fresh, cooling, isTraining, status, acted, active, replaced,
                         passed, approved, overdue, request>>
        BY <1>1, <1>6 DEF TickFails, TickOnly
    <2> QED
        BY <1>1, <2>1, NoTickFacts, TickKeeps
<1> QED
    BY <1>2, <1>3, <1>4, <1>5, <1>6

\* Only a PASS is acted on, and takes the place of what is pending.
LEMMA EvaluatedKeeps ==
    ASSUME IInv, NEW run \in Runs, NEW verdict \in {"PASS", "FAIL", "MISSING"},
           Evaluated(run, verdict)
    PROVE  IInv'
<1>1. /\ tick \in Ticks /\ tick.cut <= fresh /\ fresh \in 0 .. MaxExamples
      /\ troubles \in 0 .. MaxTroubles /\ active \in Fit /\ active \in Adapters
      /\ passed \subseteq Runs /\ acted \subseteq Runs
      /\ tick.run \in passed \cup {None} /\ tick.prior \in Fit
      /\ tick.supersedes \subseteq passed
      /\ tick.run # None /\ ~tick.auto => PriorPending \subseteq tick.supersedes
      /\ PriorPending \subseteq passed
    BY DEF IInv, TypeOK, TickInv, RowsInv, PriorPending
<1>2. /\ UNCHANGED <<fresh, cooling, isTraining, status, active, replaced, troubles,
                     approved, overdue, request>>
      /\ passed \subseteq passed' /\ passed' \subseteq Runs /\ acted' \subseteq Runs
    BY <1>1 DEF Evaluated, TickOnly
<1>3. CASE verdict = "PASS"
    <2>1. /\ run \in passed'
          /\ tick' = [tick EXCEPT !.stage = "writing", !.run = run, !.cut = fresh,
                                  !.prior = active,
                                  !.supersedes = IF tick.auto THEN {} ELSE PriorPending]
        BY <1>3 DEF Evaluated, ActsOn
    <2>2. /\ tick' \in Ticks /\ tick'.run = run /\ tick'.cut = fresh
          /\ tick'.prior = active /\ tick'.auto = tick.auto
          /\ tick'.supersedes = IF tick.auto THEN {} ELSE PriorPending
        BY <1>1, <2>1 DEF Ticks, PriorPending, Adapters
    <2> QED
        BY <1>1, <1>2, <2>1, <2>2, TickKeeps
<1>4. CASE verdict # "PASS"
    <2>1. /\ tick' \in Ticks /\ tick'.run = tick.run /\ tick'.cut = fresh
          /\ tick'.prior = tick.prior /\ tick'.auto = tick.auto
          /\ tick'.supersedes = tick.supersedes
        BY <1>1, <1>4 DEF Evaluated, ActsOn, Ticks
    <2> QED
        BY <1>1, <1>2, <2>1, TickKeeps
<1> QED
    BY <1>3, <1>4

\* The commit of a tick: what it deploys passed and is approved by it, and
\* what it proposes is the only proposal that is left pending.
LEMMA TickCommitsKeeps ==
    ASSUME IInv, TickCommits
    PROVE  IInv'
<1>1. /\ TypeOK /\ RowsInv /\ TickInv /\ RequestInv /\ AtMostOne
      /\ tick \in Ticks /\ tick.run \in Adapters /\ tick.prior \in Adapters
    BY DEF IInv, TypeOK, Ticks
<1>2. /\ tick' = NoTick /\ fresh' = fresh - tick.cut /\ isTraining' = FALSE
      /\ cooling' \in BOOLEAN
      /\ UNCHANGED <<acted, troubles, passed, overdue, request>>
    BY <1>1 DEF TickCommits, TickOnly, TypeOK
<1>3. /\ approved \subseteq approved'
      /\ approved' \subseteq Runs
      /\ active' \in {active, tick.run} /\ replaced' \in {replaced, tick.prior}
      /\ active' # active => tick.run # None /\ tick.run \in approved'
    BY <1>1 DEF TickCommits, Deploys, TypeOK, Adapters
<1>4. /\ status' \in [Runs -> Statuses]
      /\ \A r \in Runs : \/ status'[r] = status[r] /\ r \notin tick.supersedes
                         \/ status'[r] = "superseded" /\ r \in tick.supersedes
                         \/ status'[r] = "pending" /\ r = tick.run /\ ~tick.auto
    <2>1. \A r \in Runs :
              status'[r] = CASE r \in tick.supersedes -> "superseded"
                             [] r = tick.run /\ ~tick.auto -> "pending"
                             [] OTHER -> status[r]
        BY DEF TickCommits
    <2>2. \A r \in Runs : \/ status'[r] = status[r] /\ r \notin tick.supersedes
                          \/ status'[r] = "superseded" /\ r \in tick.supersedes
                          \/ status'[r] = "pending" /\ r = tick.run /\ ~tick.auto
        BY <2>1
    <2>3. status' \in [Runs -> Statuses]
        BY <1>1, <2>2 DEF TickCommits, TypeOK, Statuses
    <2> QED
        BY <2>2, <2>3
<1>5. TypeOK'
    <2>1. fresh' \in 0 .. MaxExamples
        BY <1>1, <1>2 DEF TypeOK, TickInv, Ticks
    <2> QED
        BY <1>1, <1>2, <1>3, <1>4, <2>1, NoTickFacts DEF TypeOK
<1>6. Fit \subseteq Fit' /\ None \in Fit
    BY <1>2, <1>3 DEF Fit
<1>7. RowsInv'
    <2>1. active' \in Fit' /\ replaced' \in Fit'
        BY <1>1, <1>2, <1>3, <1>6 DEF RowsInv, TickInv, Fit
    <2>2. \A r \in Runs : status'[r] # "none" => r \in passed'
        BY <1>1, <1>2, <1>4 DEF RowsInv, TickInv
    <2> QED
        BY <2>1, <2>2 DEF RowsInv
<1>8. TickInv'
    BY <1>2, <1>5, <1>6, NoTickFacts DEF TickInv, TypeOK
<1>9. RequestInv'
    BY <1>1, <1>2, <1>6 DEF RequestInv
<1>10. AtMostOne'
    BY <1>1, <1>4 DEF AtMostOne, PriorPending, TickInv
<1> QED
    BY <1>5, <1>7, <1>8, <1>9, <1>10 DEF IInv

-----------------------------------------------------------------------------
(* Taps.                                                                   *)

\* What a request may carry.
Sound(r) ==
    /\ r \in Requests /\ r.prior \in Fit /\ r.run \in passed \cup {None}
    /\ r.status \in {"none", "applied", "dismissed", "expired"}
    /\ r.stage = "loaded" => r.status \in {"applied", "dismissed"} /\ r.to = None
    /\ r.stage = "reverting" => r.status = "none"
    /\ r.status = "none" => r.to \in Fit
    /\ r.status # "none" =>
           /\ r.run # None
           /\ r.to # None => r.to = r.run /\ r.status = "applied"

LEMMA RequestsAreSound ==
    ASSUME IInv, NEW t \in Threads
    PROVE  Sound(request[t])
BY DEF IInv, TypeOK, RequestInv, Sound

LEMMA NoRequestFacts ==
    /\ NoRequest \in Requests /\ NoRequest.stage = "free" /\ NoRequest.run = None
    /\ NoRequest.status = "none" /\ NoRequest.prior = None /\ NoRequest.to = None
    /\ Sound(NoRequest)
BY DEF Sound, NoRequest, Requests, Adapters, Statuses, Fit

\* A request goes on, and the rows stay.
LEMMA RequestKeeps ==
    ASSUME IInv, NEW t \in Threads, NEW r, Sound(r), Goes(t, r), RowsKept, TapOnly
    PROVE  IInv'
<1>1. /\ request' \in [Threads -> Requests]
      /\ request'[t] = r /\ \A u \in Threads : u # t => request'[u] = request[u]
      /\ UNCHANGED <<status, active, replaced, approved, fresh, cooling, isTraining, tick,
                     acted, overdue, troubles, passed>>
    BY DEF IInv, TypeOK, Sound, Goes, RowsKept, TapOnly
<1>2. TypeOK'
    BY <1>1 DEF IInv, TypeOK
<1>3. Fit' = Fit /\ PriorPending' = PriorPending
    BY <1>1 DEF Fit, PriorPending
<1>4. RowsInv' /\ TickInv' /\ AtMostOne'
    BY <1>1, <1>3 DEF IInv, RowsInv, TickInv, AtMostOne
<1>5. RequestInv'
    BY <1>1, <1>3 DEF IInv, RequestInv, Sound
<1> QED
    BY <1>2, <1>4, <1>5 DEF IInv

LEMMA LoadsKeeps ==
    ASSUME IInv, NEW t \in Threads, NEW run \in Runs,
           NEW decision \in {"applied", "dismissed"}, Loads(t, run, decision)
    PROVE  IInv'
<1> DEFINE r == [NoRequest EXCEPT !.stage = "loaded", !.run = run, !.status = decision]
<1>1. /\ r \in Requests /\ r.stage = "loaded" /\ r.run = run /\ r.status = decision
      /\ r.prior = None /\ r.to = None
    BY NoRequestFacts DEF Requests, Adapters, Statuses
<1>2. run \in passed
    BY DEF Loads, IInv, RowsInv
<1>3. Goes(t, r) /\ RowsKept /\ TapOnly
    BY DEF Loads
<1> HIDE DEF r
<1>4. Sound(r)
    BY <1>1, <1>2 DEF Sound, Fit
<1> QED
    BY <1>3, <1>4, RequestKeeps

\* A revert goes back to an adapter that was fit, over one that was.
LEMMA RevertsKeeps ==
    ASSUME IInv, NEW t \in Threads, NEW run \in Runs, Reverts(t, run)
    PROVE  IInv'
<1> DEFINE r == [NoRequest EXCEPT !.stage = "reverting"]
<1>1. /\ r \in Requests /\ r.stage = "reverting" /\ r.run = None /\ r.status = "none"
      /\ r.prior = None /\ r.to = None
    BY NoRequestFacts DEF Requests
<1>2. Goes(t, r) /\ RowsKept /\ TapOnly
    BY DEF Reverts
<1> HIDE DEF r
<1>3. Sound(r)
    BY <1>1 DEF Sound, Fit
<1> QED
    BY <1>2, <1>3, RequestKeeps

LEMMA FindsKeeps ==
    ASSUME IInv, NEW t \in Threads, Finds(t) \/ Restores(t)
    PROVE  IInv'
<1> DEFINE r == request[t]
           f == [r EXCEPT !.stage = "found", !.to = replaced]
           d == [r EXCEPT !.stage = "decided", !.prior = active]
<1>1. /\ Sound(r) /\ r \in Requests /\ active \in Fit /\ active \in Adapters
      /\ replaced \in Fit /\ replaced \in Adapters /\ RowsKept /\ TapOnly
    BY RequestsAreSound DEF Finds, Restores, Sound, IInv, RowsInv, TypeOK
<1>2. CASE Finds(t)
    <2>1. r.stage = "reverting" /\ (Goes(t, NoRequest) \/ Goes(t, f))
        BY <1>2 DEF Finds
    <2>2. r.status = "none"
        BY <1>1, <2>1 DEF IInv, RequestInv
    <2>3. /\ f \in Requests /\ f.stage = "found" /\ f.run = r.run /\ f.status = "none"
          /\ f.prior = r.prior /\ f.to = replaced
        BY <1>1, <2>2 DEF Requests
    <2> HIDE DEF f
    <2>4. Sound(f)
        BY <1>1, <2>3 DEF Sound
    <2> QED
        BY <1>1, <2>1, <2>4, NoRequestFacts, RequestKeeps
<1>3. CASE Restores(t)
    <2>1. Goes(t, d)
        BY <1>3 DEF Restores
    <2>2. /\ d \in Requests /\ d.stage = "decided" /\ d.run = r.run /\ d.status = r.status
          /\ d.prior = active /\ d.to = r.to
        BY <1>1 DEF Requests
    <2> HIDE DEF d
    <2>3. Sound(d)
        BY <1>1, <2>2 DEF Sound
    <2> QED
        BY <1>1, <2>1, <2>3, RequestKeeps
<1> QED
    BY <1>2, <1>3

\* Only a tap that applies its proposal names an adapter, the one proposed.
LEMMA DecidesKeeps ==
    ASSUME IInv, NEW t \in Threads, Decides(t)
    PROVE  IInv'
<1> DEFINE r == request[t]
           d == [r EXCEPT !.stage = "decided"]
<1>1. Sound(r) /\ r.stage = "loaded" /\ r \in Requests /\ active \in Fit
      /\ active \in Adapters /\ RowsKept /\ TapOnly
    BY RequestsAreSound DEF Decides, IInv, RowsInv, TypeOK
<1>2. \/ Goes(t, d)
      \/ Goes(t, [d EXCEPT !.status = "expired"])
      \/ r.status # "dismissed" /\ Goes(t, [d EXCEPT !.prior = active, !.to = r.run])
    BY DEF Decides
<1>3. Sound(d) /\ Sound([d EXCEPT !.status = "expired"])
    BY <1>1 DEF Sound, Requests, Statuses
<1>4. ASSUME r.status # "dismissed"
      PROVE  Sound([d EXCEPT !.prior = active, !.to = r.run])
    <2> DEFINE e == [d EXCEPT !.prior = active, !.to = r.run]
    <2>1. /\ e.stage = "decided" /\ e.run = r.run /\ e.status = r.status
          /\ e.prior = active /\ e.to = r.run /\ e \in Requests
        BY <1>1 DEF Requests
    <2> HIDE DEF e
    <2>2. Sound(e)
        BY <1>1, <1>4, <2>1 DEF Sound
    <2> QED
        BY <2>2 DEF e
<1> QED
    BY <1>1, <1>2, <1>3, <1>4, RequestKeeps

\* A flush that is refused ends the request.
LEMMA FlushesKeeps ==
    ASSUME IInv, NEW t \in Threads, Flushes(t)
    PROVE  IInv'
<1> DEFINE r == request[t]
           f == [r EXCEPT !.stage = "flushed"]
<1>1. Sound(r) /\ RowsKept /\ TapOnly
    BY RequestsAreSound DEF Flushes
<1>2. Goes(t, NoRequest) \/ Goes(t, f)
    BY DEF Flushes
<1>3. Sound(f)
    BY <1>1 DEF Sound, Requests
<1> QED
    BY <1>1, <1>2, <1>3, NoRequestFacts, RequestKeeps

\* The commit of a tap.
LEMMA CommitsKeeps ==
    ASSUME IInv, NEW t \in Threads, Commits(t)
    PROVE  IInv'
<1> DEFINE r == request[t]
<1>1. /\ TypeOK /\ RowsInv /\ TickInv /\ RequestInv /\ AtMostOne
      /\ Sound(r) /\ r.run \in Adapters /\ r.to \in Adapters /\ r.prior \in Adapters
    BY RequestsAreSound DEF IInv, Sound, Requests
<1>2. /\ Goes(t, NoRequest)
      /\ UNCHANGED <<fresh, cooling, isTraining, tick, acted, overdue, troubles, passed>>
    BY DEF Commits, TapOnly
<1>3. /\ approved' = IF r.status = "applied" THEN approved \cup {r.run} ELSE approved
      /\ active' \in {active, r.to} /\ replaced' \in {replaced, r.prior}
      /\ r.to = None => active' = active
      /\ r.status = "none" => status' = status
      /\ r.status # "none" => status' = [status EXCEPT ![r.run] = r.status]
    BY DEF Commits, Deploys
<1> HIDE DEF r
<1>4. /\ r.status # "none" => r.run \in Runs /\ r.run \in passed
      /\ approved \subseteq approved' /\ approved' \subseteq Runs
    BY <1>1, <1>3 DEF Sound, Adapters, TypeOK
<1>5. /\ status' \in [Runs -> Statuses]
      /\ \A u \in Runs :
             \/ status'[u] = status[u]
             \/ u \in passed /\ status'[u] \in {"applied", "dismissed", "expired"}
    BY <1>1, <1>3, <1>4 DEF TypeOK, Sound, Statuses
<1>6. /\ request' \in [Threads -> Requests]
      /\ \A u \in Threads : request'[u] = request[u] \/ request'[u] = NoRequest
    BY <1>1, <1>2, NoRequestFacts DEF TypeOK, Goes
<1>7. TypeOK'
    BY <1>1, <1>2, <1>3, <1>4, <1>5, <1>6 DEF TypeOK
<1>8. Fit \subseteq Fit' /\ None \in Fit
    BY <1>2, <1>4 DEF Fit
<1>9. active' \in Fit' /\ replaced' \in Fit'
    <2>1. r.to \in Fit'
        BY <1>1, <1>2, <1>3, <1>4, <1>8 DEF Sound, Fit
    <2> QED
        BY <1>1, <1>3, <1>8, <2>1 DEF RowsInv, Sound
<1>10. RowsInv'
    BY <1>1, <1>2, <1>5, <1>9 DEF RowsInv
<1>11. PriorPending' \subseteq PriorPending
    BY <1>5 DEF PriorPending
<1>12. TickInv' /\ AtMostOne'
    BY <1>1, <1>2, <1>8, <1>11 DEF TickInv, AtMostOne
<1>13. RequestInv'
    BY <1>1, <1>2, <1>6, <1>8, NoRequestFacts DEF RequestInv
<1> QED
    BY <1>7, <1>10, <1>12, <1>13 DEF IInv

-----------------------------------------------------------------------------
(* Around them.                                                            *)

LEMMA AroundKeeps ==
    ASSUME IInv, Arrives \/ CoolsDown \/ (\E run \in Runs : Expires(run))
    PROVE  IInv'
<1>1. /\ fresh' \in 0 .. MaxExamples /\ fresh <= fresh'
      /\ cooling' \in BOOLEAN /\ overdue' \subseteq Runs
      /\ UNCHANGED <<isTraining, tick, status, acted, active, replaced, request, troubles,
                     passed, approved>>
    <2>1. CASE Arrives
        BY <2>1 DEF Arrives, IInv, TypeOK
    <2>2. CASE CoolsDown
        <3>1. cooling' \in BOOLEAN
            BY <2>2 DEF CoolsDown
        <3>2. fresh \in 0 .. MaxExamples /\ overdue \subseteq Runs
            BY DEF IInv, TypeOK
        <3>3. UNCHANGED <<fresh, overdue, isTraining, tick, status, acted, active, replaced,
                          request, troubles, passed, approved>>
            BY <2>2 DEF CoolsDown
        <3> QED
            BY <3>1, <3>2, <3>3
    <2>3. CASE \E run \in Runs : Expires(run)
        BY <2>3 DEF Expires, IInv, TypeOK
    <2> QED
        BY <2>1, <2>2, <2>3
<1>2. TypeOK'
    BY <1>1 DEF IInv, TypeOK
<1>3. Fit' = Fit /\ PriorPending' = PriorPending
    BY <1>1 DEF Fit, PriorPending
<1>4. RowsInv' /\ RequestInv' /\ AtMostOne'
    BY <1>1, <1>3 DEF IInv, RowsInv, RequestInv, AtMostOne
<1>5. tick.cut \in Nat /\ fresh \in Nat
    BY DEF IInv, TypeOK, Ticks
<1>6. TickInv'
    BY <1>1, <1>3, <1>5 DEF IInv, TypeOK, TickInv
<1> QED
    BY <1>2, <1>4, <1>6 DEF IInv

LEMMA CrashKeeps ==
    ASSUME IInv, Crash
    PROVE  IInv'
<1>1. /\ troubles' \in 0 .. MaxTroubles /\ tick' = NoTick
      /\ request' = [t \in Threads |-> NoRequest]
      /\ UNCHANGED <<fresh, cooling, isTraining, status, acted, overdue, active, replaced,
                     passed, approved>>
    BY DEF Crash, IInv, TypeOK
<1>2. TypeOK'
    <2>1. tick' \in Ticks /\ request' \in [Threads -> Requests]
        BY <1>1, NoTickFacts, NoRequestFacts
    <2> QED
        BY <1>1, <2>1 DEF IInv, TypeOK
<1>3. Fit' = Fit /\ PriorPending' = PriorPending /\ None \in Fit
    BY <1>1 DEF Fit, PriorPending
<1>4. RowsInv' /\ AtMostOne'
    BY <1>1, <1>3 DEF IInv, RowsInv, AtMostOne
<1>5. TickInv'
    BY <1>1, <1>3, NoTickFacts DEF IInv, TypeOK, TickInv
<1>6. RequestInv'
    BY <1>1, <1>3, NoRequestFacts DEF RequestInv
<1> QED
    BY <1>2, <1>4, <1>5, <1>6 DEF IInv

LEMMA StepKeeps == IInv /\ [Next]_vars => IInv'
<1> SUFFICES ASSUME IInv, [Next]_vars
             PROVE  IInv'
    OBVIOUS
<1>1. CASE UNCHANGED vars
    <2>1. Fit' = Fit /\ PriorPending' = PriorPending
        BY <1>1 DEF vars, Fit, PriorPending
    <2> QED
        BY <1>1, <2>1 DEF vars, IInv, TypeOK, RowsInv, TickInv, RequestInv, AtMostOne
<1>2. CASE TickStep \/ Raises \/ TickFails
    BY <1>2, TickStepsKeep, EvaluatedKeeps, TickCommitsKeeps DEF TickStep
<1>3. ASSUME NEW t \in Threads, RequestStep(t)
      PROVE  IInv'
    BY <1>3, DecidesKeeps, FindsKeeps, FlushesKeeps, CommitsKeeps DEF RequestStep
<1> QED
    BY <1>1, <1>2, <1>3, LoadsKeeps, RevertsKeeps, AroundKeeps, CrashKeeps DEF Next

-----------------------------------------------------------------------------
\* Rows, the tick and requests are well formed.
THEOREM TypeCorrect == Spec => []TypeOK
<1>1. IInv => TypeOK
    BY DEF IInv
<1> QED
    BY <1>1, InitHolds, StepKeeps, PTL DEF Spec

\* What is live, or what a revert would make live, passed its evaluation and
\* was approved, whatever taps, ticks and restarts do in between.
THEOREM LiveWasApprovedHolds == Spec => []LiveWasApproved
<1>1. IInv => LiveWasApproved
    BY DEF IInv, RowsInv, Fit, LiveWasApproved
<1> QED
    BY <1>1, InitHolds, StepKeeps, PTL DEF Spec

\* A household has at most one proposal to decide.
THEOREM OnePendingHolds == Spec => []OnePending
<1>1. IInv => OnePending
    <2> SUFFICES ASSUME IInv
                 PROVE  OnePending
        OBVIOUS
    <2>1. CASE PriorPending = {}
        BY <2>1, FS_EmptySet DEF OnePending, PriorPending
    <2>2. CASE PriorPending # {}
        <3>1. PICK r \in PriorPending : TRUE
            BY <2>2
        <3>2. PriorPending = {r}
            BY <3>1 DEF IInv, AtMostOne
        <3>3. Cardinality(PriorPending) = 1
            BY <3>2, FS_Singleton
        <3> QED
            BY <3>3 DEF OnePending, PriorPending
    <2> QED
        BY <2>1, <2>2
<1> QED
    BY <1>1, InitHolds, StepKeeps, PTL DEF Spec
=============================================================================
