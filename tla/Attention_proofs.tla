--------------------------- MODULE Attention_proofs ---------------------------
(***************************************************************************)
(* Proofs about Attention for every set of requests, sources, budgets and  *)
(* number of worker threads.                                               *)
(***************************************************************************)
EXTENDS Attention, FiniteSetTheorems, TLAPS

\* Never silenced, and compared with nothing.
Loud(r) == r.force \/ (r.safety /\ ~r.explicit)

\* Pushes that have been let through and are not counted yet.
AboutToPush ==
    {r \in Requests : stage[r] = "judged" /\ decision[r] = "push" /\ ~Bypasses(r)}

\* Judged by the event loop, and not committed.
OnLoop == {r \in Requests : stage[r] = "judged" /\ ~OnThread(r)}

HandlingInv ==
    /\ \A r \in Requests :
           /\ stage[r] = "judged" => decision[r] \in Rungs
           /\ stage[r] = "decided" => decision[r] \in Rungs \ {"journal"}
    /\ \A r, e \in OnLoop : r = e

LoudInv ==
    \A r \in Requests :
        Loud(r) /\ r.asks # "journal" =>
            /\ stage[r] \in {"judged", "decided"} => decision[r] = r.asks
            /\ stage[r] = "ended" =>
                   r.asks = IF r.via = "event" THEN row[r] ELSE shown[r]

\* An event is posted only if it is on record.
EventInv ==
    \A r \in Requests :
        r.via = "event" /\ stage[r] = "decided" => row[r] = decision[r]

\* A look at the budget that is not committed is held by a thread, or is the
\* one of the event loop.
BudgetInv ==
    Cardinality(GatedPushes) + Cardinality(AboutToPush) <= PushBudget + Workers

IInv ==
    /\ TypeOK /\ HandlingInv /\ LoudInv /\ EventInv /\ NeverDropped
    /\ Cardinality(Running) <= Workers
    /\ BudgetInv

USE RequestAssumption, BudgetAssumption

-----------------------------------------------------------------------------
(* Counting requests.                                                      *)

LEMMA CountOf ==
    ASSUME NEW S \in SUBSET Requests
    PROVE  IsFiniteSet(S) /\ Cardinality(S) \in Nat
BY FS_Subset, FS_CardinalityType

LEMMA CountOfPart ==
    ASSUME NEW S \in SUBSET Requests, NEW T \in SUBSET S
    PROVE  Cardinality(T) <= Cardinality(S)
BY CountOf, FS_Subset

LEMMA CountWith ==
    ASSUME NEW S \in SUBSET Requests, NEW T \in SUBSET Requests, NEW r \in Requests,
           T \subseteq S \cup {r}
    PROVE  Cardinality(T) <= Cardinality(S) + 1
<1>1. S \cup {r} \in SUBSET Requests
    OBVIOUS
<1>2. Cardinality(S \cup {r}) <= Cardinality(S) + 1
    BY CountOf, FS_AddElement
<1>3. Cardinality(T) <= Cardinality(S \cup {r})
    BY <1>1, CountOfPart
<1> QED
    BY <1>1, <1>2, <1>3, CountOf

LEMMA CountWithout ==
    ASSUME NEW S \in SUBSET Requests, NEW T \in SUBSET Requests, NEW r \in S,
           T \subseteq S \ {r}
    PROVE  Cardinality(T) <= Cardinality(S) - 1
<1>1. S \ {r} \in SUBSET Requests
    OBVIOUS
<1>2. Cardinality(S \ {r}) = Cardinality(S) - 1
    BY CountOf, FS_RemoveElement
<1>3. Cardinality(T) <= Cardinality(S \ {r})
    BY <1>1, CountOfPart
<1> QED
    BY <1>2, <1>3

\* Held by the threads, or the one request of the event loop.
LEMMA CountWithOne ==
    ASSUME NEW S \in SUBSET Requests, NEW T \in SUBSET Requests,
           NEW L \in SUBSET Requests, \A r, e \in L : r = e, T \subseteq S \cup L
    PROVE  Cardinality(T) <= Cardinality(S) + 1
<1>1. CASE L = {}
    <2>1. T \in SUBSET S
        BY <1>1
    <2> QED
        BY <2>1, CountOf, CountOfPart
<1>2. CASE L # {}
    <2>1. PICK e \in L : TRUE
        BY <1>2
    <2>2. T \subseteq S \cup {e} /\ e \in Requests
        BY <2>1
    <2> QED
        BY <2>2, CountWith
<1> QED
    BY <1>1, <1>2

\* What is counted in a state and after a step.
LEMMA CountsAreNat ==
    ASSUME TypeOK, TypeOK'
    PROVE  /\ GatedPushes \in SUBSET Requests /\ Cardinality(GatedPushes) \in Nat
           /\ AboutToPush \in SUBSET Requests /\ Cardinality(AboutToPush) \in Nat
           /\ Running \in SUBSET Requests /\ Cardinality(Running) \in Nat
           /\ GatedPushes' \in SUBSET Requests /\ Cardinality(GatedPushes') \in Nat
           /\ AboutToPush' \in SUBSET Requests /\ Cardinality(AboutToPush') \in Nat
           /\ Running' \in SUBSET Requests /\ Cardinality(Running') \in Nat
<1>1. /\ GatedPushes \in SUBSET Requests /\ GatedPushes' \in SUBSET Requests
      /\ AboutToPush \in SUBSET Requests /\ AboutToPush' \in SUBSET Requests
      /\ Running \in SUBSET Requests /\ Running' \in SUBSET Requests
    BY DEF GatedPushes, AboutToPush, Running, TypeOK
<1> QED
    BY <1>1, CountOf

-----------------------------------------------------------------------------
(* What the gates decide.                                                  *)

LEMMA WithinBudgetIsRung ==
    ASSUME NEW g \in Rungs
    PROVE  /\ WithinBudget(g) \in Rungs
           /\ WithinBudget(g) = "push" => Used("push") < PushBudget
BY DEF WithinBudget, Rungs

LEMMA GatedIsRung ==
    ASSUME NEW r \in Requests, NEW q \in BOOLEAN
    PROVE  /\ Gated(r, q) \in Rungs
           /\ Gated(r, q) = "push" => Used("push") < PushBudget
<1> DEFINE low == Lower(Lower(r.asks, Ceiling[r.source]), TierCap[r.source])
<1>1. /\ r.asks \in Rungs /\ r.source \in Sources
      /\ Ceiling[r.source] \in Rungs /\ TierCap[r.source] \in Rungs
    OBVIOUS
<1>2. low \in Rungs
    BY <1>1 DEF Lower
<1>3. Gated(r, q) \in {"journal", AfterQuiet(WithinBudget(low), q)}
    BY DEF Gated
<1> HIDE DEF low
<1>4. AfterQuiet(WithinBudget(low), q) \in {"inbox", WithinBudget(low)}
    BY DEF AfterQuiet
<1> QED
    BY <1>2, <1>3, <1>4, WithinBudgetIsRung DEF Rungs

LEMMA RungIsRung ==
    ASSUME NEW r \in Requests, NEW q \in BOOLEAN
    PROVE  /\ Rung(r, q) \in Rungs
           /\ Rung(r, q) = "push" /\ ~Bypasses(r) => Used("push") < PushBudget
           /\ Loud(r) => Rung(r, q) = r.asks
<1>1. Rung(r, q) \in {"journal", r.asks, Gated(r, q)}
    BY DEF Rung
<1>2. Rung(r, q) \in Rungs
    BY <1>1, GatedIsRung DEF Rungs
<1>3. ~Bypasses(r) => Rung(r, q) \in {"journal", Gated(r, q)}
    BY DEF Rung
<1>4. Loud(r) => ~DedupApplies(r) /\ Bypasses(r)
    BY DEF Loud, DedupApplies, Bypasses
<1>5. Loud(r) => Rung(r, q) = r.asks
    BY <1>4 DEF Rung
<1> QED
    BY <1>2, <1>3, <1>5, GatedIsRung

\* A look at the budget counts the pushes that passed it.
LEMMA PushLooksAtBudget ==
    ASSUME TypeOK, NEW r \in Requests, NEW q \in BOOLEAN, Rung(r, q) = "push", ~Bypasses(r)
    PROVE  Cardinality(GatedPushes) <= PushBudget - 1
<1> DEFINE pushes == {e \in today : row[e] = "push"}
<1>1. pushes \in SUBSET Requests /\ GatedPushes \in SUBSET pushes
    BY DEF TypeOK, GatedPushes
<1>2. Cardinality(pushes) < PushBudget
    BY RungIsRung DEF Used
<1>3. GatedPushes \in SUBSET Requests
    BY <1>1
<1> HIDE DEF pushes
<1> QED
    BY <1>1, <1>2, <1>3, CountOf, CountOfPart

-----------------------------------------------------------------------------
(* The steps.                                                              *)

LEMMA InitHolds == Init => IInv
<1> SUFFICES ASSUME Init
             PROVE  IInv
    OBVIOUS
<1>1. TypeOK
    BY DEF Init, TypeOK, Stages
<1>2. HandlingInv /\ LoudInv /\ EventInv /\ NeverDropped
    BY DEF Init, HandlingInv, OnLoop, LoudInv, EventInv, NeverDropped
<1>3. GatedPushes = {} /\ AboutToPush = {} /\ Running = {}
    BY DEF Init, GatedPushes, AboutToPush, Running
<1>4. Cardinality({}) = 0
    BY FS_EmptySet
<1> QED
    BY <1>1, <1>2, <1>3, <1>4 DEF IInv, BudgetInv

\* A request is taken up, by a thread or by the event loop.
LEMMA JudgesKeeps ==
    ASSUME IInv, NEW r \in Requests, NEW q \in BOOLEAN, Judges(r, q)
    PROVE  IInv'
<1> DEFINE g == Rung(r, q)
<1>1. /\ TypeOK /\ g \in Rungs /\ stage[r] = "new" /\ Admitted(r)
      /\ stage' = [stage EXCEPT ![r] = "judged"]
      /\ decision' = [decision EXCEPT ![r] = g]
      /\ UNCHANGED <<row, shown, today, window, days, crashes>>
      /\ Loud(r) => g = r.asks
    BY RungIsRung DEF IInv, Judges, Around
<1>2. g = "push" /\ ~Bypasses(r) => Cardinality(GatedPushes) <= PushBudget - 1
    BY <1>1, PushLooksAtBudget
<1> HIDE DEF g
<1>3. /\ stage'[r] = "judged" /\ decision'[r] = g
      /\ \A e \in Requests : e # r => stage'[e] = stage[e] /\ decision'[e] = decision[e]
    BY <1>1 DEF TypeOK
<1>4. TypeOK'
    BY <1>1 DEF TypeOK, Stages
<1>5. HandlingInv'
    <2>1. \A e \in Requests :
              /\ stage'[e] = "judged" => decision'[e] \in Rungs
              /\ stage'[e] = "decided" => decision'[e] \in Rungs \ {"journal"}
        BY <1>1, <1>3 DEF IInv, HandlingInv
    <2>2. CASE OnThread(r)
        <3>1. OnLoop' \subseteq OnLoop
            BY <1>3, <2>2 DEF OnLoop, OnThread
        <3> QED
            BY <2>1, <3>1 DEF IInv, HandlingInv
    <2>3. CASE ~OnThread(r)
        <3>1. OnLoop = {}
            BY <1>1, <2>3 DEF Admitted, OnLoop
        <3>2. OnLoop' \subseteq {r}
            BY <1>3, <3>1 DEF OnLoop, OnThread
        <3> QED
            BY <2>1, <3>2 DEF HandlingInv
    <2> QED
        BY <2>2, <2>3
<1>6. LoudInv' /\ EventInv' /\ NeverDropped'
    BY <1>1, <1>3 DEF IInv, LoudInv, EventInv, NeverDropped, Loud
<1>7. /\ GatedPushes' = GatedPushes /\ Running' \subseteq Running \cup {r}
      /\ ~OnThread(r) => Running' \subseteq Running
      /\ AboutToPush' \subseteq AboutToPush \cup {r}
      /\ g # "push" \/ Bypasses(r) => AboutToPush' \subseteq AboutToPush
    BY <1>1, <1>3 DEF GatedPushes, Running, AboutToPush, Bypasses, OnThread
<1>8. /\ AboutToPush \in SUBSET Requests /\ Cardinality(AboutToPush) \in Nat
      /\ Running \in SUBSET Requests /\ Cardinality(Running) \in Nat
      /\ AboutToPush' \in SUBSET Requests /\ Cardinality(AboutToPush') \in Nat
      /\ Running' \in SUBSET Requests /\ Cardinality(Running') \in Nat
      /\ Cardinality(GatedPushes) \in Nat
    BY <1>1, <1>4, CountsAreNat
<1>9. Cardinality(Running') <= Workers
    <2>1. CASE OnThread(r)
        BY <1>1, <1>7, <1>8, <2>1, CountWith DEF Admitted
    <2>2. CASE ~OnThread(r)
        <3>1. Cardinality(Running') <= Cardinality(Running)
            BY <1>7, <1>8, <2>2, CountOfPart
        <3> QED
            BY <1>8, <3>1 DEF IInv
    <2> QED
        BY <2>1, <2>2
<1>10. BudgetInv'
    <2>1. CASE g # "push" \/ Bypasses(r)
        <3>1. Cardinality(AboutToPush') <= Cardinality(AboutToPush)
            BY <1>7, <1>8, <2>1, CountOfPart
        <3> QED
            BY <1>7, <1>8, <3>1 DEF IInv, BudgetInv
    <2>2. CASE g = "push" /\ ~Bypasses(r)
        <3>1. /\ OnLoop' \in SUBSET Requests /\ \A a, e \in OnLoop' : a = e
              /\ AboutToPush' \subseteq Running' \cup OnLoop'
            BY <1>5 DEF HandlingInv, AboutToPush, Running, OnLoop
        <3>2. Cardinality(AboutToPush') <= Cardinality(Running') + 1
            BY <1>8, <3>1, CountWithOne
        <3> QED
            BY <1>2, <1>7, <1>8, <1>9, <2>2, <3>2 DEF BudgetInv
    <2> QED
        BY <2>1, <2>2
<1> QED
    BY <1>4, <1>5, <1>6, <1>9, <1>10 DEF IInv

\* What was about to be counted is counted.
LEMMA RecordsKeeps ==
    ASSUME IInv, NEW r \in Requests, Records(r)
    PROVE  IInv'
<1> DEFINE g == decision[r]
<1>1. /\ TypeOK /\ stage[r] = "judged" /\ g \in Rungs
      /\ Loud(r) /\ r.asks # "journal" => g = r.asks
    BY DEF IInv, Records, HandlingInv, LoudInv
<1>2. /\ stage'[r] = IF g = "journal" THEN "ended" ELSE "decided"
      /\ decision'[r] = IF g = "journal" THEN "none" ELSE g
      /\ row'[r] = g
      /\ today' = today \cup {r} /\ window' = window \cup {r}
      /\ \A e \in Requests : e # r =>
             stage'[e] = stage[e] /\ decision'[e] = decision[e] /\ row'[e] = row[e]
      /\ UNCHANGED <<shown, days, crashes>>
    BY <1>1 DEF Records, Around, TypeOK
<1>3. TypeOK'
    BY <1>1, <1>2 DEF TypeOK, Stages, Records, Rungs
<1>4. g = "push" /\ ~Bypasses(r) => r \in AboutToPush
    BY <1>1 DEF AboutToPush
<1> HIDE DEF g
<1>5. HandlingInv'
    BY <1>1, <1>2 DEF IInv, HandlingInv, OnLoop, Rungs, OnThread
<1>6. LoudInv'
    BY <1>1, <1>2 DEF IInv, LoudInv, Loud
<1>7. EventInv' /\ NeverDropped'
    BY <1>1, <1>2 DEF IInv, EventInv, NeverDropped
<1>8. /\ AboutToPush' \subseteq AboutToPush \ {r}
      /\ Running' \subseteq Running
      /\ GatedPushes' \subseteq GatedPushes \cup {r}
      /\ g # "push" \/ Bypasses(r) => GatedPushes' \subseteq GatedPushes
    BY <1>1, <1>2 DEF AboutToPush, Running, GatedPushes, Bypasses, OnThread, TypeOK
<1>9. /\ GatedPushes \in SUBSET Requests /\ Cardinality(GatedPushes) \in Nat
      /\ AboutToPush \in SUBSET Requests /\ Cardinality(AboutToPush) \in Nat
      /\ Running \in SUBSET Requests /\ Cardinality(Running) \in Nat
      /\ GatedPushes' \in SUBSET Requests /\ Cardinality(GatedPushes') \in Nat
      /\ AboutToPush' \in SUBSET Requests /\ Cardinality(AboutToPush') \in Nat
      /\ Running' \in SUBSET Requests /\ Cardinality(Running') \in Nat
    BY <1>1, <1>3, CountsAreNat
<1>10. Cardinality(Running') <= Cardinality(Running)
    BY <1>8, <1>9, CountOfPart
<1>11. BudgetInv'
    <2>1. CASE g # "push" \/ Bypasses(r)
        <3>1. /\ Cardinality(GatedPushes') <= Cardinality(GatedPushes)
              /\ Cardinality(AboutToPush') <= Cardinality(AboutToPush)
            BY <1>8, <1>9, <2>1, CountOfPart
        <3> QED
            BY <1>9, <3>1 DEF IInv, BudgetInv
    <2>2. CASE g = "push" /\ ~Bypasses(r)
        <3>1. Cardinality(GatedPushes') <= Cardinality(GatedPushes) + 1
            BY <1>8, <1>9, CountWith
        <3>2. Cardinality(AboutToPush') <= Cardinality(AboutToPush) - 1
            BY <1>4, <1>8, <1>9, <2>2, CountWithout
        <3> QED
            BY <1>9, <3>1, <3>2 DEF IInv, BudgetInv
    <2> QED
        BY <2>1, <2>2
<1> QED
    BY <1>3, <1>5, <1>6, <1>7, <1>9, <1>10, <1>11 DEF IInv

\* A broker that fails lets through what was asked for.
LEMMA FailsOpenKeeps ==
    ASSUME IInv, NEW r \in Requests, FailsOpen(r)
    PROVE  IInv'
<1>1. /\ TypeOK /\ stage[r] = "new"
      /\ stage'[r] \in {"unanswered", "decided"}
      /\ r.via = "event" <=> stage'[r] = "unanswered"
      /\ stage'[r] = "decided" => decision'[r] = r.asks /\ r.asks \in Rungs
      /\ \A e \in Requests : e # r => stage'[e] = stage[e] /\ decision'[e] = decision[e]
      /\ UNCHANGED <<row, shown, today, window, days, crashes>>
    BY DEF IInv, TypeOK, FailsOpen, Around
<1>2. TypeOK'
    BY <1>1 DEF TypeOK, Stages, FailsOpen
<1>3. HandlingInv'
    <2>1. OnLoop' \subseteq OnLoop
        BY <1>1 DEF OnLoop, OnThread
    <2> QED
        BY <1>1, <2>1 DEF IInv, HandlingInv, Rungs
<1>7. LoudInv' /\ EventInv' /\ NeverDropped'
    BY <1>1 DEF IInv, LoudInv, EventInv, NeverDropped, Loud
<1>4. /\ GatedPushes' = GatedPushes /\ AboutToPush' = AboutToPush
      /\ Running' \subseteq Running \cup {r}
      /\ ~OnThread(r) => Running' \subseteq Running
    BY <1>1 DEF GatedPushes, AboutToPush, Running, Bypasses, OnThread
<1>5. /\ Running \in SUBSET Requests /\ Cardinality(Running) \in Nat
      /\ Running' \in SUBSET Requests /\ Cardinality(Running') \in Nat
    BY <1>1, <1>2, CountsAreNat
<1>6. Cardinality(Running') <= Workers
    <2>1. CASE OnThread(r)
        <3>1. Cardinality(Running) < Workers
            BY <2>1 DEF FailsOpen, Admitted
        <3>2. Cardinality(Running') <= Cardinality(Running) + 1
            BY <1>4, <1>5, CountWith
        <3> QED
            BY <1>5, <3>1, <3>2
    <2>2. CASE ~OnThread(r)
        <3>1. Cardinality(Running') <= Cardinality(Running)
            BY <1>4, <1>5, <2>2, CountOfPart
        <3> QED
            BY <1>5, <3>1 DEF IInv
    <2> QED
        BY <2>1, <2>2
<1> QED
    BY <1>2, <1>3, <1>4, <1>6, <1>7 DEF IInv, BudgetInv

LEMMA PostsKeeps ==
    ASSUME IInv, NEW r \in Requests, Posts(r) \/ PostFails(r)
    PROVE  IInv'
<1>1. /\ TypeOK /\ stage[r] = "decided"
      /\ decision'[r] = "none" /\ shown'[r] \in {decision[r], shown[r]}
      /\ \/ stage'[r] = "ended" /\ shown'[r] = decision[r]
         \/ stage'[r] = "ended" /\ r.via = "event"
         \/ stage'[r] = "refused"
      /\ \A e \in Requests : e # r =>
             stage'[e] = stage[e] /\ decision'[e] = decision[e] /\ shown'[e] = shown[e]
      /\ UNCHANGED <<row, today, window, days, crashes>>
    BY DEF IInv, TypeOK, Posts, PostFails, Around
<1>2. TypeOK'
    BY <1>1 DEF TypeOK, Stages, Posts, PostFails
<1>3. HandlingInv'
    <2>1. OnLoop' \subseteq OnLoop
        BY <1>1 DEF OnLoop, OnThread
    <2> QED
        BY <1>1, <2>1 DEF IInv, HandlingInv
<1>7. decision[r] \in Rungs /\ (r.via = "event" => row[r] = decision[r])
    BY <1>1 DEF IInv, HandlingInv, EventInv
<1>8. LoudInv' /\ EventInv'
    BY <1>1, <1>7 DEF IInv, LoudInv, EventInv, Loud
<1>9. NeverDropped'
    BY <1>1, <1>7 DEF IInv, NeverDropped, Rungs
<1>4. /\ GatedPushes' = GatedPushes /\ AboutToPush' = AboutToPush
      /\ Running' \subseteq Running
    BY <1>1 DEF GatedPushes, AboutToPush, Running, Bypasses, OnThread
<1>5. /\ Running \in SUBSET Requests /\ Cardinality(Running) \in Nat
      /\ Running' \in SUBSET Requests /\ Cardinality(Running') \in Nat
    BY <1>1, <1>2, CountsAreNat
<1>6. Cardinality(Running') <= Cardinality(Running)
    BY <1>4, <1>5, CountOfPart
<1> QED
    BY <1>2, <1>3, <1>4, <1>5, <1>6, <1>8, <1>9 DEF IInv, BudgetInv

\* A day, the dedupe window and a restart only take from what is counted.
LEMMA AroundKeeps ==
    ASSUME IInv, DayPasses \/ WindowPasses \/ Crash
    PROVE  IInv'
<1>1. TypeOK
    BY DEF IInv
<1>2. /\ TypeOK'
      /\ \A r \in Requests :
             \/ stage'[r] = stage[r] /\ decision'[r] = decision[r]
             \/ stage'[r] = "unanswered"
             \/ stage'[r] = stage[r] /\ stage[r] \notin {"judged", "decided"}
      /\ UNCHANGED <<row, shown>> /\ today' \subseteq today
    <2>2. CASE DayPasses
        BY <1>1, <2>2 DEF TypeOK, DayPasses
    <2>3. CASE WindowPasses
        BY <1>1, <2>3 DEF TypeOK, WindowPasses
    <2>4. CASE Crash
        <3>1. stage' \in [Requests -> Stages]
            BY <1>1, <2>4 DEF TypeOK, Stages, Crash
        <3>2. decision' \in [Requests -> Rungs \cup {"none"}]
            BY <2>4 DEF Crash
        <3>3. crashes' \in 0 .. MaxCrashes
            BY <1>1, <2>4 DEF TypeOK, Crash
        <3>4. TypeOK'
            BY <1>1, <2>4, <3>1, <3>2, <3>3 DEF TypeOK, Crash
        <3> QED
            BY <2>4, <3>4 DEF Crash
    <2> QED
        BY <2>2, <2>3, <2>4
<1>3. HandlingInv'
    <2>1. OnLoop' \subseteq OnLoop
        BY <1>2 DEF OnLoop, OnThread
    <2> QED
        BY <1>2, <2>1 DEF IInv, HandlingInv
<1>4. LoudInv' /\ EventInv' /\ NeverDropped'
    BY <1>2 DEF IInv, LoudInv, EventInv, NeverDropped, Loud
<1>5. /\ GatedPushes' \subseteq GatedPushes /\ AboutToPush' \subseteq AboutToPush
      /\ Running' \subseteq Running
    BY <1>2 DEF GatedPushes, AboutToPush, Running, Bypasses, OnThread
<1>6. /\ GatedPushes \in SUBSET Requests /\ Cardinality(GatedPushes) \in Nat
      /\ AboutToPush \in SUBSET Requests /\ Cardinality(AboutToPush) \in Nat
      /\ Running \in SUBSET Requests /\ Cardinality(Running) \in Nat
      /\ GatedPushes' \in SUBSET Requests /\ Cardinality(GatedPushes') \in Nat
      /\ AboutToPush' \in SUBSET Requests /\ Cardinality(AboutToPush') \in Nat
      /\ Running' \in SUBSET Requests /\ Cardinality(Running') \in Nat
    BY <1>1, <1>2, CountsAreNat
<1>7. /\ Cardinality(GatedPushes') <= Cardinality(GatedPushes)
      /\ Cardinality(AboutToPush') <= Cardinality(AboutToPush)
      /\ Cardinality(Running') <= Cardinality(Running)
    BY <1>5, <1>6, CountOfPart
<1> QED
    BY <1>2, <1>3, <1>4, <1>6, <1>7 DEF IInv, BudgetInv

LEMMA StepKeeps == IInv /\ [Next]_vars => IInv'
<1> SUFFICES ASSUME IInv, [Next]_vars
             PROVE  IInv'
    OBVIOUS
<1>1. CASE UNCHANGED vars
    BY <1>1 DEF vars, IInv, TypeOK, HandlingInv, OnLoop, LoudInv, EventInv,
                NeverDropped, BudgetInv, GatedPushes, AboutToPush, Running
<1> QED
    BY <1>1, JudgesKeeps, RecordsKeeps, FailsOpenKeeps, PostsKeeps, AroundKeeps
       DEF Next

-----------------------------------------------------------------------------
\* Rows, decisions and clocks are well formed.
THEOREM TypeCorrect == Spec => []TypeOK
<1>1. IInv => TypeOK
    BY DEF IInv
<1> QED
    BY <1>1, InitHolds, StepKeeps, PTL DEF Spec

\* What is forced, and a safety alert without a key of its own, is shown as it
\* was asked for, or its caller told that it was not, whatever was sent before it
\* and however the broker fails.
THEOREM SafetyNotSilencedHolds == Spec => []SafetyNotSilenced
<1>1. IInv => SafetyNotSilenced
    BY DEF IInv, LoudInv, Loud, SafetyNotSilenced
<1> QED
    BY <1>1, InitHolds, StepKeeps, PTL DEF Spec

\* The pushes of a day exceed their budget by no more than the threads.
THEOREM PushBudgetKept == Spec => []PushBudgetHolds
<1>1. IInv => PushBudgetHolds
    <2> SUFFICES ASSUME IInv
                 PROVE  PushBudgetHolds
        OBVIOUS
    <2>1. GatedPushes \in SUBSET Requests /\ AboutToPush \in SUBSET Requests
        BY DEF IInv, TypeOK, GatedPushes, AboutToPush
    <2>2. Cardinality(GatedPushes) \in Nat /\ Cardinality(AboutToPush) \in Nat
        BY <2>1, CountOf
    <2> QED
        BY <2>2 DEF IInv, BudgetInv, PushBudgetHolds
<1> QED
    BY <1>1, InitHolds, StepKeeps, PTL DEF Spec

\* What was not answered as refused was posted, or withheld on record; an event
\* that the notification service refused is on record.
THEOREM NeverDroppedHolds == Spec => []NeverDropped
<1>1. IInv => NeverDropped
    BY DEF IInv
<1> QED
    BY <1>1, InitHolds, StepKeeps, PTL DEF Spec
=============================================================================
