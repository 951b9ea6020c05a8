------------------------- MODULE WorkflowRun_proofs -------------------------
(***************************************************************************)
(* Proofs about WorkflowRun for every plan, every set of drivers and every *)
(* bound: the inductive invariant TypeOK /\ Inductive, and from it the     *)
(* properties of the run and its implementation of module DurableRun.      *)
(***************************************************************************)
EXTENDS WorkflowRun, SequenceTheorems, FiniteSetTheorems, TLAPS

IInv == TypeOK /\ Inductive

-----------------------------------------------------------------------------
(***************************************************************************)
(* The plan: what storing a proposal and splicing it in do to it.          *)
(***************************************************************************)
\* Storing a proposal on a checkpoint changes no step's kind.
LEMMA StoredFacts ==
    ASSUME NEW plan \in Seq(Step), NEW i \in Nat, i < Len(plan),
           NEW add \in Seq([kind : Kinds])
    PROVE  /\ Stored(plan, i, add) \in Seq(Step)
           /\ Len(Stored(plan, i, add)) = Len(plan)
           /\ \A j \in 1 .. Len(plan) : Stored(plan, i, add)[j].kind = plan[j].kind
           /\ Stored(plan, i, add)[i + 1].add = add
<1> DEFINE new == [plan[i + 1] EXCEPT !.add = add]
<1>1. i + 1 \in 1 .. Len(plan)
    BY LenProperties
<1>2. plan[i + 1] \in Step
    BY <1>1, ElementOfSeq
<1>3. new \in Step /\ new.kind = plan[i + 1].kind /\ new.add = add
    BY <1>2 DEF Step
<1>4. Stored(plan, i, add) = [plan EXCEPT ![i + 1] = new]
    BY DEF Stored
<1>5. /\ Stored(plan, i, add) \in Seq(Step)
      /\ Len(Stored(plan, i, add)) = Len(plan)
      /\ \A j \in 1 .. Len(plan) :
            Stored(plan, i, add)[j] = IF j = i + 1 THEN new ELSE plan[j]
    <2> HIDE DEF new
    <2> QED BY <1>1, <1>3, <1>4, ExceptSeq
<1> QED
    BY <1>1, <1>3, <1>5

\* The concatenation of three sequences begins with the first.
LEMMA ConcatThree ==
    ASSUME NEW S, NEW a \in Seq(S), NEW b \in Seq(S), NEW c \in Seq(S)
    PROVE  /\ (a \o b) \o c \in Seq(S)
           /\ Len((a \o b) \o c) = Len(a) + Len(b) + Len(c)
           /\ \A j \in 1 .. Len(a) : ((a \o b) \o c)[j] = a[j]
<1>1. /\ a \o b \in Seq(S)
      /\ Len(a \o b) = Len(a) + Len(b)
      /\ \A j \in 1 .. Len(a) + Len(b) :
            (a \o b)[j] = IF j <= Len(a) THEN a[j] ELSE b[j - Len(a)]
    BY ConcatProperties
<1> DEFINE d == a \o b
           e == d \o c
<1>d. /\ d \in Seq(S)
      /\ Len(d) = Len(a) + Len(b)
      /\ \A j \in 1 .. Len(a) + Len(b) :
            d[j] = IF j <= Len(a) THEN a[j] ELSE b[j - Len(a)]
    BY <1>1, Zenon
<1> HIDE DEF d
<1>2. /\ d \o c \in Seq(S)
      /\ Len(d \o c) = Len(d) + Len(c)
      /\ \A j \in 1 .. Len(d) + Len(c) :
            (d \o c)[j] = IF j <= Len(d) THEN d[j] ELSE c[j - Len(d)]
    <2>1. d \in Seq(S)
        BY <1>d
    <2> QED BY <2>1, ConcatProperties
<1>e. /\ e \in Seq(S)
      /\ Len(e) = Len(d) + Len(c)
      /\ \A j \in 1 .. Len(d) + Len(c) :
            e[j] = IF j <= Len(d) THEN d[j] ELSE c[j - Len(d)]
    BY <1>2, Zenon
<1> HIDE DEF e
<1>3. /\ Len(a) \in Nat /\ Len(b) \in Nat /\ Len(c) \in Nat
    BY LenProperties
<1>4. Len(e) = Len(a) + Len(b) + Len(c)
    BY <1>d, <1>e, <1>3
<1>5. ASSUME NEW j \in 1 .. Len(a)
      PROVE  e[j] = a[j]
    <2>1. j \in 1 .. Len(d) + Len(c) /\ j <= Len(d) /\ j <= Len(a)
        BY <1>d, <1>3
    <2>2. e[j] = d[j]
        BY <1>e, <2>1
    <2>3. j \in 1 .. Len(a) + Len(b)
        BY <1>3
    <2>4. d[j] = a[j]
        BY <1>d, <2>1, <2>3
    <2> QED BY <2>2, <2>4
<1> QED
    BY <1>e, <1>4, <1>5, Zenon DEF d, e

\* After it comes the second.
LEMMA ConcatMiddle ==
    ASSUME NEW S, NEW a \in Seq(S), NEW b \in Seq(S), NEW c \in Seq(S)
    PROVE  \A j \in 1 .. Len(b) : ((a \o b) \o c)[Len(a) + j] = b[j]
<1>1. /\ a \o b \in Seq(S)
      /\ Len(a \o b) = Len(a) + Len(b)
      /\ \A j \in 1 .. Len(a) + Len(b) :
            (a \o b)[j] = IF j <= Len(a) THEN a[j] ELSE b[j - Len(a)]
    BY ConcatProperties
<1> DEFINE d == a \o b
           e == d \o c
<1>d. /\ d \in Seq(S)
      /\ Len(d) = Len(a) + Len(b)
      /\ \A j \in 1 .. Len(a) + Len(b) :
            d[j] = IF j <= Len(a) THEN a[j] ELSE b[j - Len(a)]
    BY <1>1, Zenon
<1> HIDE DEF d
<1>2. /\ d \o c \in Seq(S)
      /\ Len(d \o c) = Len(d) + Len(c)
      /\ \A j \in 1 .. Len(d) + Len(c) :
            (d \o c)[j] = IF j <= Len(d) THEN d[j] ELSE c[j - Len(d)]
    <2>1. d \in Seq(S)
        BY <1>d
    <2> QED BY <2>1, ConcatProperties
<1>e. /\ e \in Seq(S)
      /\ Len(e) = Len(d) + Len(c)
      /\ \A j \in 1 .. Len(d) + Len(c) :
            e[j] = IF j <= Len(d) THEN d[j] ELSE c[j - Len(d)]
    BY <1>2, Zenon
<1> HIDE DEF e
<1>3. /\ Len(a) \in Nat /\ Len(b) \in Nat /\ Len(c) \in Nat
    BY LenProperties
<1>4. ASSUME NEW j \in 1 .. Len(b)
      PROVE  e[Len(a) + j] = b[j]
    <2> DEFINE n == Len(a) + j
    <2>1. /\ n \in 1 .. Len(d) + Len(c) /\ n <= Len(d)
          /\ n \in 1 .. Len(a) + Len(b) /\ ~(n <= Len(a)) /\ n - Len(a) = j
        BY <1>d, <1>3
    <2> HIDE DEF n
    <2>2. e[n] = d[n]
        BY <1>e, <2>1
    <2>3. d[n] = b[n - Len(a)]
        BY <1>d, <2>1
    <2> QED BY <2>1, <2>2, <2>3 DEF n
<1> QED
    BY <1>4, Zenon DEF d, e

\* What is proposed becomes steps that propose nothing themselves.
LEMMA AsStepsFacts ==
    ASSUME NEW add \in Seq([kind : Kinds])
    PROVE  AsSteps(add) \in Seq(Step) /\ Len(AsSteps(add)) = Len(add)
<1>1. /\ Len(add) \in Nat /\ DOMAIN add = 1 .. Len(add)
      /\ \A j \in 1 .. Len(add) : add[j] \in [kind : Kinds]
    BY LenProperties, ElementOfSeq
<1>2. <<>> \in Seq([kind : Kinds])
    BY EmptySeq
<1>3. AsSteps(add) \in [1 .. Len(add) -> Step]
    BY <1>1, <1>2 DEF AsSteps, Step
<1>4. AsSteps(add) \in Seq(Step)
    BY <1>1, <1>3, SeqDef
<1> QED
    BY <1>1, <1>3, <1>4, LenProperties

\* Splicing keeps every step up to the checkpoint, puts what is added right
\* after it, and lengthens the plan by that.
LEMMA SplicedFacts ==
    ASSUME NEW plan \in Seq(Step), NEW i \in Nat, i < Len(plan)
    PROVE  /\ Spliced(plan, i) \in Seq(Step)
           /\ Len(Spliced(plan, i)) = Len(plan) + Len(plan[i + 1].add)
           /\ Len(plan[i + 1].add) \in Nat
           /\ \A j \in 1 .. i + 1 : Spliced(plan, i)[j] = plan[j]
           /\ \A j \in 1 .. Len(plan[i + 1].add) :
                 Spliced(plan, i)[i + 1 + j] = AsSteps(plan[i + 1].add)[j]
<1> DEFINE n == Len(plan)
           head == SubSeq(plan, 1, i + 1)
           mid == AsSteps(plan[i + 1].add)
           tail == SubSeq(plan, i + 2, n)
<1>1. n \in Nat /\ i + 1 \in 1 .. n /\ plan[i + 1] \in Step
    BY LenProperties, ElementOfSeq
<1>2. \A j \in 1 .. n : plan[j] \in Step
    BY ElementOfSeq
<1>3. /\ head \in Seq(Step) /\ Len(head) = i + 1
      /\ \A j \in 1 .. i + 1 : head[j] = plan[j]
    <2>1. \A j \in 1 .. i + 1 : plan[j] \in Step
        BY <1>1, <1>2
    <2>2. /\ SubSeq(plan, 1, i + 1) \in Seq(Step)
          /\ Len(SubSeq(plan, 1, i + 1)) =
                IF 1 <= i + 1 THEN (i + 1) - 1 + 1 ELSE 0
          /\ \A j \in 1 .. (i + 1) - 1 + 1 :
                SubSeq(plan, 1, i + 1)[j] = plan[1 + j - 1]
        BY <2>1, <1>1, SubSeqProperties
    <2> QED BY <2>2, <1>1
<1>4. mid \in Seq(Step) /\ Len(mid) = Len(plan[i + 1].add)
    <2>1. plan[i + 1].add \in Seq([kind : Kinds])
        BY <1>1 DEF Step
    <2> QED BY <2>1, AsStepsFacts
<1>5. /\ tail \in Seq(Step)
      /\ Len(tail) = n - (i + 1)
    <2>1. \A j \in i + 2 .. n : plan[j] \in Step
        BY <1>1, <1>2
    <2>2. /\ SubSeq(plan, i + 2, n) \in Seq(Step)
          /\ Len(SubSeq(plan, i + 2, n)) =
                IF i + 2 <= n THEN n - (i + 2) + 1 ELSE 0
        BY <2>1, <1>1, SubSeqProperties
    <2> QED BY <2>2, <1>1
<1>6. Len(plan[i + 1].add) \in Nat
    BY <1>4, LenProperties
<1>7. Spliced(plan, i) = (head \o mid) \o tail
    BY DEF Spliced
<1> HIDE DEF head, mid, tail
<1>8. /\ Spliced(plan, i) \in Seq(Step)
      /\ Len(Spliced(plan, i)) = Len(head) + Len(mid) + Len(tail)
      /\ \A j \in 1 .. Len(head) : Spliced(plan, i)[j] = head[j]
      /\ \A j \in 1 .. Len(mid) : Spliced(plan, i)[Len(head) + j] = mid[j]
    <2>1. head \in Seq(Step) /\ mid \in Seq(Step) /\ tail \in Seq(Step)
        BY <1>3, <1>4, <1>5
    <2>2. /\ (head \o mid) \o tail \in Seq(Step)
          /\ Len((head \o mid) \o tail) = Len(head) + Len(mid) + Len(tail)
          /\ \A j \in 1 .. Len(head) : ((head \o mid) \o tail)[j] = head[j]
        BY <2>1, ConcatThree, Zenon
    <2>3. \A j \in 1 .. Len(mid) :
             ((head \o mid) \o tail)[Len(head) + j] = mid[j]
        BY <2>1, ConcatMiddle, Zenon
    <2> QED BY <1>7, <2>2, <2>3, Zenon
<1> DEFINE sp == Spliced(plan, i)
<1>9. /\ sp \in Seq(Step)
      /\ Len(sp) = Len(head) + Len(mid) + Len(tail)
      /\ \A j \in 1 .. Len(head) : sp[j] = head[j]
      /\ \A j \in 1 .. Len(mid) : sp[Len(head) + j] = mid[j]
    BY <1>8, Zenon
<1> HIDE DEF sp
<1>10. Len(sp) = Len(plan) + Len(plan[i + 1].add)
    <2> DEFINE lh == Len(head)
               lm == Len(mid)
               lt == Len(tail)
               ls == Len(sp)
               la == Len(plan[i + 1].add)
    <2>1. /\ ls = lh + lm + lt /\ lh = i + 1 /\ lm = la /\ lt = n - (i + 1)
          /\ n \in Nat /\ la \in Nat
        BY <1>1, <1>3, <1>4, <1>5, <1>6, <1>9, Zenon
    <2> HIDE DEF lh, lm, lt, ls, la, n
    <2>2. ls = n + la
        BY <2>1
    <2> QED BY <2>2, Zenon DEF ls, n, la
<1>11. ASSUME NEW j \in 1 .. i + 1
       PROVE  sp[j] = plan[j]
    BY <1>3, <1>9
<1>12. ASSUME NEW j \in 1 .. Len(plan[i + 1].add)
       PROVE  sp[i + 1 + j] = AsSteps(plan[i + 1].add)[j]
    <2>1. j \in 1 .. Len(mid) /\ Len(head) = i + 1
        BY <1>3, <1>4
    <2>2. sp[Len(head) + j] = mid[j]
        BY <1>9, <2>1
    <2> QED BY <2>1, <2>2, Zenon DEF mid
<1> QED
    BY <1>6, <1>9, <1>10, <1>11, <1>12, Zenon DEF sp

-----------------------------------------------------------------------------
(***************************************************************************)
(* The driver's steps.                                                     *)
(***************************************************************************)
\* What the invariants say of a driver at work.
LEMMA DriverFacts ==
    ASSUME IInv, NEW d \in Drivers, driver[d] # Nobody
    PROVE  /\ driver[d] \in Driving
           /\ \A e \in Drivers : e # d => driver[e] = Nobody
           /\ up /\ rstate = "running" /\ resolving = {} /\ NoLiveCard
           /\ driver[d].steps = steps
           /\ driver[d].at \in 0 .. Len(steps)
           /\ Len(steps) \in Nat /\ MaxSteps \in Nat /\ Len(steps) <= MaxSteps
BY BoundsAssumption, LenProperties DEF IInv, TypeOK, Inductive, DriverInv, HoldsRun, Driving

\* The history is a sequence of step indices.
LEMMA TrailFacts ==
    ASSUME IInv
    PROVE  /\ trail \in Seq(Indices) /\ Len(trail) \in Nat
           /\ DOMAIN trail = 1 .. Len(trail)
           /\ \A k \in DOMAIN trail : trail[k] \in Nat /\ trail[k] < MaxSteps
           /\ trail # <<>> => Len(trail) \in DOMAIN trail
<1>1. trail \in Seq(Indices) /\ MaxSteps \in Nat
    BY BoundsAssumption DEF IInv, TypeOK
<1>2. \A k \in 1 .. Len(trail) : trail[k] \in Indices
    BY <1>1, ElementOfSeq
<1>3. trail # <<>> => Len(trail) \in Nat \ {0}
    BY <1>1, EmptySeq
<1>4. Len(trail) \in Nat /\ DOMAIN trail = 1 .. Len(trail)
    BY <1>1, LenProperties
<1> QED
    BY <1>1, <1>2, <1>3, <1>4 DEF Indices

\* Passing over a step without dispatching it keeps the invariant.
LEMMA SkipKeeps ==
    ASSUME IInv, NEW d \in Drivers, SkipStep(d)
    PROVE  IInv'
<1> DEFINE me == driver[d]
           new == [me EXCEPT !.at = @ + 1, !.results = Append(@, "passed")]
<1>1. driver[d] # Nobody /\ me.phase = "drive" /\ me.at # Len(me.steps)
    BY DEF SkipStep, In, AtEnd
<1>2. /\ driver[d] \in Driving
      /\ \A e \in Drivers : e # d => driver[e] = Nobody
      /\ up /\ rstate = "running" /\ resolving = {} /\ NoLiveCard
      /\ driver[d].steps = steps
      /\ driver[d].at \in 0 .. Len(steps)
      /\ Len(steps) \in Nat /\ MaxSteps \in Nat /\ Len(steps) <= MaxSteps
    BY <1>1, DriverFacts
<1>3. /\ driver' = [driver EXCEPT ![d] = new]
      /\ UNCHANGED <<row, scan, hooks, resolving, world>>
    BY DEF SkipStep
<1>4. /\ new \in Driving /\ new.at = me.at + 1 /\ new.steps = me.steps
      /\ new.phase = me.phase /\ new.signal = me.signal
    <2>1. Append(me.results, "passed") \in Seq(Outcomes)
        BY <1>2, AppendProperties DEF Driving, Outcomes
    <2>2. me.at + 1 \in 0 .. MaxSteps
        BY <1>1, <1>2
    <2> QED BY <1>2, <2>1, <2>2 DEF Driving
<1> HIDE DEF new
<1>5. new # Nobody
    BY <1>4, NobodyAssumption
<1>6. TypeOK'
    BY <1>3, <1>4 DEF IInv, TypeOK, row, world
<1>7. /\ driver'[d] = new
      /\ \A e \in Drivers : e # d => driver'[e] = Nobody
    BY <1>2, <1>3 DEF IInv, TypeOK
<1>8. DriverInv'
    <2>1. HoldsRun(d)
        BY <1>1 DEF IInv, Inductive, DriverInv
    <2>2. \A k \in DOMAIN trail : trail[k] < me.at + 1
        BY <1>1, <1>2, <2>1, TrailFacts DEF HoldsRun
    <2>3. HoldsRun(d)'
        BY <1>1, <1>2, <1>3, <1>4, <1>7, <2>1, <2>2
           DEF HoldsRun, NoLiveCard, ChainHolds, row, world
    <2> QED BY <1>7, <2>3 DEF DriverInv
<1>9. WaitInv'
    BY <1>3 DEF IInv, Inductive, WaitInv, NoLiveCard, Last, row, world
<1>10. ResolvingInv'
    BY <1>3 DEF IInv, Inductive, ResolvingInv, NoLiveCard, Last, row, world
<1>11. SignalInv'
    BY <1>3 DEF IInv, Inductive, SignalInv, Dispatched, row, world
<1>12. TrailInv'
    BY <1>3 DEF IInv, Inductive, TrailInv, StepAtMostOnce, ChainOnlyOnSuccess,
                row, world
<1> QED
    BY <1>6, <1>8, <1>9, <1>10, <1>11, <1>12 DEF IInv, Inductive

\* Appending to the history.
LEMMA AppendTrail ==
    ASSUME IInv, NEW i \in Indices, trail' = Append(trail, i)
    PROVE  /\ trail' \in Seq(Indices) /\ Len(trail') = Len(trail) + 1
           /\ DOMAIN trail' = 1 .. Len(trail) + 1
           /\ \A k \in DOMAIN trail : trail'[k] = trail[k]
           /\ trail'[Len(trail')] = i /\ trail' # <<>>
<1>1. trail \in Seq(Indices) /\ Len(trail) \in Nat /\ DOMAIN trail = 1 .. Len(trail)
    BY TrailFacts
<1>2. /\ Append(trail, i) \in Seq(Indices) /\ Append(trail, i) # <<>>
      /\ Len(Append(trail, i)) = Len(trail) + 1
      /\ \A k \in 1 .. Len(trail) : Append(trail, i)[k] = trail[k]
      /\ Append(trail, i)[Len(trail) + 1] = i
    BY <1>1, AppendProperties
<1> QED
    BY <1>1, <1>2, LenProperties

\* Dispatching the step a driver stands at keeps the invariant.
LEMMA DispatchKeeps ==
    ASSUME IInv, NEW d \in Drivers, DispatchStep(d)
    PROVE  IInv'
<1> DEFINE me == driver[d]
           new == [me EXCEPT !.phase = "busy"]
<1>1. driver[d] # Nobody /\ me.phase = "drive" /\ me.at # Len(me.steps)
    BY DEF DispatchStep, In, AtEnd
<1>2. /\ driver[d] \in Driving
      /\ \A e \in Drivers : e # d => driver[e] = Nobody
      /\ up /\ rstate = "running" /\ resolving = {} /\ NoLiveCard
      /\ driver[d].steps = steps
      /\ driver[d].at \in 0 .. Len(steps)
      /\ Len(steps) \in Nat /\ MaxSteps \in Nat /\ Len(steps) <= MaxSteps
    BY <1>1, DriverFacts
<1>3. /\ driver' = [driver EXCEPT ![d] = new]
      /\ trail' = Append(trail, me.at)
      /\ UNCHANGED <<row, scan, hooks, resolving, up, call, elapsed, cards,
                     achieved, told, refused, crashes, faults>>
    BY DEF DispatchStep
<1>4. /\ new \in Driving /\ new.at = me.at /\ new.steps = me.steps
      /\ new.phase = "busy" /\ new.signal = me.signal
    BY <1>2 DEF Driving
<1> HIDE DEF new
<1>5. new # Nobody
    BY <1>4, NobodyAssumption
<1>6. me.at \in Indices /\ me.at < Len(steps)
    BY <1>1, <1>2 DEF Indices
<1>7. /\ trail' \in Seq(Indices) /\ Len(trail') = Len(trail) + 1
      /\ DOMAIN trail' = 1 .. Len(trail) + 1
      /\ \A k \in DOMAIN trail : trail'[k] = trail[k]
      /\ trail'[Len(trail')] = me.at /\ trail' # <<>>
    BY <1>3, <1>6, AppendTrail
<1>8. /\ Len(trail) \in Nat /\ DOMAIN trail = 1 .. Len(trail)
      /\ \A k \in DOMAIN trail : trail[k] \in Nat
    BY TrailFacts
<1>9. HoldsRun(d)
    BY <1>1 DEF IInv, Inductive, DriverInv
<1>10. TypeOK'
    BY <1>3, <1>4, <1>7 DEF IInv, TypeOK, row
<1>11. /\ driver'[d] = new
       /\ \A e \in Drivers : e # d => driver'[e] = Nobody
    BY <1>2, <1>3 DEF IInv, TypeOK
<1>12. DriverInv'
    <2>1. Last(me.at)'
        BY <1>7, <1>11, <1>4 DEF Last
    <2>2. HoldsRun(d)'
        BY <1>2, <1>3, <1>4, <1>6, <1>9, <1>11, <2>1
           DEF HoldsRun, NoLiveCard, row
    <2> QED BY <1>11, <2>2 DEF DriverInv
<1>13. WaitInv' /\ ResolvingInv'
    BY <1>2, <1>3 DEF WaitInv, ResolvingInv, row
<1>14. SignalInv'
    <2>1. ASSUME NEW i, NEW kind, Dispatched(i, kind)
          PROVE  Dispatched(i, kind)'
        BY <1>3, <1>7, <1>8, <2>1 DEF Dispatched, row
    <2> QED BY <1>3, <2>1 DEF IInv, Inductive, SignalInv, row
<1>15. TrailInv'
    <2>1. StepAtMostOnce'
        BY <1>1, <1>7, <1>8, <1>9
           DEF IInv, Inductive, TrailInv, StepAtMostOnce, HoldsRun
    <2>2. \A k \in DOMAIN trail' : trail'[k] < Len(steps')
        BY <1>3, <1>6, <1>7, <1>8 DEF IInv, Inductive, TrailInv, row
    <2>3. ChainOnlyOnSuccess'
        BY <1>1, <1>3, <1>7, <1>8, <1>9
           DEF ChainOnlyOnSuccess, HoldsRun, ChainHolds, row
    <2>4. \A c \in cards' : c.rev <= revision'
        BY <1>3 DEF IInv, Inductive, TrailInv, row
    <2> QED BY <2>1, <2>2, <2>3, <2>4 DEF TrailInv
<1> QED
    BY <1>10, <1>12, <1>13, <1>14, <1>15 DEF IInv, Inductive

\* Drafting the call of the step at work leaves the calls of the run dispatched.
LEMMA DraftFacts ==
    ASSUME NEW i \in Nat, i < Len(steps), Last(i), steps[i + 1].kind = "call",
           call' = [call EXCEPT ![i] = "draft"], TypeOK
    PROVE  /\ call' \in [Indices -> CallStates]
           /\ \A j \in Indices : \/ call'[j] = call[j]
                                 \/ call'[j] = "draft" /\ Dispatched(j, "call")
<1>1. i \in Indices /\ Dispatched(i, "call")
    <2>1. trail # <<>> /\ trail \in Seq(Indices) /\ trail[Len(trail)] = i
        BY DEF Last, TypeOK
    <2>2. Len(trail) \in DOMAIN trail
        BY <2>1, EmptySeq, LenProperties
    <2>3. i \in Indices
        BY <2>1, <2>2, ElementOfSeq, LenProperties
    <2> QED BY <2>1, <2>2, <2>3 DEF Dispatched
<1>2. call \in [Indices -> CallStates] /\ "draft" \in CallStates
    BY DEF TypeOK, CallStates
<1> QED
    BY <1>1, <1>2

\* A dispatched step that returns at once keeps the invariant.
LEMMA ReturnKeeps ==
    ASSUME IInv, NEW d \in Drivers, NEW ok \in BOOLEAN, StepReturns(d, ok)
    PROVE  IInv'
<1> DEFINE me == driver[d]
           new == [me EXCEPT !.phase = IF ok THEN "drive" ELSE "finish",
                             !.at = @ + 1,
                             !.results = Append(@, Outcome(Kind(d), ok))]
<1>1. driver[d] # Nobody /\ me.phase = "busy"
    BY DEF StepReturns, In
<1>2. /\ driver[d] \in Driving
      /\ \A e \in Drivers : e # d => driver[e] = Nobody
      /\ up /\ rstate = "running" /\ resolving = {} /\ NoLiveCard
      /\ driver[d].steps = steps
      /\ driver[d].at \in 0 .. Len(steps)
      /\ Len(steps) \in Nat /\ MaxSteps \in Nat /\ Len(steps) <= MaxSteps
    BY <1>1, DriverFacts
<1>3. /\ driver' = [driver EXCEPT ![d] = new]
      /\ UNCHANGED <<row, scan, hooks, resolving, up, elapsed, cards, trail,
                     achieved, told, refused, crashes, faults>>
    BY DEF StepReturns
<1>4. HoldsRun(d)
    BY <1>1 DEF IInv, Inductive, DriverInv
<1>5. me.at < Len(steps) /\ Last(me.at)
    BY <1>1, <1>4 DEF HoldsRun
<1>6. /\ new \in Driving /\ new.at = me.at + 1 /\ new.steps = me.steps
      /\ new.phase = (IF ok THEN "drive" ELSE "finish") /\ new.signal = me.signal
    <2>1. Append(me.results, Outcome(Kind(d), ok)) \in Seq(Outcomes)
        BY <1>2, AppendProperties DEF Driving, Outcomes, Outcome
    <2>2. me.at + 1 \in 0 .. MaxSteps
        BY <1>2, <1>5
    <2> QED BY <1>2, <2>1, <2>2 DEF Driving
<1> HIDE DEF new
<1>7. new # Nobody
    BY <1>6, NobodyAssumption
<1>c. /\ call' \in [Indices -> CallStates]
      /\ \A i \in Indices : \/ call'[i] = call[i]
                            \/ call'[i] = "draft" /\ Dispatched(i, "call")
    <2>1. CASE call' = call
        BY <2>1 DEF IInv, TypeOK
    <2>2. CASE Kind(d) = "call" /\ call' = [call EXCEPT ![me.at] = "draft"]
        <3> DEFINE n == me.at
        <3>1. /\ n \in Nat /\ n < Len(steps) /\ Last(n)
              /\ steps[n + 1].kind = "call" /\ call' = [call EXCEPT ![n] = "draft"]
            BY <1>2, <1>5, <2>2 DEF Kind
        <3>2. TypeOK
            BY DEF IInv
        <3> HIDE DEF n
        <3> QED BY <3>1, <3>2, DraftFacts
    <2> QED BY <2>1, <2>2 DEF StepReturns
<1>8. TypeOK'
    BY <1>3, <1>6, <1>c DEF IInv, TypeOK, row
<1>9. /\ driver'[d] = new
      /\ \A e \in Drivers : e # d => driver'[e] = Nobody
    BY <1>2, <1>3 DEF IInv, TypeOK
<1>10. DriverInv'
    <2>1. \A k \in DOMAIN trail : trail[k] < me.at + 1
        BY <1>2, <1>5, TrailFacts DEF IInv, Inductive, TrailInv, StepAtMostOnce, Last
    <2>2. ok => ChainHolds
        <3>1. ok => steps[me.at + 1].kind # "call"
            BY <1>2 DEF StepReturns, Kind
        <3> QED BY <1>5, <3>1, TrailFacts
                DEF IInv, Inductive, TrailInv, ChainOnlyOnSuccess, ChainHolds, Last
    <2>3. HoldsRun(d)'
        BY <1>2, <1>3, <1>4, <1>5, <1>6, <1>9, <2>1, <2>2
           DEF HoldsRun, NoLiveCard, ChainHolds, row
    <2> QED BY <1>9, <2>3 DEF DriverInv
<1>11. WaitInv'
    BY <1>3 DEF IInv, Inductive, WaitInv, NoLiveCard, Last, row
<1>12. ResolvingInv'
    BY <1>3 DEF IInv, Inductive, ResolvingInv, NoLiveCard, Last, row
<1>13. SignalInv'
    <2>1. ASSUME NEW i \in Indices
          PROVE  /\ call'[i] # "none" => Dispatched(i, "call")
                 /\ call'[i] = "achieved" => i \in achieved
        BY <1>c DEF IInv, Inductive, SignalInv
    <2> QED BY <1>3, <2>1 DEF IInv, Inductive, SignalInv, Dispatched, row
<1>14. TrailInv'
    BY <1>3 DEF IInv, Inductive, TrailInv, StepAtMostOnce, ChainOnlyOnSuccess,
                row
<1> QED
    BY <1>8, <1>10, <1>11, <1>12, <1>13, <1>14 DEF IInv, Inductive

\* A dispatched step that parks the run keeps the invariant.
LEMMA SuspendKeeps ==
    ASSUME IInv, NEW d \in Drivers, NEW saved \in BOOLEAN, SuspendStep(d, saved)
    PROVE  IInv'
<1> DEFINE me == driver[d]
<1>1. driver[d] # Nobody /\ me.phase = "busy" /\ Kind(d) \in {"call", "wait", "replan"}
    BY DEF SuspendStep, In
<1>2. /\ driver[d] \in Driving
      /\ \A e \in Drivers : e # d => driver[e] = Nobody
      /\ up /\ rstate = "running" /\ resolving = {} /\ NoLiveCard
      /\ driver[d].steps = steps
      /\ driver[d].at \in 0 .. Len(steps)
      /\ Len(steps) \in Nat /\ MaxSteps \in Nat /\ Len(steps) <= MaxSteps
    BY <1>1, DriverFacts
<1>3. /\ driver' = [driver EXCEPT ![d] = Nobody]
      /\ call' = IF Kind(d) = "call" THEN [call EXCEPT ![me.at] = "draft"] ELSE call
      /\ resolving' = IF Kind(d) = "replan"
                      THEN {[step |-> me.at, planning |-> FALSE]} ELSE {}
      /\ UNCHANGED <<steps, revision, scan, hooks, up, elapsed, cards, trail,
                     achieved, told, refused, crashes>>
    BY <1>2 DEF SuspendStep
<1>4. \/ /\ rstate' = "waiting" /\ cursor' = me.at + 1
         /\ results' = me.results /\ waitingOn' = Kind(d)
         /\ UNCHANGED faults
      \/ /\ faults' = faults + 1
         /\ UNCHANGED <<rstate, cursor, results, waitingOn>>
    BY DEF SuspendStep
<1>5. HoldsRun(d)
    BY <1>1 DEF IInv, Inductive, DriverInv
<1>6. me.at < Len(steps) /\ Last(me.at)
    BY <1>1, <1>5 DEF HoldsRun
<1>7. Kind(d) = steps[me.at + 1].kind
    BY <1>2 DEF Kind
<1>8. me.at \in Nat /\ me.at \in Indices
    BY <1>2, <1>6 DEF Indices
<1>9. Dispatched(me.at, Kind(d))
    <2>1. Len(trail) \in DOMAIN trail /\ trail[Len(trail)] = me.at
        BY <1>6, TrailFacts DEF Last
    <2> QED BY <1>7, <2>1 DEF Dispatched
<1>10. TypeOK'
    <2>1. driver' \in [Drivers -> Driving \cup {Nobody}]
        BY <1>3 DEF IInv, TypeOK
    <2>2. call' \in [Indices -> CallStates]
        BY <1>3, <1>8 DEF IInv, TypeOK, CallStates
    <2>3. resolving' \subseteq [step : Indices, planning : BOOLEAN]
        <3>1. [step |-> me.at, planning |-> FALSE] \in [step : Indices, planning : BOOLEAN]
            BY <1>8
        <3> QED BY <1>3, <3>1
    <2>4. /\ rstate' \in RunStates /\ cursor' \in 0 .. MaxSteps
          /\ results' \in Seq(Outcomes) /\ waitingOn' \in Kinds \cup {"none"}
          /\ faults' \in Nat
        BY <1>1, <1>2, <1>4, <1>6 DEF IInv, TypeOK, RunStates, Kinds, Driving
    <2> QED BY <1>3, <2>1, <2>2, <2>3, <2>4 DEF IInv, TypeOK
<1>11. DriverInv'
    BY <1>2, <1>3 DEF DriverInv, IInv, TypeOK
<1>12. WaitInv'
    BY <1>2, <1>3, <1>4, <1>6, <1>7, <1>8 DEF WaitInv, NoLiveCard, Last
<1>13. ResolvingInv'
    <2> SUFFICES ASSUME NEW t \in resolving'
                 PROVE  /\ resolving' = {t} /\ NoLiveCard'
                        /\ Last(t.step)' /\ steps'[t.step + 1].kind = "replan"
                        /\ rstate' = "waiting" => cursor' = t.step + 1
        BY DEF ResolvingInv
    <2> DEFINE task == [step |-> me.at, planning |-> FALSE]
    <2>0. Kind(d) = "replan" /\ resolving' = {task}
        BY <1>3
    <2>1. t.step = me.at /\ resolving' = {t} /\ Kind(d) = "replan"
        <3>1. t = task
            BY <2>0
        <3>2. task.step = me.at
            OBVIOUS
        <3> HIDE DEF task
        <3> QED BY <2>0, <3>1, <3>2
    <2>2. Last(t.step)' /\ NoLiveCard' /\ steps' = steps
        BY <1>2, <1>3, <1>6, <2>1 DEF NoLiveCard, Last
    <2>3. rstate' = "waiting" => cursor' = me.at + 1
        BY <1>2, <1>4
    <2> QED BY <1>7, <2>1, <2>2, <2>3
<1>14. SignalInv'
    <2>1. SignalInv
        BY DEF IInv, Inductive
    <2>2. ASSUME NEW i, NEW kind, Dispatched(i, kind)
          PROVE  Dispatched(i, kind)'
        BY <1>3, <2>2 DEF Dispatched
    <2>3. ASSUME NEW i \in Indices
          PROVE  /\ call'[i] # "none" => Dispatched(i, "call")'
                 /\ call'[i] = "achieved" => i \in achieved'
        <3>1. CASE call'[i] = call[i]
            BY <1>3, <2>1, <2>2, <3>1 DEF SignalInv
        <3>2. CASE call'[i] # call[i]
            <4>1. i = me.at /\ Kind(d) = "call" /\ call'[i] = "draft"
                BY <1>3, <3>2 DEF IInv, TypeOK
            <4> QED BY <1>9, <2>2, <4>1
        <3> QED BY <3>1, <3>2
    <2>4. \A h \in hooks' : /\ Dispatched(h.step, "call")'
                            /\ h.ok => h.step \in achieved'
        BY <1>3, <2>1, <2>2 DEF SignalInv
    <2>5. (scan # Nobody /\ scan.of = "wait" => Dispatched(scan.step, "wait"))'
        BY <1>3, <2>1, <2>2 DEF SignalInv
    <2> QED BY <2>3, <2>4, <2>5 DEF SignalInv
<1>15. TrailInv'
    BY <1>3 DEF IInv, Inductive, TrailInv, StepAtMostOnce, ChainOnlyOnSuccess
<1> QED
    BY <1>10, <1>11, <1>12, <1>13, <1>14, <1>15 DEF IInv, Inductive

\* Giving the run its verdict keeps the invariant.
LEMMA FinishKeeps ==
    ASSUME IInv, NEW d \in Drivers, NEW raised \in BOOLEAN,
           NEW posted \in BOOLEAN, NEW saved \in BOOLEAN,
           Finish(d, raised, posted, saved)
    PROVE  IInv'
<1>1. driver[d] # Nobody
    BY DEF Finish, In
<1>2. /\ driver[d] \in Driving
      /\ \A e \in Drivers : e # d => driver[e] = Nobody
      /\ up /\ rstate = "running" /\ resolving = {} /\ NoLiveCard
    BY <1>1, DriverFacts
<1>3. /\ driver' = [driver EXCEPT ![d] = Nobody]
      /\ told' \in {told, told + 1}
      /\ refused' \in {refused, refused \cup {"completion"}}
      /\ rstate' \in {"running", "done", "partial", "failed"}
      /\ faults' \in {faults, faults + 1}
      /\ UNCHANGED <<steps, cursor, results, waitingOn, revision, scan, hooks,
                     resolving, up, call, elapsed, cards, trail, achieved, crashes>>
    BY <1>2 DEF Finish, Verdict, Posts
<1>4. TypeOK'
    <2>1. driver' \in [Drivers -> Driving \cup {Nobody}]
        BY <1>3 DEF IInv, TypeOK
    <2>2. rstate' \in RunStates /\ faults' \in Nat /\ told' \in Nat
          /\ refused' \subseteq {"completion", "delta"}
        BY <1>3 DEF IInv, TypeOK, RunStates, Ended
    <2> QED BY <1>3, <2>1, <2>2 DEF IInv, TypeOK
<1>5. DriverInv'
    BY <1>2, <1>3 DEF DriverInv, IInv, TypeOK
<1>6. WaitInv' /\ ResolvingInv'
    BY <1>2, <1>3 DEF WaitInv, ResolvingInv
<1>7. SignalInv'
    BY <1>3 DEF IInv, Inductive, SignalInv, Dispatched
<1>8. TrailInv'
    BY <1>3 DEF IInv, Inductive, TrailInv, StepAtMostOnce, ChainOnlyOnSuccess
<1> QED
    BY <1>4, <1>5, <1>6, <1>7, <1>8 DEF IInv, Inductive

-----------------------------------------------------------------------------
(***************************************************************************)
(* Signals.                                                                *)
(***************************************************************************)
\* Where a waiting run stands.
LEMMA WaitFacts ==
    ASSUME IInv, rstate = "waiting"
    PROVE  /\ \A d \in Drivers : driver[d] = Nobody
           /\ cursor \in 1 .. Len(steps) /\ Len(steps) \in Nat
           /\ Len(steps) <= MaxSteps /\ MaxSteps \in Nat
           /\ Last(cursor - 1) /\ cursor - 1 \in Indices
           /\ waitingOn = steps[cursor].kind
           /\ waitingOn # "replan" => NoLiveCard
           /\ \A k \in DOMAIN trail : trail[k] < cursor
<1>1. \A d \in Drivers : driver[d] = Nobody
    BY DEF IInv, Inductive, DriverInv, HoldsRun
<1>2. /\ cursor \in 1 .. Len(steps) /\ Last(cursor - 1)
      /\ waitingOn = steps[cursor].kind
      /\ waitingOn # "replan" => NoLiveCard
    BY DEF IInv, Inductive, WaitInv
<1>3. Len(steps) \in Nat /\ Len(steps) <= MaxSteps /\ MaxSteps \in Nat
    BY BoundsAssumption, LenProperties DEF IInv, TypeOK
<1>4. \A k \in DOMAIN trail : trail[k] < cursor
    BY <1>2, <1>3, TrailFacts DEF IInv, Inductive, TrailInv, StepAtMostOnce, Last
<1> QED
    BY <1>1, <1>2, <1>3, <1>4 DEF Indices

\* A signal that is taken makes one driver, which holds the run.
LEMMA DeliverFacts ==
    ASSUME IInv, NEW d \in Drivers, NEW step \in Nat, NEW kind \in Kinds,
           NEW ok \in BOOLEAN, NEW plan \in Seq(Step),
           Len(plan) <= MaxSteps,
           up, Deliver(d, step, kind, ok, plan),
           UNCHANGED <<up, cursor, waitingOn, trail>>, steps' = plan,
           Claimable(step) => /\ waitingOn = kind /\ resolving' = {}
                              /\ NoLiveCard' /\ cursor <= Len(plan)
                              /\ ok => ChainHolds'
    PROVE  /\ driver' \in [Drivers -> Driving \cup {Nobody}]
           /\ rstate' \in {rstate, "running"}
           /\ Claimable(step) => DriverInv' /\ rstate' = "running"
           /\ ~Claimable(step) => UNCHANGED <<rstate, driver>>
<1>1. CASE ~Claimable(step)
    BY <1>1 DEF Deliver, IInv, TypeOK
<1>2. CASE Claimable(step)
    <2> DEFINE new == NewDriver(cursor, Append(results, Outcome(kind, ok)), plan,
                                IF ok THEN "drive" ELSE "finish", kind)
    <2>1. /\ rstate = "waiting" /\ rstate' = "running"
          /\ driver' = [driver EXCEPT ![d] = new]
        BY <1>2 DEF Deliver, Claimable
    <2>2. /\ \A e \in Drivers : driver[e] = Nobody
          /\ cursor \in 1 .. Len(steps) /\ MaxSteps \in Nat
          /\ Len(steps) \in Nat /\ Len(steps) <= MaxSteps
          /\ \A k \in DOMAIN trail : trail[k] < cursor
        BY <2>1, WaitFacts
    <2>3. /\ new \in Driving
          /\ new.at = cursor /\ new.steps = plan /\ new.signal = kind
          /\ new.phase = IF ok THEN "drive" ELSE "finish"
        <3>1. Append(results, Outcome(kind, ok)) \in Seq(Outcomes)
            BY AppendProperties DEF IInv, TypeOK, Outcomes, Outcome
        <3> QED BY <2>2, <3>1 DEF NewDriver, Driving
    <2> HIDE DEF new
    <2>4. /\ driver' \in [Drivers -> Driving \cup {Nobody}]
          /\ driver'[d] = new
          /\ \A e \in Drivers : e # d => driver'[e] = Nobody
        BY <2>1, <2>2, <2>3 DEF IInv, TypeOK
    <2>5. HoldsRun(d)'
        BY <1>2, <2>1, <2>2, <2>3, <2>4 DEF HoldsRun
    <2> QED BY <1>2, <2>1, <2>4, <2>5 DEF DriverInv
<1> QED
    BY <1>1, <1>2

\* A run is only woken by the outcome of a call or a timer if it waits on it.
LEMMA SignalKeeps ==
    ASSUME IInv, NEW d \in Drivers, NEW step \in Indices,
           NEW kind \in {"call", "wait"}, NEW ok \in BOOLEAN,
           Dispatched(step, kind), ok /\ kind = "call" => step \in achieved,
           up, Deliver(d, step, kind, ok, steps),
           hooks' \subseteq hooks, scan' \in {scan, Nobody},
           UNCHANGED <<steps, cursor, results, waitingOn, revision, resolving,
                       world>>
    PROVE  IInv'
<1>1. /\ step \in Nat /\ kind \in Kinds
      /\ steps \in Seq(Step) /\ Len(steps) <= MaxSteps
    BY BoundsAssumption DEF Indices, Kinds, IInv, TypeOK
<1>2. /\ UNCHANGED <<up, call, elapsed, cards, trail, achieved, told, refused, crashes, faults>>
      /\ UNCHANGED <<steps, cursor, results, waitingOn, revision, resolving>>
    BY DEF world
<1>3. ASSUME Claimable(step)
      PROVE  /\ waitingOn = kind /\ resolving' = {}
             /\ NoLiveCard' /\ cursor <= Len(steps)
             /\ ok => ChainHolds'
    <2>1. /\ cursor = step + 1 /\ rstate = "waiting"
        BY <1>3 DEF Claimable
    <2>2. /\ cursor \in 1 .. Len(steps) /\ Len(steps) \in Nat
          /\ Last(cursor - 1) /\ waitingOn = steps[cursor].kind
          /\ waitingOn # "replan" => NoLiveCard
        BY <2>1, WaitFacts
    <2>3. waitingOn = kind /\ kind # "replan"
        BY <2>1, <2>2 DEF Dispatched
    <2>4. resolving' = {}
        BY <1>2, <2>1, <2>2, <2>3 DEF IInv, Inductive, ResolvingInv
    <2>5. NoLiveCard'
        BY <1>2, <2>2, <2>3 DEF NoLiveCard
    <2>6. Last(step)
        BY <1>1, <2>1, <2>2
    <2>7. ok => ChainHolds'
        <3> SUFFICES ASSUME ok, NEW k \in DOMAIN trail,
                            steps[trail[k] + 1].kind = "call"
                     PROVE  trail[k] \in achieved
            BY <1>2 DEF ChainHolds
        <3>1. CASE k < Len(trail)
            BY <3>1 DEF IInv, Inductive, TrailInv, ChainOnlyOnSuccess
        <3>2. CASE ~(k < Len(trail))
            <4>1. trail[k] = step
                BY <2>6, <3>2, TrailFacts DEF Last
            <4>2. steps[step + 1].kind = kind
                BY DEF Dispatched
            <4> QED BY <4>1, <4>2
        <3> QED BY <3>1, <3>2
    <2> QED BY <2>2, <2>3, <2>4, <2>5, <2>7
<1>4. /\ driver' \in [Drivers -> Driving \cup {Nobody}]
      /\ rstate' \in {rstate, "running"}
      /\ Claimable(step) => DriverInv' /\ rstate' = "running"
      /\ ~Claimable(step) => UNCHANGED <<rstate, driver>>
    BY <1>1, <1>2, <1>3, DeliverFacts
<1>5. TypeOK'
    BY <1>2, <1>4 DEF IInv, TypeOK, RunStates
<1>6. DriverInv' /\ WaitInv'
    <2>1. CASE Claimable(step)
        BY <1>4, <2>1 DEF WaitInv
    <2>2. CASE ~Claimable(step)
        BY <1>2, <1>4, <2>2 DEF IInv, Inductive, DriverInv, HoldsRun, WaitInv,
                                NoLiveCard, ChainHolds, Last
    <2> QED BY <2>1, <2>2
<1>7. ResolvingInv'
    BY <1>2, <1>4 DEF IInv, Inductive, ResolvingInv, NoLiveCard, Last
<1>8. SignalInv'
    BY <1>2 DEF IInv, Inductive, SignalInv, Dispatched
<1>9. TrailInv'
    BY <1>2 DEF IInv, Inductive, TrailInv, StepAtMostOnce, ChainOnlyOnSuccess
<1> QED
    BY <1>5, <1>6, <1>7, <1>8, <1>9 DEF IInv, Inductive

\* The hook that a reported call runs keeps the invariant.
LEMMA HookKeeps ==
    ASSUME IInv, NEW d \in Drivers, NEW h \in hooks, HookRuns(d, h)
    PROVE  IInv'
<1>1. /\ h.step \in Indices /\ h.ok \in BOOLEAN
      /\ Dispatched(h.step, "call")
      /\ h.ok => h.step \in achieved
    BY DEF IInv, TypeOK, Inductive, SignalInv
<1>2. /\ up /\ hooks' \subseteq hooks /\ scan' = scan
      /\ Deliver(d, h.step, "call", h.ok, steps)
      /\ UNCHANGED <<steps, cursor, results, waitingOn, revision, resolving,
                     world>>
    BY DEF HookRuns
<1> DEFINE i == h.step
           ok == h.ok
<1>3. /\ i \in Indices /\ ok \in BOOLEAN
      /\ Dispatched(i, "call") /\ (ok => i \in achieved)
      /\ Deliver(d, i, "call", ok, steps)
    BY <1>1, <1>2
<1> HIDE DEF i, ok
<1> QED
    BY <1>2, <1>3, SignalKeeps

\* Steps that leave the row, the drivers, the history and the cards alone.
LEMMA OnlySignals ==
    ASSUME IInv, UNCHANGED <<row, driver, resolving, up, cards, trail, achieved>>,
           scan' \in [of : {"call", "wait"}, step : Indices] \cup {Nobody},
           hooks' \subseteq [step : Indices, ok : BOOLEAN],
           elapsed' \subseteq Indices,
           UNCHANGED <<call, told, refused, crashes, faults>>,
           SignalInv'
    PROVE  IInv'
<1>1. UNCHANGED <<rstate, steps, cursor, results, waitingOn, revision>>
    BY DEF row
<1>2. TypeOK'
    BY <1>1 DEF IInv, TypeOK
<1>3. DriverInv'
    BY <1>1 DEF IInv, Inductive, DriverInv, HoldsRun, NoLiveCard, ChainHolds, Last
<1>4. WaitInv' /\ ResolvingInv'
    BY <1>1 DEF IInv, Inductive, WaitInv, ResolvingInv, NoLiveCard, Last
<1>5. TrailInv'
    BY <1>1 DEF IInv, Inductive, TrailInv, StepAtMostOnce, ChainOnlyOnSuccess
<1> QED
    BY <1>2, <1>3, <1>4, <1>5 DEF IInv, Inductive

\* The report of a call touches no row and no driver.
LEMMA ReportKeeps ==
    ASSUME IInv, NEW i \in Indices, CallReports(i)
    PROVE  IInv'
<1> DEFINE new == [step |-> i, ok |-> Achieved(i)]
<1>1. /\ call[i] \in {"achieved", "unachieved", "failed"}
      /\ hooks' = hooks \cup {new}
      /\ UNCHANGED <<rstate, steps, cursor, results, waitingOn, revision>>
      /\ UNCHANGED <<row, driver, scan, resolving>>
      /\ UNCHANGED <<up, call, elapsed, cards, trail, achieved, told, refused, crashes, faults>>
    BY DEF CallReports, row, world
<1>2. /\ new \in [step : Indices, ok : BOOLEAN]
      /\ new.step = i /\ new.ok = (call[i] = "achieved")
    BY DEF Achieved
<1> HIDE DEF new
<1>3. Dispatched(i, "call") /\ (call[i] = "achieved" => i \in achieved)
    BY <1>1 DEF IInv, Inductive, SignalInv
<1>4. SignalInv'
    BY <1>1, <1>2, <1>3 DEF IInv, Inductive, SignalInv, Dispatched
<1> QED
    BY <1>1, <1>2, <1>4, OnlySignals DEF IInv, TypeOK

\* Listing the waiting runs touches no row and no driver.
LEMMA ListKeeps ==
    ASSUME IInv, NEW of \in {"call", "wait"}, SweepLists(of)
    PROVE  IInv'
<1> DEFINE new == [of |-> of, step |-> cursor - 1]
<1>1. /\ rstate = "waiting" /\ (of = "wait" => waitingOn = "wait")
      /\ scan' = new
      /\ UNCHANGED <<rstate, steps, cursor, results, waitingOn, revision>>
      /\ UNCHANGED <<row, driver, hooks, resolving>>
      /\ UNCHANGED <<up, call, elapsed, cards, trail, achieved, told, refused, crashes, faults>>
    BY DEF SweepLists, row, world
<1>2. /\ cursor \in 1 .. Len(steps) /\ cursor - 1 \in Indices
      /\ Last(cursor - 1) /\ waitingOn = steps[cursor].kind
      /\ Len(steps) \in Nat
    BY <1>1, WaitFacts
<1>3. /\ new \in [of : {"call", "wait"}, step : Indices]
      /\ new.of = of /\ new.step = cursor - 1
    BY <1>2
<1> HIDE DEF new
<1>4. of = "wait" => Dispatched(cursor - 1, "wait")
    BY <1>1, <1>2, TrailFacts DEF Dispatched, Last
<1>5. SignalInv'
    <2>1. ASSUME NEW i, NEW kind, Dispatched(i, kind)
          PROVE  Dispatched(i, kind)'
        BY <1>1, <2>1 DEF Dispatched
    <2> QED BY <1>1, <1>3, <1>4, <2>1 DEF IInv, Inductive, SignalInv
<1> QED
    BY <1>1, <1>3, <1>5, OnlySignals DEF IInv, TypeOK

\* The visit of the sweep to a listed run that waits on a call keeps the invariant.
LEMMA PhoneSweepKeeps ==
    ASSUME IInv, NEW d \in Drivers, PhoneSweepVisits(d)
    PROVE  IInv'
<1> DEFINE i == scan.step
<1>1. /\ up /\ scan # Nobody /\ scan' = Nobody /\ hooks' = hooks
      /\ UNCHANGED <<steps, cursor, results, waitingOn, revision, resolving,
                     world>>
    BY DEF PhoneSweepVisits
<1>2. i \in Indices
    BY <1>1 DEF IInv, TypeOK
<1>3. CASE call[i] \in FinishedCall \/ GivesUp(i)
    <2>1. Deliver(d, i, "call", Achieved(i), steps)
        BY <1>3 DEF PhoneSweepVisits
    <2>2. call[i] # "none"
        BY <1>3 DEF FinishedCall, GivesUp
    <2>3. Dispatched(i, "call") /\ (Achieved(i) => i \in achieved)
        BY <1>2, <2>2 DEF Achieved, IInv, Inductive, SignalInv
    <2>4. Achieved(i) \in BOOLEAN
        BY DEF Achieved
    <2> HIDE DEF i
    <2> QED BY <1>1, <1>2, <2>1, <2>3, <2>4, SignalKeeps
<1>4. CASE ~(call[i] \in FinishedCall \/ GivesUp(i))
    <2>1. /\ UNCHANGED <<rstate, driver, hooks>>
          /\ UNCHANGED <<rstate, steps, cursor, results, waitingOn, revision>>
          /\ UNCHANGED <<up, call, elapsed, cards, trail, achieved, told, refused, crashes, faults>>
          /\ UNCHANGED <<row, driver, resolving>>
        BY <1>1, <1>4 DEF PhoneSweepVisits, row, world
    <2>2. SignalInv'
        BY <1>1, <2>1 DEF IInv, Inductive, SignalInv, Dispatched
    <2> QED BY <1>1, <2>1, <2>2, OnlySignals DEF IInv, TypeOK
<1> QED
    BY <1>3, <1>4

\* The visit of the sweep to a run whose timer is due keeps the invariant.
LEMMA TimerSweepKeeps ==
    ASSUME IInv, NEW d \in Drivers, TimerSweepVisits(d)
    PROVE  IInv'
<1>1. /\ up /\ scan # Nobody /\ scan.of = "wait" /\ scan' = Nobody
      /\ hooks' = hooks
      /\ Deliver(d, scan.step, "wait", TRUE, steps)
      /\ UNCHANGED <<steps, cursor, results, waitingOn, revision, resolving,
                     world>>
    BY DEF TimerSweepVisits
<1>2. scan.step \in Indices /\ Dispatched(scan.step, "wait")
    BY <1>1 DEF IInv, TypeOK, Inductive, SignalInv
<1> QED
    BY <1>1, <1>2, SignalKeeps

-----------------------------------------------------------------------------
(***************************************************************************)
(* Checkpoints.                                                            *)
(***************************************************************************)
\* A change of the plan that keeps the kind of every dispatched step keeps
\* what the invariants say of the history.
LEMMA PlanChange ==
    ASSUME IInv, trail' = trail, call' = call, hooks' = hooks, scan' = scan,
           achieved' = achieved, Len(steps) <= Len(steps'), Len(steps') \in Nat,
           \A k \in DOMAIN trail :
              steps'[trail[k] + 1].kind = steps[trail[k] + 1].kind
    PROVE  /\ SignalInv'
           /\ StepAtMostOnce' /\ ChainOnlyOnSuccess'
           /\ \A k \in DOMAIN trail' : trail'[k] < Len(steps')
<1>1. ASSUME NEW i, NEW kind, Dispatched(i, kind)
      PROVE  Dispatched(i, kind)'
    BY <1>1 DEF Dispatched
<1>2. SignalInv'
    BY <1>1 DEF IInv, Inductive, SignalInv
<1>3. StepAtMostOnce' /\ ChainOnlyOnSuccess'
    BY DEF IInv, Inductive, TrailInv, StepAtMostOnce, ChainOnlyOnSuccess
<1>4. Len(steps) \in Nat
    BY LenProperties DEF IInv, TypeOK
<1>5. \A k \in DOMAIN trail : trail[k] < Len(steps)
    BY DEF IInv, Inductive, TrailInv
<1> QED
    BY <1>2, <1>3, <1>4, <1>5, TrailFacts

\* Splicing a checkpoint's proposal in and driving the run on from there.
LEMMA ContinueKeeps ==
    ASSUME IInv, NEW d \in Drivers, NEW i \in Indices, NEW plan \in Seq(Step),
           Len(plan) = Len(steps),
           \A j \in 1 .. Len(steps) : plan[j].kind = steps[j].kind,
           up, AutoContinue(d, i, plan),
           \A e \in Drivers : driver[e] = Nobody,
           Last(i), steps[i + 1].kind = "replan",
           rstate = "waiting" => cursor = i + 1,
           resolving' = {}, faults' \in Nat,
           UNCHANGED <<cursor, results, waitingOn, scan, hooks, up, call, elapsed,
                       cards, trail, achieved, told, refused, crashes>>
    PROVE  IInv'
<1> DEFINE new == Spliced(plan, i)
<1>1. /\ Len(plan) + Len(plan[i + 1].add) <= MaxSteps
      /\ steps' = new /\ revision' = revision + 1
      /\ Deliver(d, i, "replan", TRUE, new)
    BY DEF AutoContinue, Fits
<1>2. /\ i \in Nat /\ MaxSteps \in Nat /\ Len(steps) \in Nat /\ revision \in Nat
      /\ Len(trail) \in DOMAIN trail /\ trail[Len(trail)] = i
    BY BoundsAssumption, LenProperties, TrailFacts DEF Indices, IInv, TypeOK, Last
<1>3. i < Len(steps)
    BY <1>2 DEF IInv, Inductive, TrailInv
<1>4. /\ new \in Seq(Step)
      /\ Len(new) = Len(plan) + Len(plan[i + 1].add)
      /\ Len(plan[i + 1].add) \in Nat
      /\ \A j \in 1 .. i + 1 : new[j] = plan[j]
    BY <1>2, <1>3, SplicedFacts
<1> HIDE DEF new
<1>5. Len(steps) <= Len(steps') /\ Len(steps') \in Nat /\ Len(steps') <= MaxSteps
    BY <1>1, <1>2, <1>4
<1>6. ASSUME NEW k \in DOMAIN trail
      PROVE  /\ steps'[trail[k] + 1].kind = steps[trail[k] + 1].kind
             /\ trail[k] <= i
    <2>1. trail[k] \in Nat /\ trail[k] <= i
        BY <1>2, TrailFacts DEF IInv, Inductive, TrailInv, StepAtMostOnce
    <2>2. trail[k] + 1 \in 1 .. i + 1 /\ trail[k] + 1 \in 1 .. Len(steps)
        BY <1>2, <1>3, <2>1
    <2> QED BY <1>1, <1>4, <2>1, <2>2
<1>7. /\ SignalInv' /\ StepAtMostOnce' /\ ChainOnlyOnSuccess'
      /\ \A k \in DOMAIN trail' : trail'[k] < Len(steps')
    BY <1>5, <1>6, PlanChange
<1>8. /\ NoLiveCard'
      /\ \A c \in cards' : c.rev <= revision'
    <2>1. \A c \in cards : c.rev \in Nat /\ c.rev <= revision
        BY DEF IInv, TypeOK, Inductive, TrailInv
    <2> QED BY <1>1, <1>2, <2>1 DEF NoLiveCard
<1>9. TrailInv'
    BY <1>7, <1>8 DEF TrailInv
<1>10. ChainHolds'
    <2> SUFFICES ASSUME NEW k \in DOMAIN trail,
                        steps'[trail[k] + 1].kind = "call"
                 PROVE  trail[k] \in achieved
        BY DEF ChainHolds
    <2>1. k < Len(trail)
        BY <1>2, <1>6, TrailFacts
    <2> QED BY <1>6, <2>1 DEF IInv, Inductive, TrailInv, ChainOnlyOnSuccess
<1>11. Claimable(i) => waitingOn = "replan" /\ cursor <= Len(new)
    <2>1. rstate = "waiting" =>
             /\ waitingOn = steps[cursor].kind
             /\ cursor \in 1 .. Len(steps)
        BY WaitFacts
    <2> QED BY <1>1, <1>2, <1>5, <2>1 DEF Claimable
<1>12. rstate = "waiting" => Claimable(i)
    BY DEF Claimable
<1>13. /\ driver' \in [Drivers -> Driving \cup {Nobody}]
       /\ rstate' \in {rstate, "running"}
       /\ Claimable(i) => DriverInv' /\ rstate' = "running"
       /\ ~Claimable(i) => UNCHANGED <<rstate, driver>>
    <2>1. "replan" \in Kinds /\ TRUE \in BOOLEAN /\ Len(new) <= MaxSteps
        BY <1>1, <1>5 DEF Kinds
    <2> QED BY <1>1, <1>2, <1>4, <1>8, <1>10, <1>11, <2>1, DeliverFacts
<1>14. TypeOK'
    <2>1. steps' \in Seq(Step) /\ Len(steps') <= MaxSteps /\ revision' \in Nat
        BY <1>1, <1>2, <1>4, <1>5
    <2>2. rstate' \in RunStates
        BY <1>13 DEF RunStates, IInv, TypeOK
    <2> QED BY <1>13, <2>1, <2>2 DEF IInv, TypeOK
<1>15. DriverInv' /\ WaitInv'
    BY <1>12, <1>13 DEF DriverInv, WaitInv
<1>16. ResolvingInv'
    BY DEF ResolvingInv
<1> QED
    BY <1>7, <1>9, <1>14, <1>15, <1>16 DEF IInv, Inductive

\* Where the task of a checkpoint stands.
LEMMA TaskFacts ==
    ASSUME IInv, NEW t \in resolving
    PROVE  /\ t.step \in Indices /\ t.planning \in BOOLEAN
           /\ t.step \in Nat /\ t.step < Len(steps) /\ steps \in Seq(Step)
           /\ resolving = {t} /\ NoLiveCard
           /\ Last(t.step) /\ steps[t.step + 1].kind = "replan"
           /\ rstate = "waiting" => cursor = t.step + 1
           /\ \A e \in Drivers : driver[e] = Nobody
<1>1. t.step \in Indices /\ t.planning \in BOOLEAN /\ steps \in Seq(Step)
    BY DEF IInv, TypeOK
<1>2. /\ resolving = {t} /\ NoLiveCard
      /\ Last(t.step) /\ steps[t.step + 1].kind = "replan"
      /\ rstate = "waiting" => cursor = t.step + 1
    BY DEF IInv, Inductive, ResolvingInv
<1>3. \A e \in Drivers : driver[e] = Nobody
    BY DEF IInv, Inductive, DriverInv, HoldsRun
<1>4. t.step < Len(steps)
    BY <1>2, TrailFacts DEF IInv, Inductive, TrailInv, Last
<1> QED
    BY <1>1, <1>2, <1>3, <1>4, BoundsAssumption DEF Indices

\* The detached task that resolves a checkpoint starts.
LEMMA StartsKeeps ==
    ASSUME IInv, NEW t \in resolving, ResolveStarts(t)
    PROVE  IInv'
<1> DEFINE new == [t EXCEPT !.planning = TRUE]
<1>1. /\ t \in [step : Indices, planning : BOOLEAN]
      /\ resolving = {t} /\ NoLiveCard
      /\ Last(t.step) /\ steps[t.step + 1].kind = "replan"
      /\ rstate = "waiting" => cursor = t.step + 1
      /\ \A e \in Drivers : driver[e] = Nobody
    BY TaskFacts DEF IInv, TypeOK
<1>2. /\ resolving' \subseteq {new}
      /\ UNCHANGED <<row, driver, scan, hooks, world>>
    BY <1>1 DEF ResolveStarts
<1>3. new.step = t.step /\ new \in [step : Indices, planning : BOOLEAN]
    BY <1>1
<1> HIDE DEF new
<1>4. TypeOK'
    BY <1>2, <1>3 DEF IInv, TypeOK, row, world
<1>5. DriverInv' /\ WaitInv'
    BY <1>1, <1>2 DEF IInv, Inductive, DriverInv, WaitInv, NoLiveCard, Last, row, world
<1>6. ResolvingInv'
    BY <1>1, <1>2, <1>3 DEF ResolvingInv, NoLiveCard, Last, row, world
<1>7. SignalInv'
    BY <1>2 DEF IInv, Inductive, SignalInv, Dispatched, row, world
<1>8. TrailInv'
    BY <1>2 DEF IInv, Inductive, TrailInv, StepAtMostOnce, ChainOnlyOnSuccess,
                row, world
<1> QED
    BY <1>4, <1>5, <1>6, <1>7, <1>8 DEF IInv, Inductive

\* The plan with a proposal stored, or as it was: the same kinds of steps.
LEMMA StoredOrNot ==
    ASSUME IInv, NEW t \in resolving, NEW add \in Seq([kind : Kinds]),
           NEW stored \in BOOLEAN
    PROVE  LET plan == IF stored THEN Stored(steps, t.step, add) ELSE steps
           IN  /\ plan \in Seq(Step) /\ Len(plan) = Len(steps)
               /\ \A j \in 1 .. Len(steps) : plan[j].kind = steps[j].kind
<1>1. t.step \in Nat /\ t.step < Len(steps) /\ steps \in Seq(Step)
    BY TaskFacts
<1> QED
    BY <1>1, StoredFacts

\* The detached task parks the run on a card, or splices and drives on.
LEMMA DecidesKeeps ==
    ASSUME IInv, NEW d \in Drivers, NEW t \in resolving, NEW add \in Proposals(t),
           NEW stored \in BOOLEAN, NEW posted \in BOOLEAN,
           ResolveDecides(d, t, add, stored, posted)
    PROVE  IInv'
<1> DEFINE plan == IF stored THEN Stored(steps, t.step, add) ELSE steps
           i == t.step
<1>1. /\ i \in Indices /\ i \in Nat /\ i < Len(steps) /\ steps \in Seq(Step)
      /\ resolving = {t} /\ NoLiveCard
      /\ Last(i) /\ steps[i + 1].kind = "replan"
      /\ rstate = "waiting" => cursor = i + 1
      /\ \A e \in Drivers : driver[e] = Nobody
    BY TaskFacts
<1>2. add \in Seq([kind : Kinds])
    <2>1. steps[i + 1] \in Step
        BY <1>1, LenProperties, ElementOfSeq
    <2> QED BY <2>1, AdditionsAssumption DEF Proposals, Step
<1>3. /\ plan \in Seq(Step) /\ Len(plan) = Len(steps)
      /\ \A j \in 1 .. Len(steps) : plan[j].kind = steps[j].kind
    BY <1>2, StoredOrNot
<1>4. /\ up /\ resolving' = {} /\ faults' \in Nat
      /\ refused' \subseteq {"completion", "delta"}
      /\ UNCHANGED <<cursor, results, waitingOn, scan, hooks, up, call, elapsed,
                     trail, achieved, told, crashes>>
    <2>1. refused \subseteq {"completion", "delta"} /\ faults \in Nat
        BY DEF IInv, TypeOK
    <2>2. refused' \in {refused, refused \cup {"delta"}}
        BY DEF ResolveDecides
    <2>3. refused' \subseteq {"completion", "delta"}
        BY <2>1, <2>2
    <2>4. /\ up /\ resolving' = resolving \ {t} /\ faults' \in {faults, faults + 1}
          /\ UNCHANGED <<cursor, results, waitingOn, scan, hooks, up, call,
                         elapsed, trail, achieved, told, crashes>>
        BY DEF ResolveDecides
    <2> QED BY <1>1, <2>1, <2>3, <2>4
<1>5. \/ AutoContinue(d, i, plan) /\ UNCHANGED <<cards, refused>>
      \/ /\ cards' \in {cards, cards \cup {[rev |-> revision, add |-> add]}}
         /\ steps' = plan
         /\ UNCHANGED <<rstate, revision, driver>>
    BY DEF ResolveDecides
<1> HIDE DEF plan, i
<1>6. CASE AutoContinue(d, i, plan) /\ UNCHANGED <<cards, refused>>
    BY <1>1, <1>3, <1>4, <1>6, ContinueKeeps
<1>7. CASE /\ cards' \in {cards, cards \cup {[rev |-> revision, add |-> add]}}
           /\ steps' = plan
           /\ UNCHANGED <<rstate, revision, driver>>
    <2> DEFINE card == [rev |-> revision, add |-> add]
    <2>1. /\ card \in [rev : Nat, add : Seq([kind : Kinds])]
          /\ card.rev = revision /\ revision \in Nat
        BY <1>2 DEF IInv, TypeOK
    <2>2. cards' \in {cards, cards \cup {card}}
        BY <1>7
    <2> HIDE DEF card
    <2>3. TypeOK'
        BY <1>3, <1>4, <1>7, <2>1, <2>2 DEF IInv, TypeOK
    <2>4. /\ SignalInv' /\ StepAtMostOnce' /\ ChainOnlyOnSuccess'
          /\ \A k \in DOMAIN trail' : trail'[k] < Len(steps')
        <3>1. Len(steps) \in Nat
            BY <1>1, LenProperties
        <3>2. \A k \in DOMAIN trail : trail[k] + 1 \in 1 .. Len(steps)
            BY <3>1, TrailFacts DEF IInv, Inductive, TrailInv
        <3> QED BY <1>3, <1>4, <1>7, <3>1, <3>2, PlanChange
    <2>5. TrailInv'
        BY <1>7, <2>1, <2>2, <2>4 DEF IInv, Inductive, TrailInv
    <2>6. DriverInv' /\ ResolvingInv'
        BY <1>1, <1>4, <1>7 DEF DriverInv, ResolvingInv
    <2>7. WaitInv'
        <3>1. rstate = "waiting" =>
                 /\ cursor \in 1 .. Len(steps)
                 /\ waitingOn = steps[cursor].kind
            BY WaitFacts
        <3> QED BY <1>1, <1>3, <1>4, <1>7, <3>1 DEF WaitInv, Last
    <2> QED BY <2>3, <2>4, <2>5, <2>6, <2>7 DEF IInv, Inductive
<1> QED
    BY <1>5, <1>6, <1>7

\* The detached task fails, and the run goes on with the plan it had.
LEMMA RaisesKeeps ==
    ASSUME IInv, NEW d \in Drivers, NEW t \in resolving, ResolveRaises(d, t)
    PROVE  IInv'
<1> DEFINE i == t.step
<1>1. /\ i \in Indices /\ i \in Nat /\ i < Len(steps) /\ steps \in Seq(Step)
      /\ resolving = {t}
      /\ Last(i) /\ steps[i + 1].kind = "replan"
      /\ rstate = "waiting" => cursor = i + 1
      /\ \A e \in Drivers : driver[e] = Nobody
    BY TaskFacts
<1>2. /\ up /\ resolving' = {} /\ faults' \in Nat
      /\ UNCHANGED <<cursor, results, waitingOn, scan, hooks, up, call, elapsed,
                     cards, trail, achieved, told, refused, crashes>>
    BY <1>1 DEF ResolveRaises, IInv, TypeOK
<1>3. PICK plan : /\ AutoContinue(d, i, plan)
                  /\ \/ plan = steps
                     \/ \E add \in Additions : plan = Stored(steps, i, add)
    BY DEF ResolveRaises
<1>4. /\ plan \in Seq(Step) /\ Len(plan) = Len(steps)
      /\ \A j \in 1 .. Len(steps) : plan[j].kind = steps[j].kind
    <2>1. CASE plan = steps
        BY <1>1, <2>1
    <2>2. ASSUME NEW add \in Additions, plan = Stored(steps, i, add)
          PROVE  /\ plan \in Seq(Step) /\ Len(plan) = Len(steps)
                 /\ \A j \in 1 .. Len(steps) : plan[j].kind = steps[j].kind
        BY <1>1, <2>2, AdditionsAssumption, StoredFacts
    <2> QED BY <1>3, <2>1, <2>2
<1> HIDE DEF i
<1> QED
    BY <1>1, <1>2, <1>3, <1>4, ContinueKeeps

\* A tap on the card of a checkpoint keeps the invariant.
LEMMA ApproveKeeps ==
    ASSUME IInv, NEW d \in Drivers, NEW c \in cards, ApproveReplan(d, c)
    PROVE  IInv'
<1> DEFINE i == cursor - 1
<1>1. /\ up /\ rstate = "waiting" /\ waitingOn = "replan" /\ c.rev = revision
      /\ AutoContinue(d, i, steps)
      /\ UNCHANGED <<cursor, results, waitingOn, scan, hooks, resolving, world>>
    BY DEF ApproveReplan, Tappable
<1>2. /\ \A e \in Drivers : driver[e] = Nobody
      /\ i \in Indices /\ cursor = i + 1
      /\ Last(i) /\ steps[i + 1].kind = "replan"
    BY <1>1, WaitFacts DEF Indices
<1>3. resolving' = {}
    <2>1. ~NoLiveCard
        BY <1>1 DEF NoLiveCard, IInv, TypeOK
    <2> QED BY <1>1, <2>1 DEF IInv, Inductive, ResolvingInv
<1>4. /\ steps \in Seq(Step) /\ faults' \in Nat
      /\ UNCHANGED <<up, call, elapsed, cards, trail, achieved, told, refused, crashes>>
    BY <1>1 DEF world, IInv, TypeOK
<1> HIDE DEF i
<1> QED
    BY <1>1, <1>2, <1>3, <1>4, ContinueKeeps

-----------------------------------------------------------------------------
(***************************************************************************)
(* Cancelling, crashes, recovery, and the environment.                     *)
(***************************************************************************)
\* Cancelling the run keeps the invariant.
LEMMA DiscardKeeps ==
    ASSUME IInv, NEW cleaned \in BOOLEAN, Discard(cleaned)
    PROVE  IInv'
<1>1. /\ up /\ rstate = "waiting" /\ rstate' = "cancelled"
      /\ call' \in {call, Declined} /\ faults' \in {faults, faults + 1}
      /\ UNCHANGED <<steps, cursor, results, waitingOn, revision, driver, scan,
                     hooks, resolving, up, elapsed, cards, trail, achieved, told,
                     refused, crashes>>
    BY DEF Discard, CancelIn, tasks
<1>2. \A e \in Drivers : driver[e] = Nobody
    BY <1>1, WaitFacts
<1>3. /\ call' \in [Indices -> CallStates]
      /\ \A i \in Indices : call'[i] \in {call[i], "refused"}
      /\ \A i \in Indices : call'[i] # "none" => call[i] # "none"
    BY <1>1 DEF Declined, IInv, TypeOK, CallStates
<1>4. TypeOK'
    <2>1. rstate' \in RunStates /\ faults' \in Nat
        BY <1>1 DEF RunStates, Ended, IInv, TypeOK
    <2> QED BY <1>1, <1>3, <2>1 DEF IInv, TypeOK
<1>5. DriverInv' /\ WaitInv'
    BY <1>1, <1>2 DEF DriverInv, WaitInv
<1>6. ResolvingInv'
    BY <1>1 DEF IInv, Inductive, ResolvingInv, NoLiveCard, Last
<1>7. SignalInv'
    <2>1. ASSUME NEW i \in Indices
          PROVE  /\ call'[i] # "none" => Dispatched(i, "call")
                 /\ call'[i] = "achieved" => i \in achieved
        BY <1>3 DEF IInv, Inductive, SignalInv
    <2> QED BY <1>1, <2>1 DEF IInv, Inductive, SignalInv, Dispatched
<1>8. TrailInv'
    BY <1>1 DEF IInv, Inductive, TrailInv, StepAtMostOnce, ChainOnlyOnSuccess
<1> QED
    BY <1>4, <1>5, <1>6, <1>7, <1>8 DEF IInv, Inductive

\* Nobody is left to drive, scan, report or resolve.
LEMMA CrashFacts ==
    ASSUME IInv, Crash
    PROVE  /\ \A e \in Drivers : driver'[e] = Nobody
           /\ driver' \in [Drivers -> Driving \cup {Nobody}]
           /\ scan' = Nobody /\ hooks' = {} /\ resolving' = {}
           /\ up' = FALSE /\ crashes' \in Nat
           /\ UNCHANGED <<cursor, results, waitingOn, elapsed, cards, trail,
                          achieved, refused, faults>>
BY DEF Crash, LoseTasks, IInv, TypeOK

\* A crash that leaves the plan as it is.
LEMMA CrashHere ==
    ASSUME IInv, Crash, UNCHANGED <<steps, revision>>,
           rstate' \in {rstate, "cancelled"}, told' \in Nat,
           call' \in [Indices -> CallStates],
           \A i \in Indices : \/ call'[i] = call[i]
                              \/ call'[i] = "draft" /\ Dispatched(i, "call")
    PROVE  IInv'
<1>1. /\ \A e \in Drivers : driver'[e] = Nobody
      /\ driver' \in [Drivers -> Driving \cup {Nobody}]
      /\ scan' = Nobody /\ hooks' = {} /\ resolving' = {}
      /\ up' = FALSE /\ crashes' \in Nat
      /\ UNCHANGED <<cursor, results, waitingOn, elapsed, cards, trail,
                     achieved, refused, faults>>
    BY CrashFacts
<1>2. TypeOK'
    <2>1. rstate' \in RunStates
        BY DEF IInv, TypeOK, RunStates, Ended
    <2> QED BY <1>1, <2>1 DEF IInv, TypeOK
<1>3. DriverInv' /\ ResolvingInv'
    BY <1>1 DEF DriverInv, ResolvingInv
<1>4. WaitInv'
    BY <1>1 DEF IInv, Inductive, WaitInv, NoLiveCard, Last
<1>5. SignalInv'
    <2>1. ASSUME NEW i \in Indices
          PROVE  /\ call'[i] # "none" => Dispatched(i, "call")
                 /\ call'[i] = "achieved" => i \in achieved
        BY DEF IInv, Inductive, SignalInv
    <2> QED BY <1>1, <2>1 DEF IInv, Inductive, SignalInv, Dispatched
<1>6. TrailInv'
    BY <1>1 DEF IInv, Inductive, TrailInv, StepAtMostOnce, ChainOnlyOnSuccess
<1> QED
    BY <1>2, <1>3, <1>4, <1>5, <1>6 DEF IInv, Inductive

\* A crash between the splice of a checkpoint and its signal.
LEMMA CrashSplice ==
    ASSUME IInv, Crash, NEW i \in Nat, DoneSplice(i),
           Last(i), steps[i + 1].kind = "replan"
    PROVE  IInv'
<1>1. /\ \A e \in Drivers : driver'[e] = Nobody
      /\ driver' \in [Drivers -> Driving \cup {Nobody}]
      /\ scan' = Nobody /\ hooks' = {} /\ resolving' = {}
      /\ up' = FALSE /\ crashes' \in Nat
      /\ UNCHANGED <<cursor, results, waitingOn, elapsed, cards, trail,
                     achieved, refused, faults>>
    BY CrashFacts
<1>2. /\ Len(steps) + Len(steps[i + 1].add) <= MaxSteps
      /\ steps' = Spliced(steps, i) /\ revision' = revision + 1
      /\ UNCHANGED <<rstate, call, told>>
    BY DEF DoneSplice, Fits
<1>3. /\ steps \in Seq(Step) /\ Len(steps) \in Nat /\ revision \in Nat
      /\ Len(trail) \in DOMAIN trail /\ trail[Len(trail)] = i
    BY LenProperties, TrailFacts DEF IInv, TypeOK, Last
<1>4. i < Len(steps)
    BY <1>3 DEF IInv, Inductive, TrailInv
<1>5. /\ steps' \in Seq(Step)
      /\ Len(steps') = Len(steps) + Len(steps[i + 1].add)
      /\ Len(steps[i + 1].add) \in Nat
      /\ \A j \in 1 .. i + 1 : steps'[j] = steps[j]
    BY <1>2, <1>3, <1>4, SplicedFacts
<1>6. Len(steps) <= Len(steps') /\ Len(steps') \in Nat /\ Len(steps') <= MaxSteps
    BY <1>2, <1>3, <1>5
<1>7. ASSUME NEW k \in DOMAIN trail
      PROVE  steps'[trail[k] + 1] = steps[trail[k] + 1]
    <2>1. trail[k] \in Nat /\ trail[k] <= i
        BY <1>3, TrailFacts DEF IInv, Inductive, TrailInv, StepAtMostOnce
    <2> QED BY <1>5, <2>1
<1>8. TypeOK'
    <2>1. revision' \in Nat /\ steps' \in Seq(Step) /\ Len(steps') <= MaxSteps
        BY <1>2, <1>3, <1>5, <1>6
    <2>2. UNCHANGED <<rstate, call, told>>
        BY <1>2
    <2> QED BY <1>1, <2>1, <2>2 DEF IInv, TypeOK
<1>9. DriverInv' /\ ResolvingInv'
    BY <1>1 DEF DriverInv, ResolvingInv
<1>10. /\ \A c \in cards' : c.rev < revision'
    <2>1. \A c \in cards : c.rev \in Nat /\ c.rev <= revision
        BY DEF IInv, TypeOK, Inductive, TrailInv
    <2> QED BY <1>1, <1>2, <1>3, <2>1
<1>11. WaitInv'
    <2> SUFFICES ASSUME rstate = "waiting"
                 PROVE  /\ cursor \in 1 .. Len(steps') /\ Last(cursor - 1)
                        /\ waitingOn = steps'[cursor].kind
        BY <1>1, <1>2, <1>10 DEF WaitInv, NoLiveCard, Last
    <2>1. /\ cursor \in 1 .. Len(steps) /\ Last(cursor - 1)
          /\ waitingOn = steps[cursor].kind
        BY WaitFacts
    <2>2. cursor = i + 1
        BY <1>3, <2>1 DEF Last
    <2> QED BY <1>3, <1>5, <1>6, <2>1, <2>2
<1>12. SignalInv'
    <2>1. ASSUME NEW j \in Indices, Dispatched(j, "call")
          PROVE  Dispatched(j, "call")'
        BY <1>1, <1>7, <2>1 DEF Dispatched
    <2> QED BY <1>1, <1>2, <2>1 DEF IInv, Inductive, SignalInv
<1>13. TrailInv'
    <2>1. \A k \in DOMAIN trail : trail[k] \in Nat /\ trail[k] < Len(steps)
        BY TrailFacts DEF IInv, Inductive, TrailInv
    <2>2. \A k \in DOMAIN trail' : trail'[k] < Len(steps')
        BY <1>1, <1>3, <1>6, <2>1
    <2>3. StepAtMostOnce' /\ ChainOnlyOnSuccess'
        BY <1>1, <1>7 DEF IInv, Inductive, TrailInv, StepAtMostOnce, ChainOnlyOnSuccess
    <2>4. \A c \in cards' : c.rev <= revision'
        BY <1>2, <1>3, <1>10, <1>1 DEF IInv, TypeOK
    <2> QED BY <2>2, <2>3, <2>4 DEF TrailInv
<1> QED
    BY <1>8, <1>9, <1>11, <1>12, <1>13 DEF IInv, Inductive

\* A crash, between any two commits, keeps the invariant.
LEMMA CrashKeeps ==
    ASSUME IInv, Crash
    PROVE  IInv'
<1>1. \/ DoneNothing \/ DoneCancel
      \/ \E c \in cards : Tappable(c) /\ DoneSplice(cursor - 1)
      \/ \E t \in resolving : t.planning /\ DoneSplice(t.step)
      \/ \E d \in Drivers : DoneReport(d) \/ DoneDraft(d)
    BY DEF Crash
<1>2. CASE DoneNothing \/ DoneCancel
    BY <1>2, CrashHere DEF DoneNothing, DoneCancel, IInv, TypeOK
<1>3. ASSUME NEW c \in cards, Tappable(c), DoneSplice(cursor - 1)
      PROVE  IInv'
    <2>1. /\ cursor - 1 \in Indices /\ Last(cursor - 1)
          /\ steps[(cursor - 1) + 1].kind = "replan"
        BY <1>3, WaitFacts DEF Tappable
    <2>2. cursor - 1 \in Nat
        BY <2>1, BoundsAssumption DEF Indices
    <2> QED BY <1>3, <2>1, <2>2, CrashSplice
<1>4. ASSUME NEW t \in resolving, DoneSplice(t.step)
      PROVE  IInv'
    <2> DEFINE i == t.step
    <2>1. i \in Nat /\ Last(i) /\ steps[i + 1].kind = "replan"
        BY TaskFacts
    <2>2. DoneSplice(i)
        BY <1>4
    <2> HIDE DEF i
    <2> QED BY <2>1, <2>2, CrashSplice
<1>5. ASSUME NEW d \in Drivers, DoneReport(d)
      PROVE  IInv'
    <2>1. told' \in Nat /\ call \in [Indices -> CallStates]
        BY <1>5 DEF DoneReport, IInv, TypeOK
    <2>2. UNCHANGED <<rstate, steps, revision, call>>
        BY <1>5 DEF DoneReport
    <2> QED BY <2>1, <2>2, CrashHere
<1>6. ASSUME NEW d \in Drivers, DoneDraft(d)
      PROVE  IInv'
    <2> DEFINE i == driver[d].at
    <2>1. driver[d] # Nobody /\ driver[d].phase = "busy" /\ Kind(d) = "call"
        BY <1>6 DEF DoneDraft, In
    <2>2. /\ driver[d].steps = steps /\ i \in 0 .. Len(steps)
          /\ Len(steps) \in Nat /\ MaxSteps \in Nat /\ Len(steps) <= MaxSteps
        BY <2>1, DriverFacts
    <2>3. i < Len(steps) /\ Last(i) /\ steps[i + 1].kind = "call"
        BY <2>1, <2>2 DEF IInv, Inductive, DriverInv, HoldsRun, Kind
    <2>4. i \in Indices /\ Dispatched(i, "call")
        BY <2>2, <2>3, TrailFacts DEF Indices, Dispatched, Last
    <2>5. /\ call' = [call EXCEPT ![i] = "draft"]
          /\ UNCHANGED <<rstate, steps, revision, told>>
        BY <1>6 DEF DoneDraft
    <2> HIDE DEF i
    <2>6. call \in [Indices -> CallStates] /\ told \in Nat
        BY DEF IInv, TypeOK
    <2>7. /\ call' \in [Indices -> CallStates]
          /\ \A j \in Indices : \/ call'[j] = call[j]
                                \/ call'[j] = "draft" /\ Dispatched(j, "call")
        BY <2>4, <2>5, <2>6 DEF CallStates
    <2> QED BY <2>5, <2>6, <2>7, CrashHere
<1> QED
    BY <1>1, <1>2, <1>3, <1>4, <1>5, <1>6

\* While the process is down nobody drives.
LEMMA RecoveryKeeps ==
    ASSUME IInv, ~up, rstate' \in {rstate, "partial", "failed"},
           up' \in BOOLEAN, told' \in Nat, crashes' \in Nat, faults' \in Nat,
           refused' \subseteq {"completion", "delta"},
           UNCHANGED <<steps, cursor, results, waitingOn, revision, tasks, call,
                       elapsed, cards, trail, achieved>>
    PROVE  IInv'
<1>1. /\ \A d \in Drivers : driver[d] = Nobody
      /\ UNCHANGED <<driver, scan, hooks, resolving>>
    BY DEF tasks, IInv, Inductive, DriverInv, HoldsRun
<1>2. TypeOK'
    <2>1. rstate' \in RunStates
        BY DEF IInv, TypeOK, RunStates, Ended
    <2> QED BY <1>1, <2>1 DEF IInv, TypeOK
<1>3. DriverInv' /\ WaitInv'
    BY <1>1 DEF IInv, Inductive, DriverInv, WaitInv, NoLiveCard, Last
<1>4. ResolvingInv'
    BY <1>1 DEF IInv, Inductive, ResolvingInv, NoLiveCard, Last
<1>5. SignalInv' /\ TrailInv'
    BY <1>1 DEF IInv, Inductive, SignalInv, Dispatched, TrailInv, StepAtMostOnce,
                ChainOnlyOnSuccess
<1> QED
    BY <1>2, <1>3, <1>4, <1>5 DEF IInv, Inductive

\* What the calls of the run do on their own keeps the invariant.
LEMMA CallKeeps ==
    ASSUME IInv, NEW i \in Indices, CallMoves(i)
    PROVE  IInv'
<1>1. PICK s \in CallStates :
          /\ <<call[i], s>> \in CallSteps
          /\ call' = [call EXCEPT ![i] = s]
          /\ achieved' = IF s = "achieved" THEN achieved \cup {i} ELSE achieved
    BY DEF CallMoves
<1>2. /\ UNCHANGED <<rstate, steps, cursor, results, waitingOn, revision>>
      /\ UNCHANGED <<driver, scan, hooks, resolving>>
      /\ UNCHANGED <<up, elapsed, cards, trail, told, refused, crashes, faults>>
    BY DEF CallMoves, row, tasks
<1>3. call[i] # "none"
    BY <1>1 DEF CallSteps, LateCall
<1>4. achieved \subseteq achieved' /\ achieved' \subseteq Indices
    BY <1>1 DEF IInv, TypeOK
<1>5. TypeOK'
    <2>1. call' \in [Indices -> CallStates]
        BY <1>1 DEF IInv, TypeOK
    <2> QED BY <1>2, <1>4, <2>1 DEF IInv, TypeOK
<1>6. DriverInv'
    BY <1>2, <1>4 DEF IInv, Inductive, DriverInv, HoldsRun, NoLiveCard, ChainHolds, Last
<1>7. WaitInv' /\ ResolvingInv'
    BY <1>2 DEF IInv, Inductive, WaitInv, ResolvingInv, NoLiveCard, Last
<1>8. SignalInv'
    <2>1. ASSUME NEW j \in Indices
          PROVE  /\ call'[j] # "none" => Dispatched(j, "call")
                 /\ call'[j] = "achieved" => j \in achieved'
        BY <1>1, <1>3, <1>4 DEF IInv, TypeOK, Inductive, SignalInv
    <2> QED BY <1>2, <1>4, <2>1 DEF IInv, Inductive, SignalInv, Dispatched
<1>9. TrailInv'
    BY <1>2, <1>4 DEF IInv, Inductive, TrailInv, StepAtMostOnce, ChainOnlyOnSuccess
<1> QED
    BY <1>5, <1>6, <1>7, <1>8, <1>9 DEF IInv, Inductive

\* A timer falling due keeps the invariant.
LEMMA TimeKeeps ==
    ASSUME IInv, TimePasses
    PROVE  IInv'
<1>1. /\ rstate = "waiting" /\ elapsed' = elapsed \cup {cursor - 1}
      /\ UNCHANGED <<row, driver, scan, hooks, resolving>>
      /\ UNCHANGED <<up, call, cards, trail, achieved, told, refused, crashes, faults>>
    BY DEF TimePasses, tasks
<1>2. cursor - 1 \in Indices
    BY <1>1, WaitFacts
<1>3. SignalInv'
    BY <1>1 DEF IInv, Inductive, SignalInv, Dispatched, row
<1> QED
    BY <1>1, <1>2, <1>3, OnlySignals DEF IInv, TypeOK

-----------------------------------------------------------------------------
(***************************************************************************)
(* The theorems.                                                           *)
(***************************************************************************)
\* A run that has just been approved satisfies the invariant.
LEMMA InitHolds == Init => IInv
<1> SUFFICES ASSUME Init
             PROVE  IInv
    OBVIOUS
<1>1. PICK d \in Drivers :
        driver = [e \in Drivers |->
                    IF e = d THEN NewDriver(0, <<>>, steps, "drive", "start")
                    ELSE Nobody]
    BY DEF Init
<1> DEFINE new == NewDriver(0, <<>>, steps, "drive", "start")
<1>2. /\ rstate = "running" /\ steps \in Plans /\ cursor = 0 /\ results = <<>>
      /\ waitingOn = "none" /\ revision = 1
      /\ scan = Nobody /\ hooks = {} /\ resolving = {} /\ up = TRUE
      /\ call = [i \in Indices |-> "none"]
      /\ elapsed = {} /\ cards = {} /\ trail = <<>> /\ achieved = {}
      /\ told = 0 /\ refused = {} /\ crashes = 0 /\ faults = 0
    BY DEF Init
<1>3. /\ steps \in Seq(Step) /\ Len(steps) \in Nat /\ MaxSteps \in Nat
      /\ Len(steps) <= MaxSteps
      /\ <<>> \in Seq(Outcomes) /\ <<>> \in Seq(Indices)
      /\ DOMAIN trail = {}
    BY <1>2, PlanAssumption, BoundsAssumption, LenProperties, EmptySeq
<1>4. /\ new \in Driving /\ new.phase = "drive" /\ new.at = 0
      /\ new.steps = steps /\ new.signal = "start"
    BY <1>3 DEF NewDriver, Driving
<1> HIDE DEF new
<1>5. driver = [e \in Drivers |-> IF e = d THEN new ELSE Nobody]
    BY <1>1 DEF new
<1>6. TypeOK
    <2>1. driver \in [Drivers -> Driving \cup {Nobody}]
        BY <1>4, <1>5
    <2>2. call \in [Indices -> CallStates]
        BY <1>2 DEF CallStates
    <2>3. rstate \in RunStates /\ waitingOn \in Kinds \cup {"none"}
        BY <1>2 DEF RunStates
    <2> QED BY <1>2, <1>3, <2>1, <2>2, <2>3 DEF TypeOK
<1>7. DriverInv
    <2>1. driver[d] = new /\ \A e \in Drivers : driver[e] # Nobody => e = d
        BY <1>5
    <2>2. HoldsRun(d)
        BY <1>2, <1>3, <1>4, <2>1 DEF HoldsRun, NoLiveCard, ChainHolds
    <2> QED BY <2>1, <2>2 DEF DriverInv
<1>8. WaitInv /\ ResolvingInv /\ SignalInv
    BY <1>2 DEF WaitInv, ResolvingInv, SignalInv
<1>9. TrailInv
    BY <1>2, <1>3 DEF TrailInv, StepAtMostOnce, ChainOnlyOnSuccess
<1> QED
    BY <1>6, <1>7, <1>8, <1>9 DEF IInv, Inductive

\* A step that changes nothing keeps the invariant.
LEMMA StutterKeeps ==
    ASSUME IInv, UNCHANGED vars
    PROVE  IInv'
<1>1. /\ UNCHANGED <<rstate, steps, cursor, results, waitingOn, revision>>
      /\ UNCHANGED <<driver, scan, hooks, resolving>>
      /\ UNCHANGED <<up, call, elapsed, cards, trail, achieved, told, refused, crashes, faults>>
    BY DEF vars, row, tasks, world
<1>2. SignalInv'
    BY <1>1 DEF IInv, Inductive, SignalInv, Dispatched
<1> QED
    BY <1>1, <1>2, OnlySignals DEF IInv, TypeOK, row

\* Every step keeps the invariant: one case for each action.
LEMMA NextKeeps ==
    ASSUME IInv, [Next]_vars
    PROVE  IInv'
<1>1. ASSUME NEW d \in Drivers, SkipStep(d) \/ DispatchStep(d)
      PROVE  IInv'
    BY <1>1, SkipKeeps, DispatchKeeps
<1>2. ASSUME NEW d \in Drivers, NEW ok \in BOOLEAN, StepReturns(d, ok)
      PROVE  IInv'
    BY <1>2, ReturnKeeps
<1>3. ASSUME NEW d \in Drivers, NEW saved \in BOOLEAN, SuspendStep(d, saved)
      PROVE  IInv'
    BY <1>3, SuspendKeeps
<1>4. ASSUME NEW d \in Drivers, NEW raised \in BOOLEAN,
             NEW posted \in BOOLEAN, NEW saved \in BOOLEAN,
             Finish(d, raised, posted, saved)
      PROVE  IInv'
    BY <1>4, FinishKeeps
<1>5. ASSUME NEW d \in Drivers, NEW h \in hooks, HookRuns(d, h)
      PROVE  IInv'
    BY <1>5, HookKeeps
<1>6. ASSUME NEW d \in Drivers, PhoneSweepVisits(d) \/ TimerSweepVisits(d)
      PROVE  IInv'
    BY <1>6, PhoneSweepKeeps, TimerSweepKeeps
<1>7. ASSUME NEW d \in Drivers, NEW t \in resolving, ResolveRaises(d, t)
      PROVE  IInv'
    BY <1>7, RaisesKeeps
<1>8. ASSUME NEW d \in Drivers, NEW t \in resolving, NEW add \in Proposals(t),
             NEW stored \in BOOLEAN, NEW posted \in BOOLEAN,
             ResolveDecides(d, t, add, stored, posted)
      PROVE  IInv'
    BY <1>8, DecidesKeeps
<1>9. ASSUME NEW d \in Drivers, NEW c \in cards, ApproveReplan(d, c)
      PROVE  IInv'
    BY <1>9, ApproveKeeps
<1>10. ASSUME NEW i \in Indices, CallReports(i) \/ CallMoves(i)
       PROVE  IInv'
    BY <1>10, ReportKeeps, CallKeeps
<1>11. ASSUME NEW of \in {"call", "wait"}, SweepLists(of)
       PROVE  IInv'
    BY <1>11, ListKeeps
<1>12. ASSUME NEW t \in resolving, ResolveStarts(t)
       PROVE  IInv'
    BY <1>12, StartsKeeps
<1>13. ASSUME NEW cleaned \in BOOLEAN, Discard(cleaned) \/ Stop(cleaned)
       PROVE  IInv'
    BY <1>13, DiscardKeeps DEF Stop
<1>14. CASE Crash
    BY <1>14, CrashKeeps
<1>15. CASE CrashInRecovery
    <2>1. /\ told' \in Nat /\ crashes' \in Nat /\ faults \in Nat /\ up \in BOOLEAN
          /\ refused' \subseteq {"completion", "delta"}
        BY <1>15 DEF CrashInRecovery, IInv, TypeOK
    <2>2. /\ ~up /\ up' = up /\ faults' = faults
          /\ UNCHANGED <<rstate, steps, cursor, results, waitingOn, revision>>
          /\ UNCHANGED <<tasks, call, elapsed, cards, trail, achieved>>
        BY <1>15 DEF CrashInRecovery, row
    <2> QED BY <2>1, <2>2, RecoveryKeeps
<1>16. ASSUME NEW posted \in BOOLEAN, NEW saved \in BOOLEAN, Recover(posted, saved)
       PROVE  IInv'
    <2>1. /\ told' \in Nat /\ crashes' \in Nat /\ faults' \in Nat
          /\ up' \in BOOLEAN /\ refused' \subseteq {"completion", "delta"}
        <3>1. /\ told \in Nat /\ crashes \in Nat /\ faults \in Nat
              /\ refused \subseteq {"completion", "delta"}
            BY DEF IInv, TypeOK
        <3>2. /\ told' \in {told, told + 1} /\ crashes' = crashes
              /\ faults' \in {faults, faults + 1} /\ up' = TRUE
              /\ refused' \in {refused, refused \cup {"completion"}}
            BY <1>16 DEF Recover, Posts
        <3> QED BY <3>1, <3>2
    <2>2. ~up /\ rstate' \in {rstate, "partial", "failed"}
        BY <1>16 DEF Recover
    <2>3. UNCHANGED <<steps, cursor, results, waitingOn, revision, tasks, call,
                      elapsed, cards, trail, achieved>>
        BY <1>16 DEF Recover
    <2> QED BY <2>1, <2>2, <2>3, RecoveryKeeps
<1>17. CASE TimePasses
    BY <1>17, TimeKeeps
<1>18. CASE UNCHANGED vars
    BY <1>18, StutterKeeps
<1> QED
    BY <1>1, <1>2, <1>3, <1>4, <1>5, <1>6, <1>7, <1>8, <1>9, <1>10, <1>11, <1>12,
       <1>13, <1>14, <1>15, <1>16, <1>17, <1>18 DEF Next

\* The rows, tasks and cards of a run are always well formed, and whoever
\* holds the run stands at the last dispatched step and holds it alone.
THEOREM RunInvariant == Spec => [](TypeOK /\ Inductive)
<1>1. Init => IInv
    BY InitHolds
<1>2. IInv /\ [Next]_vars => IInv'
    BY NextKeeps
<1>3. Spec => []IInv
    BY <1>1, <1>2, PTL DEF Spec
<1> QED
    BY <1>3 DEF IInv

\* Errand work is never driven by two tasks, and the row says it is driven.
THEOREM OneDriverHolds == Spec => []OneDriver
<1>1. TypeOK /\ Inductive => OneDriver
    <2> SUFFICES ASSUME TypeOK, Inductive
                 PROVE  OneDriver
        OBVIOUS
    <2>1. ASSUME NEW d \in Drivers, driver[d] # Nobody
          PROVE  HoldsRun(d)
        BY <2>1 DEF Inductive, DriverInv
    <2>2. CASE Busy = {}
        BY <2>2, FS_EmptySet DEF OneDriver
    <2>3. ASSUME NEW d \in Busy
          PROVE  OneDriver
        <3>1. d \in Drivers /\ driver[d] # Nobody
            BY <2>3 DEF Busy
        <3>2. Busy = {d}
            BY <2>1, <3>1 DEF Busy, HoldsRun
        <3>3. Cardinality(Busy) = 1
            BY <3>2, FS_Singleton
        <3> QED BY <2>1, <3>1, <3>3 DEF OneDriver, HoldsRun
    <2> QED BY <2>2, <2>3
<1> QED
    BY <1>1, RunInvariant, PTL

\* No step of the plan is dispatched twice or out of order.
THEOREM StepAtMostOnceHolds == Spec => []StepAtMostOnce
<1>1. TypeOK /\ Inductive => StepAtMostOnce
    BY DEF Inductive, TrailInv
<1> QED
    BY <1>1, RunInvariant, PTL

\* A run is resumed only by the kind of signal it waited on.
THEOREM SignalMatchesWaitHolds == Spec => []SignalMatchesWait
<1>1. TypeOK /\ Inductive => SignalMatchesWait
    BY DEF Inductive, DriverInv, HoldsRun, SignalMatchesWait, Busy
<1> QED
    BY <1>1, RunInvariant, PTL

\* Nothing is dispatched after a call that did not achieve its goal.
THEOREM ChainOnlyOnSuccessHolds == Spec => []ChainOnlyOnSuccess
<1>1. TypeOK /\ Inductive => ChainOnlyOnSuccess
    BY DEF Inductive, TrailInv
<1> QED
    BY <1>1, RunInvariant, PTL

-----------------------------------------------------------------------------
(***************************************************************************)
(* The end of a run, and the promise of DurableRun.                        *)
(***************************************************************************)
Active == \E d \in Busy : driver[d].phase # "finish"

\* The run may still start a step.
Alive == Active \/ rstate = "waiting"

\* What every step but a dispatch does to a run that is over.
Rests ==
    /\ trail' = trail
    /\ Alive' => Alive
    /\ rstate \in Ended => rstate' = rstate

\* A step that leaves the row and the drivers alone leaves the run at rest.
LEMMA SameRests ==
    ASSUME UNCHANGED <<rstate, driver, trail>>
    PROVE  Rests
BY DEF Rests, Alive, Active, Busy

\* A driver's step on a run it may still drive.
LEMMA DriverRests ==
    ASSUME IInv, NEW d \in Drivers, driver[d] # Nobody,
           driver[d].phase # "finish", trail' = trail
    PROVE  Rests
<1>1. rstate = "running"
    BY DriverFacts
<1> QED
    BY <1>1 DEF Rests, Alive, Active, Busy, Ended

\* A verdict is given only to a run that has none.
LEMMA FinishRests ==
    ASSUME IInv, NEW d \in Drivers, NEW raised \in BOOLEAN,
           NEW posted \in BOOLEAN, NEW saved \in BOOLEAN,
           Finish(d, raised, posted, saved)
    PROVE  Rests
<1>1. driver[d] # Nobody
    BY DEF Finish, In
<1>2. rstate = "running" /\ \A e \in Drivers : e # d => driver[e] = Nobody
    BY <1>1, DriverFacts
<1>3. \A e \in Drivers : driver'[e] = Nobody
    BY <1>2 DEF Finish, IInv, TypeOK
<1>4. trail' = trail /\ rstate' # "waiting"
    BY <1>2 DEF Finish, Verdict
<1> QED
    BY <1>2, <1>3, <1>4 DEF Rests, Alive, Active, Busy, Ended

\* A signal is taken only by a run that waits.
LEMMA DeliverRests ==
    ASSUME IInv, NEW d \in Drivers, NEW step, NEW kind, NEW ok, NEW plan,
           Deliver(d, step, kind, ok, plan), trail' = trail
    PROVE  Rests
<1>1. CASE ~Claimable(step)
    BY <1>1, SameRests DEF Deliver
<1>2. CASE Claimable(step)
    BY <1>2 DEF Claimable, Rests, Alive, Ended
<1> QED
    BY <1>1, <1>2

\* No step brings a run back that has ended, and none makes one vanish.
LEMMA NextRests ==
    ASSUME IInv, Next, ~\E d \in Drivers : DispatchStep(d)
    PROVE  Rests
<1>1. ASSUME NEW d \in Drivers, SkipStep(d)
      PROVE  Rests
    BY <1>1, DriverRests DEF SkipStep, In, world
<1>2. ASSUME NEW d \in Drivers, NEW ok \in BOOLEAN, StepReturns(d, ok)
      PROVE  Rests
    BY <1>2, DriverRests DEF StepReturns, In, world
<1>3. ASSUME NEW d \in Drivers, NEW saved \in BOOLEAN, SuspendStep(d, saved)
      PROVE  Rests
    BY <1>3, DriverRests DEF SuspendStep, In
<1>4. ASSUME NEW d \in Drivers, NEW raised \in BOOLEAN,
             NEW posted \in BOOLEAN, NEW saved \in BOOLEAN,
             Finish(d, raised, posted, saved)
      PROVE  Rests
    BY <1>4, FinishRests
<1>5. ASSUME NEW d \in Drivers, NEW h \in hooks, HookRuns(d, h)
      PROVE  Rests
    BY <1>5, DeliverRests DEF HookRuns, world
<1>6. ASSUME NEW d \in Drivers, PhoneSweepVisits(d)
      PROVE  Rests
    BY <1>6, DeliverRests, SameRests DEF PhoneSweepVisits, world
<1>7. ASSUME NEW d \in Drivers, TimerSweepVisits(d)
      PROVE  Rests
    BY <1>7, DeliverRests DEF TimerSweepVisits, world
<1>8. ASSUME NEW d \in Drivers, NEW t \in resolving, ResolveRaises(d, t)
      PROVE  Rests
    BY <1>8, DeliverRests DEF ResolveRaises, AutoContinue
<1>9. ASSUME NEW d \in Drivers, NEW t \in resolving, NEW add \in Proposals(t),
             NEW stored \in BOOLEAN, NEW posted \in BOOLEAN,
             ResolveDecides(d, t, add, stored, posted)
      PROVE  Rests
    BY <1>9, DeliverRests, SameRests DEF ResolveDecides, AutoContinue
<1>10. ASSUME NEW d \in Drivers, NEW c \in cards, ApproveReplan(d, c)
       PROVE  Rests
    BY <1>10, DeliverRests DEF ApproveReplan, AutoContinue, world
<1>11. ASSUME NEW i \in Indices, CallReports(i) \/ CallMoves(i)
       PROVE  Rests
    BY <1>11, SameRests DEF CallReports, CallMoves, row, tasks, world
<1>12. ASSUME NEW of \in {"call", "wait"}, SweepLists(of)
       PROVE  Rests
    BY <1>12, SameRests DEF SweepLists, row, world
<1>13. ASSUME NEW t \in resolving, ResolveStarts(t)
       PROVE  Rests
    BY <1>13, SameRests DEF ResolveStarts, row, world
<1>14. ASSUME NEW cleaned \in BOOLEAN, Discard(cleaned) \/ Stop(cleaned)
       PROVE  Rests
    BY <1>14 DEF Stop, Discard, CancelIn, tasks, Rests, Alive, Ended
<1>15. CASE Crash
    <2>1. (\A e \in Drivers : driver'[e] = Nobody) /\ trail' = trail
        BY <1>15, CrashFacts
    <2>2. rstate' = rstate \/ (rstate = "waiting" /\ rstate' = "cancelled")
        BY <1>15 DEF Crash, DoneNothing, DoneCancel, DoneSplice, DoneReport, DoneDraft
    <2> QED BY <2>1, <2>2 DEF Rests, Alive, Active, Busy, Ended
<1>16. CASE CrashInRecovery
    BY <1>16, SameRests DEF CrashInRecovery, row, tasks
<1>17. ASSUME NEW posted \in BOOLEAN, NEW saved \in BOOLEAN, Recover(posted, saved)
       PROVE  Rests
    BY <1>17 DEF Recover, tasks, Rests, Alive, Active, Busy, Ended
<1>18. CASE TimePasses
    BY <1>18, SameRests DEF TimePasses, row, tasks
<1> QED
    BY <1>1, <1>2, <1>3, <1>4, <1>5, <1>6, <1>7, <1>8, <1>9, <1>10, <1>11, <1>12,
       <1>13, <1>14, <1>15, <1>16, <1>17, <1>18 DEF Next

\* A run that was given a verdict or cancelled is never given another one.
THEOREM EndIsFinalHolds == Spec => EndIsFinal
<1>1. TypeOK /\ Inductive /\ [Next]_vars => [(rstate \in Ended) => (rstate' = rstate)]_vars
    <2> SUFFICES ASSUME IInv, Next
                 PROVE  (rstate \in Ended) => (rstate' = rstate)
        BY DEF IInv
    <2>1. CASE \E d \in Drivers : DispatchStep(d)
        BY <2>1 DEF DispatchStep, row
    <2>2. CASE ~\E d \in Drivers : DispatchStep(d)
        BY <2>2, NextRests DEF Rests
    <2> QED BY <2>1, <2>2
<1> QED
    BY <1>1, RunInvariant, PTL DEF Spec, EndIsFinal

-----------------------------------------------------------------------------
(***************************************************************************)
(* The account a run gives: its completion card, what a cancellation       *)
(* leaves behind, and what an Approve tap splices in.                      *)
(***************************************************************************)
Verdicts == {"done", "partial", "failed"}

\* Somebody drives the run, or it waits: its verdict is still to come.
Pending == Busy # {} \/ rstate = "waiting"

\* The notification service did not take the card of its verdict.
Missed == "completion" \in refused

\* A step that reports nothing and ends nothing keeps the account.
LEMMA ReportKept ==
    ASSUME NeverVanishes, ReportInv, UNCHANGED <<told, crashes, up>>,
           Missed' <=> Missed,
           rstate' \in Verdicts => rstate' = rstate,
           Pending' => Pending
    PROVE  NeverVanishes' /\ ReportInv'
BY DEF NeverVanishes, ReportInv, Pending, Verdicts, Missed

\* A signal that is taken, or not.
LEMMA DeliverReports ==
    ASSUME IInv, NeverVanishes, ReportInv, UNCHANGED <<told, crashes, up>>,
           Missed' <=> Missed,
           NEW d \in Drivers, NEW step, NEW kind, NEW ok, NEW plan,
           Deliver(d, step, kind, ok, plan)
    PROVE  NeverVanishes' /\ ReportInv'
<1>1. CASE Claimable(step)
    BY <1>1, ReportKept DEF Deliver, Claimable, Pending, Verdicts
<1>2. CASE ~Claimable(step)
    BY <1>2, ReportKept DEF Deliver, Pending, Busy
<1> QED
    BY <1>1, <1>2

\* A driver's step on a run that has no verdict.
LEMMA DriverReports ==
    ASSUME IInv, NeverVanishes, ReportInv, UNCHANGED <<told, crashes, up>>,
           Missed' <=> Missed,
           NEW d \in Drivers, driver[d] # Nobody, rstate' \notin Verdicts
    PROVE  NeverVanishes' /\ ReportInv'
BY ReportKept DEF Pending, Busy

\* The card of a completed run goes out with its verdict, or is refused.
LEMMA FinishReports ==
    ASSUME IInv, NeverVanishes, ReportInv, NEW d \in Drivers,
           NEW raised \in BOOLEAN, NEW posted \in BOOLEAN, NEW saved \in BOOLEAN,
           Finish(d, raised, posted, saved)
    PROVE  NeverVanishes' /\ ReportInv'
<1>1. driver[d] # Nobody
    BY DEF Finish, In
<1>2. /\ up /\ rstate = "running"
      /\ \A e \in Drivers : e # d => driver[e] = Nobody
    BY <1>1, DriverFacts
<1>3. /\ told = 0 /\ told' \in {0, 1} /\ crashes \in Nat
      /\ told' = 1 \/ "completion" \in refused'
    BY <1>1 DEF ReportInv, Busy, Finish, Posts, IInv, TypeOK
<1>4. Busy' = {}
    BY <1>2 DEF Finish, Busy, IInv, TypeOK
<1>5. rstate' # "waiting" /\ UNCHANGED <<up, crashes>>
    BY <1>2 DEF Finish, Verdict
<1> QED
    BY <1>2, <1>3, <1>4, <1>5 DEF NeverVanishes, ReportInv

\* A crash may come after the report and before the verdict is saved.
LEMMA CrashReports ==
    ASSUME IInv, NeverVanishes, ReportInv, Crash
    PROVE  NeverVanishes' /\ ReportInv'
<1>1. /\ Busy' = {} /\ up /\ ~up' /\ crashes' = crashes + 1
      /\ refused' = refused
    BY CrashFacts DEF Busy, Crash
<1>2. told \in Nat /\ crashes \in Nat
    BY DEF IInv, TypeOK
<1>3. \/ told' = told /\ (rstate' = rstate \/ rstate' = "cancelled")
      \/ told = 0 /\ told' = 1 /\ rstate' = "running"
    <2>1. ASSUME NEW d \in Drivers, DoneReport(d)
          PROVE  told = 0 /\ told' = 1 /\ rstate' = "running"
        <3>1. driver[d] # Nobody
            BY <2>1 DEF DoneReport, In
        <3> QED BY <2>1, <3>1, DriverFacts DEF DoneReport, ReportInv, Busy
    <2> QED BY <2>1 DEF Crash, DoneNothing, DoneCancel, DoneSplice, DoneDraft
<1> QED
    BY <1>1, <1>2, <1>3 DEF NeverVanishes, ReportInv

\* The recovery of an orphan reports it, and may be interrupted before it is
\* saved.
LEMMA RecoveryReports ==
    ASSUME IInv, NeverVanishes, ReportInv,
           CrashInRecovery \/ \E posted, saved \in BOOLEAN : Recover(posted, saved)
    PROVE  NeverVanishes' /\ ReportInv'
<1>1. ~up /\ Busy' = {} /\ Busy = {}
    BY DEF CrashInRecovery, Recover, tasks, Busy, IInv, Inductive, DriverInv, HoldsRun
<1>2. told \in Nat /\ crashes \in Nat /\ told <= crashes
    BY <1>1 DEF ReportInv, IInv, TypeOK
<1>3. CASE CrashInRecovery
    BY <1>1, <1>2, <1>3 DEF CrashInRecovery, row, NeverVanishes, ReportInv
<1>4. CASE \E posted, saved \in BOOLEAN : Recover(posted, saved)
    <2>1. /\ up' /\ crashes' = crashes
          /\ \/ told' = told + 1 /\ rstate' # "waiting"
             \/ /\ told' = told /\ "completion" \in refused'
                /\ rstate' # "waiting"
             \/ told' = told /\ rstate' = rstate /\ refused' = refused
        BY <1>4 DEF Recover, Posts
    <2> QED BY <1>1, <1>2, <2>1 DEF NeverVanishes, ReportInv
<1> QED
    BY <1>3, <1>4

\* Every step keeps the account of a run's reports.
LEMMA NextReports ==
    ASSUME IInv, NeverVanishes, ReportInv, [Next]_vars
    PROVE  NeverVanishes' /\ ReportInv'
<1>1. ASSUME NEW d \in Drivers, SkipStep(d) \/ DispatchStep(d)
      PROVE  NeverVanishes' /\ ReportInv'
    BY <1>1, DriverReports, DriverFacts
       DEF SkipStep, DispatchStep, In, row, world, Verdicts, Missed
<1>2. ASSUME NEW d \in Drivers, NEW ok \in BOOLEAN, StepReturns(d, ok)
      PROVE  NeverVanishes' /\ ReportInv'
    BY <1>2, DriverReports, DriverFacts DEF StepReturns, In, row, Verdicts, Missed
<1>3. ASSUME NEW d \in Drivers, NEW saved \in BOOLEAN, SuspendStep(d, saved)
      PROVE  NeverVanishes' /\ ReportInv'
    BY <1>3, DriverReports, DriverFacts DEF SuspendStep, In, Verdicts, Missed
<1>4. ASSUME NEW d \in Drivers, NEW raised \in BOOLEAN,
             NEW posted \in BOOLEAN, NEW saved \in BOOLEAN,
             Finish(d, raised, posted, saved)
      PROVE  NeverVanishes' /\ ReportInv'
    BY <1>4, FinishReports
<1>5. ASSUME NEW d \in Drivers, NEW h \in hooks, HookRuns(d, h)
      PROVE  NeverVanishes' /\ ReportInv'
    BY <1>5, DeliverReports DEF HookRuns, world, Missed
<1>6. ASSUME NEW d \in Drivers, PhoneSweepVisits(d) \/ TimerSweepVisits(d)
      PROVE  NeverVanishes' /\ ReportInv'
    <2>1. UNCHANGED <<told, crashes, up>> /\ (Missed' <=> Missed)
        BY <1>6 DEF PhoneSweepVisits, TimerSweepVisits, world, Missed
    <2>2. \/ UNCHANGED <<rstate, driver>>
          \/ \E step, kind, ok : Deliver(d, step, kind, ok, steps)
        BY <1>6 DEF PhoneSweepVisits, TimerSweepVisits
    <2> QED BY <2>1, <2>2, DeliverReports, ReportKept DEF Pending, Busy
<1>7. ASSUME NEW d \in Drivers, NEW t \in resolving, ResolveRaises(d, t)
      PROVE  NeverVanishes' /\ ReportInv'
    BY <1>7, DeliverReports DEF ResolveRaises, AutoContinue, Missed
<1>8. ASSUME NEW d \in Drivers, NEW t \in resolving, NEW add \in Proposals(t),
             NEW stored \in BOOLEAN, NEW posted \in BOOLEAN,
             ResolveDecides(d, t, add, stored, posted)
      PROVE  NeverVanishes' /\ ReportInv'
    <2>1. UNCHANGED <<told, crashes, up>> /\ (Missed' <=> Missed)
        BY <1>8 DEF ResolveDecides, Missed
    <2>2. \/ UNCHANGED <<rstate, driver>>
          \/ \E step, kind, ok, plan : Deliver(d, step, kind, ok, plan)
        BY <1>8 DEF ResolveDecides, AutoContinue
    <2> QED BY <2>1, <2>2, DeliverReports, ReportKept DEF Pending, Busy
<1>9. ASSUME NEW d \in Drivers, NEW c \in cards, ApproveReplan(d, c)
      PROVE  NeverVanishes' /\ ReportInv'
    BY <1>9, DeliverReports DEF ApproveReplan, AutoContinue, world, Missed
<1>10. CASE \/ \E i \in Indices : CallReports(i) \/ CallMoves(i)
            \/ \E of \in {"call", "wait"} : SweepLists(of)
            \/ \E t \in resolving : ResolveStarts(t)
            \/ TimePasses \/ UNCHANGED vars
    <2>1. UNCHANGED <<rstate, driver, told, crashes, up>> /\ (Missed' <=> Missed)
        BY <1>10 DEF CallReports, CallMoves, SweepLists, ResolveStarts, TimePasses,
                     vars, row, tasks, world, Missed
    <2> QED BY <2>1, ReportKept DEF Pending, Busy
<1>11. ASSUME NEW cleaned \in BOOLEAN, Discard(cleaned) \/ Stop(cleaned)
       PROVE  NeverVanishes' /\ ReportInv'
    BY <1>11, ReportKept DEF Stop, Discard, CancelIn, tasks, Pending, Busy, Verdicts,
                              Missed
<1> QED
    BY <1>1, <1>2, <1>3, <1>4, <1>5, <1>6, <1>7, <1>8, <1>9, <1>10, <1>11,
       CrashReports, RecoveryReports DEF Next

\* Every step keeps what a cancellation promises: calls are declined with it,
\* and no later step drafts one.
LEMMA NextDraftsNothing ==
    ASSUME IInv, CancelledHasNoDraft, [Next]_vars
    PROVE  CancelledHasNoDraft'
<1> SUFFICES ASSUME rstate' = "cancelled", crashes' = 0, faults' = 0,
                    NEW i \in Indices, call'[i] = "draft"
             PROVE  FALSE
    BY DEF CancelledHasNoDraft
<1>1. crashes \in Nat /\ faults \in Nat
    BY DEF IInv, TypeOK
<1>2. ASSUME UNCHANGED <<rstate, crashes, faults>>, call'[i] = call[i]
      PROVE  FALSE
    BY <1>2 DEF CancelledHasNoDraft
<1>3. ASSUME NEW d \in Drivers, driver[d] # Nobody, rstate' # "cancelled" \/ rstate' = rstate
      PROVE  FALSE
    BY <1>3, DriverFacts
<1>4. ASSUME NEW d \in Drivers, NEW step, NEW kind, NEW ok, NEW plan,
             Deliver(d, step, kind, ok, plan), call' = call, crashes' = crashes,
             faults' \in {faults, faults + 1}
      PROVE  FALSE
    <2>1. faults' = faults
        BY <1>1, <1>4
    <2> QED BY <1>2, <1>4, <2>1 DEF Deliver
<1>5. ASSUME NEW d \in Drivers,
             \/ SkipStep(d) \/ DispatchStep(d)
             \/ \E ok \in BOOLEAN : StepReturns(d, ok)
             \/ \E saved \in BOOLEAN : SuspendStep(d, saved)
             \/ \E raised, posted, saved \in BOOLEAN : Finish(d, raised, posted, saved)
      PROVE  FALSE
    BY <1>3, <1>5 DEF SkipStep, DispatchStep, StepReturns, SuspendStep, Finish, In,
                      Verdict, row
<1>6. ASSUME NEW d \in Drivers,
             \/ \E h \in hooks : HookRuns(d, h)
             \/ \E c \in cards : ApproveReplan(d, c)
             \/ \E t \in resolving : ResolveRaises(d, t)
      PROVE  FALSE
    BY <1>4, <1>6 DEF HookRuns, ApproveReplan, ResolveRaises, AutoContinue, world
<1>7. ASSUME NEW d \in Drivers, PhoneSweepVisits(d) \/ TimerSweepVisits(d)
      PROVE  FALSE
    BY <1>2, <1>4, <1>7 DEF PhoneSweepVisits, TimerSweepVisits, world
<1>8. ASSUME NEW d \in Drivers, NEW t \in resolving, NEW add \in Proposals(t),
             NEW stored \in BOOLEAN, NEW posted \in BOOLEAN,
             ResolveDecides(d, t, add, stored, posted)
      PROVE  FALSE
    <2>1. /\ call' = call /\ crashes' = crashes
          /\ faults' \in {faults, faults + 1}
          /\ \/ rstate' = rstate
             \/ \E step, kind, ok, plan : Deliver(d, step, kind, ok, plan)
        BY <1>8 DEF ResolveDecides, AutoContinue
    <2> QED BY <1>1, <1>2, <1>4, <2>1
<1>9. CASE \/ \E j \in Indices : CallReports(j)
           \/ \E of \in {"call", "wait"} : SweepLists(of)
           \/ \E t \in resolving : ResolveStarts(t)
           \/ TimePasses \/ UNCHANGED vars
    BY <1>2, <1>9 DEF CallReports, SweepLists, ResolveStarts, TimePasses, vars, row,
                      world
<1>10. ASSUME NEW j \in Indices, CallMoves(j)
       PROVE  FALSE
    <2>1. PICK s \in CallStates :
              <<call[j], s>> \in CallSteps /\ call' = [call EXCEPT ![j] = s]
        BY <1>10 DEF CallMoves
    <2>2. s # "draft"
        BY <2>1 DEF CallSteps, LateCall
    <2>3. call'[i] = call[i]
        BY <2>1, <2>2 DEF IInv, TypeOK
    <2> QED BY <1>2, <1>10, <2>3 DEF CallMoves, row
<1>11. ASSUME NEW cleaned \in BOOLEAN, Discard(cleaned) \/ Stop(cleaned)
       PROVE  FALSE
    BY <1>1, <1>11 DEF Stop, Discard, CancelIn, Declined
<1>12. CASE Crash \/ CrashInRecovery
    BY <1>1, <1>12 DEF Crash, CrashInRecovery
<1>13. ASSUME NEW posted \in BOOLEAN, NEW saved \in BOOLEAN, Recover(posted, saved)
       PROVE  FALSE
    BY <1>2, <1>13 DEF Recover
<1> QED
    BY <1>5, <1>6, <1>7, <1>8, <1>9, <1>10, <1>11, <1>12, <1>13 DEF Next

\* A checkpoint that goes on waits no more.
LEMMA ContinueWakes ==
    ASSUME NEW d \in Drivers, NEW i \in Nat, NEW plan, AutoContinue(d, i, plan),
           rstate = "waiting" => cursor = i + 1
    PROVE  rstate' # "waiting"
BY DEF AutoContinue, Deliver, Claimable

\* A step that leaves the row and the cards alone.
LEMMA SameCards ==
    ASSUME CardInv, UNCHANGED <<rstate, steps, cursor, revision, cards, faults>>
    PROVE  CardInv'
BY DEF CardInv

\* A signal leaves them alone, or ends the wait.
LEMMA DeliverCards ==
    ASSUME CardInv, UNCHANGED <<steps, cursor, revision, cards, faults>>,
           NEW d \in Drivers, NEW step, NEW kind, NEW ok, NEW plan,
           Deliver(d, step, kind, ok, plan)
    PROVE  CardInv'
BY DEF CardInv, Deliver

\* The task of a checkpoint stores what it puts on its card.
LEMMA DecidesCards ==
    ASSUME IInv, CardInv, NEW d \in Drivers, NEW t \in resolving,
           NEW add \in Proposals(t), NEW stored \in BOOLEAN, NEW posted \in BOOLEAN,
           ResolveDecides(d, t, add, stored, posted)
    PROVE  CardInv'
<1>1. /\ t.step \in Nat /\ t.step < Len(steps) /\ steps \in Seq(Step)
      /\ NoLiveCard /\ (rstate = "waiting" => cursor = t.step + 1)
    BY TaskFacts
<1>2. CASE ~Widens(steps, add)
    BY <1>1, <1>2, ContinueWakes DEF ResolveDecides, CardInv
<1>3. CASE Widens(steps, add)
    <2> SUFFICES ASSUME faults' = 0, rstate' = "waiting",
                        NEW c \in cards', c.rev = revision'
                 PROVE  steps'[cursor'].add = c.add
        BY DEF CardInv
    <2> DEFINE card == [rev |-> revision, add |-> add]
    <2>1. /\ cards' \in {cards, cards \cup {card}} /\ revision' = revision
          /\ cursor' = cursor /\ rstate = "waiting"
          /\ stored => steps' = Stored(steps, t.step, add)
          /\ stored \/ faults' = faults + 1
        BY <1>3 DEF ResolveDecides
    <2>2. stored
        BY <2>1 DEF IInv, TypeOK
    <2>3. c.rev # revision \/ c = card
        <3>1. ASSUME NEW k \in cards
              PROVE  k.rev # revision
            BY <1>1 DEF NoLiveCard, IInv, TypeOK
        <3> QED BY <2>1, <3>1
    <2>4. c.add = add
        BY <2>1, <2>3
    <2>5. add \in Seq([kind : Kinds])
        <3>1. steps[t.step + 1] \in Step
            BY <1>1, LenProperties, ElementOfSeq
        <3> QED BY <3>1, AdditionsAssumption DEF Proposals, Step
    <2>6. Stored(steps, t.step, add)[t.step + 1].add = add
        BY <1>1, <2>5, StoredFacts
    <2> QED BY <1>1, <2>1, <2>2, <2>4, <2>6
<1> QED
    BY <1>2, <1>3

\* Every step keeps the card that can be tapped in step with the row.
LEMMA NextCards ==
    ASSUME IInv, CardInv, [Next]_vars
    PROVE  CardInv'
<1>1. revision \in Nat /\ faults \in Nat /\ \A c \in cards : c.rev <= revision /\ c.rev \in Nat
    BY DEF IInv, TypeOK, Inductive, TrailInv
<1>2. ASSUME NEW d \in Drivers,
             \/ SkipStep(d) \/ DispatchStep(d)
             \/ \E ok \in BOOLEAN : StepReturns(d, ok)
             \/ \E raised, posted, saved \in BOOLEAN : Finish(d, raised, posted, saved)
      PROVE  CardInv'
    <2>1. driver[d] # Nobody
        BY <1>2 DEF SkipStep, DispatchStep, StepReturns, Finish, In
    <2>2. rstate' # "waiting"
        BY <1>2, <2>1, DriverFacts DEF SkipStep, DispatchStep, StepReturns, Finish,
                                       Verdict, row
    <2> QED BY <2>2 DEF CardInv
<1>3. ASSUME NEW d \in Drivers, NEW saved \in BOOLEAN, SuspendStep(d, saved)
      PROVE  CardInv'
    <2>1. driver[d] # Nobody
        BY <1>3 DEF SuspendStep, In
    <2>2. NoLiveCard /\ UNCHANGED <<cards, revision>>
        BY <1>3, <2>1, DriverFacts DEF SuspendStep
    <2> QED BY <1>1, <2>2 DEF CardInv, NoLiveCard
<1>4. ASSUME NEW d \in Drivers,
             \/ \E h \in hooks : HookRuns(d, h)
             \/ PhoneSweepVisits(d) \/ TimerSweepVisits(d)
      PROVE  CardInv'
    BY <1>4, DeliverCards, SameCards DEF HookRuns, PhoneSweepVisits, TimerSweepVisits,
                                         world
<1>5. ASSUME NEW d \in Drivers, NEW t \in resolving, ResolveRaises(d, t)
      PROVE  CardInv'
    <2>1. t.step \in Nat /\ (rstate = "waiting" => cursor = t.step + 1)
        BY TaskFacts
    <2>2. \E plan : AutoContinue(d, t.step, plan)
        BY <1>5 DEF ResolveRaises
    <2> QED BY <2>1, <2>2, ContinueWakes DEF CardInv
<1>6. ASSUME NEW d \in Drivers, NEW c \in cards, ApproveReplan(d, c)
      PROVE  CardInv'
    <2> DEFINE i == cursor - 1
    <2>1. rstate = "waiting" /\ AutoContinue(d, i, steps)
        BY <1>6 DEF ApproveReplan, Tappable
    <2>2. i \in Nat /\ cursor = i + 1
        BY <2>1, WaitFacts
    <2> HIDE DEF i
    <2> QED BY <2>1, <2>2, ContinueWakes DEF CardInv
<1>7. CASE \/ \E i \in Indices : CallReports(i) \/ CallMoves(i)
           \/ \E of \in {"call", "wait"} : SweepLists(of)
           \/ \E t \in resolving : ResolveStarts(t)
           \/ TimePasses \/ UNCHANGED vars
    BY <1>7, SameCards DEF CallReports, CallMoves, SweepLists, ResolveStarts,
                           TimePasses, vars, row, world
<1>8. ASSUME NEW cleaned \in BOOLEAN, Discard(cleaned) \/ Stop(cleaned)
      PROVE  CardInv'
    BY <1>8 DEF Stop, Discard, CancelIn, CardInv
<1>9. CASE Crash
    <2>1. /\ UNCHANGED <<cursor, cards, faults>>
          /\ \/ UNCHANGED <<steps, revision>> /\ rstate' \in {rstate, "cancelled"}
             \/ revision' = revision + 1
        BY <1>9 DEF Crash, DoneNothing, DoneCancel, DoneSplice, DoneReport, DoneDraft
    <2>2. CASE UNCHANGED <<steps, revision>> /\ rstate' \in {rstate, "cancelled"}
        BY <2>1, <2>2 DEF CardInv
    <2>3. CASE revision' = revision + 1
        BY <1>1, <2>1, <2>3 DEF CardInv
    <2> QED BY <2>1, <2>2, <2>3
<1>10. CASE CrashInRecovery
    BY <1>10, SameCards DEF CrashInRecovery, row
<1>11. ASSUME NEW posted \in BOOLEAN, NEW saved \in BOOLEAN, Recover(posted, saved)
       PROVE  CardInv'
    BY <1>11, SameCards DEF Recover, CardInv
<1> QED
    BY <1>2, <1>3, <1>4, <1>5, <1>6, <1>7, <1>8, <1>9, <1>10, <1>11, DecidesCards
       DEF Next

\* A run that has just been approved has nothing to account for.
LEMMA InitAccounted == Init => Accounted
BY DEF Init, Accounted, NeverVanishes, CancelledHasNoDraft, CardInv, ReportInv, Busy

\* The account of a run is kept, whatever is lost, repeated or cancelled.
THEOREM RunAccounted == Spec => [](TypeOK /\ Inductive /\ Accounted)
<1>1. TypeOK /\ Inductive /\ Accounted /\ [Next]_vars => Accounted'
    BY NextReports, NextDraftsNothing, NextCards DEF IInv, Accounted
<1> QED
    BY <1>1, InitAccounted, RunInvariant, PTL DEF Spec

\* No run ends with a verdict in silence: its completion card went out, or the
\* notification service did not take one.
THEOREM NeverVanishesHolds == Spec => []NeverVanishes
<1>1. TypeOK /\ Inductive /\ Accounted => NeverVanishes
    BY DEF Accounted
<1> QED
    BY <1>1, RunAccounted, PTL

\* Cancelling leaves no plan card of a call open, unless a crash or a database
\* error interrupts the cleanup.
THEOREM CancelledHasNoDraftHolds == Spec => []CancelledHasNoDraft
<1>1. TypeOK /\ Inductive /\ Accounted => CancelledHasNoDraft
    BY DEF Accounted
<1> QED
    BY <1>1, RunAccounted, PTL

\* A crash repeats the completion card at most once, and nothing else does:
\* a run without crashes posts at most the one card of its verdict.
THEOREM OneCardButForCrashes ==
    Spec => [](told <= crashes + 1 /\ (crashes = 0 => OneCompletionCard))
<1>1. TypeOK /\ Inductive /\ Accounted
         => told <= crashes + 1 /\ (crashes = 0 => OneCompletionCard)
    BY DEF Accounted, ReportInv, OneCompletionCard, TypeOK
<1> QED
    BY <1>1, RunAccounted, PTL

\* Only a proposal that could not be stored lets a card show other steps than
\* those its tap splices in.
THEOREM CardShowsUnlessFaulty == Spec => [](faults = 0 => CardShowsWhatIsSpliced)
<1>1. TypeOK /\ Inductive /\ Accounted => (faults = 0 => CardShowsWhatIsSpliced)
    BY DEF Accounted, CardInv, CardShowsWhatIsSpliced, Tappable
<1> QED
    BY <1>1, RunAccounted, PTL

\* What a tap on the card of a checkpoint splices in.
LEMMA ApproveSplices ==
    ASSUME IInv, CardInv, faults = 0, NEW d \in Drivers, NEW c \in cards,
           ApproveReplan(d, c)
    PROVE  /\ Len(steps') = Len(steps) + Len(c.add)
           /\ SubSeq(steps', cursor + 1, cursor + Len(c.add)) = AsSteps(c.add)
<1> DEFINE i == cursor - 1
           new == Spliced(steps, i)
           n == Len(c.add)
<1>1. /\ rstate = "waiting" /\ c.rev = revision
      /\ steps' = new
    BY DEF ApproveReplan, Tappable, AutoContinue
<1>2. /\ i \in Nat /\ cursor = i + 1 /\ i < Len(steps) /\ steps \in Seq(Step)
    <2>1. cursor \in 1 .. Len(steps) /\ Len(steps) \in Nat
        BY <1>1, WaitFacts
    <2>2. steps \in Seq(Step)
        BY DEF IInv, TypeOK
    <2> QED BY <2>1, <2>2
<1>3. steps[i + 1].add = c.add
    BY <1>1, <1>2 DEF CardInv
<1> HIDE DEF i
<1>4. /\ new \in Seq(Step)
      /\ Len(new) = Len(steps) + Len(steps[i + 1].add)
      /\ Len(steps[i + 1].add) \in Nat
      /\ \A j \in 1 .. Len(steps[i + 1].add) :
            new[i + 1 + j] = AsSteps(steps[i + 1].add)[j]
    BY <1>2, SplicedFacts
<1> HIDE DEF new
<1>5. /\ n \in Nat /\ Len(new) = Len(steps) + n
      /\ \A j \in 1 .. n : new[i + 1 + j] = AsSteps(c.add)[j]
    BY <1>3, <1>4
<1> DEFINE added == AsSteps(c.add)
<1>6. added \in Seq(Step) /\ Len(added) = n
    BY AsStepsFacts DEF IInv, TypeOK
<1> HIDE DEF added, n
<1>7. Len(steps) \in Nat
    BY <1>2, LenProperties
<1> DEFINE part == SubSeq(new, i + 2, i + 1 + n)
<1>8. /\ part \in Seq(Step) /\ Len(part) = n
      /\ \A j \in 1 .. n : part[j] = new[i + 1 + j]
    <2>1. \A j \in i + 2 .. i + 1 + n : new[j] \in Step
        BY <1>2, <1>4, <1>5, <1>7, ElementOfSeq
    <2>2. /\ part \in Seq(Step)
          /\ Len(part) = IF i + 2 <= i + 1 + n THEN (i + 1 + n) - (i + 2) + 1 ELSE 0
          /\ \A j \in 1 .. (i + 1 + n) - (i + 2) + 1 : part[j] = new[(i + 2) + j - 1]
        BY <1>2, <1>5, <2>1, SubSeqProperties
    <2>3. (i + 1 + n) - (i + 2) + 1 = n /\ (n = 0 \/ i + 2 <= i + 1 + n)
        BY <1>2, <1>5
    <2>4. \A j \in 1 .. n : (i + 2) + j - 1 = i + 1 + j
        BY <1>2, <1>5
    <2> HIDE DEF part
    <2>5. Len(part) = n
        BY <1>2, <1>5, <2>2, <2>3
    <2> QED BY <2>2, <2>3, <2>4, <2>5
<1> HIDE DEF part
<1>9. part = added
    <2>1. \A j \in 1 .. n : part[j] = added[j]
        BY <1>5, <1>8 DEF added
    <2> QED BY <1>6, <1>8, <2>1, SeqEqual
<1>10. part = SubSeq(steps', cursor + 1, cursor + n)
    <2>1. cursor + 1 = i + 2 /\ cursor + n = i + 1 + n
        BY <1>2
    <2> QED BY <1>1, <2>1 DEF part
<1> QED
    BY <1>1, <1>5, <1>9, <1>10 DEF added, n

\* A tap on a delta card splices in, right after the checkpoint, the very
\* steps that card showed.
THEOREM ApproveAppliesShownHolds == Spec => ApproveAppliesShown
<1>1. TypeOK /\ Inductive /\ Accounted /\ [Next]_vars
         => [\A d \in Drivers, c \in cards :
                faults = 0 /\ ApproveReplan(d, c) =>
                   /\ Len(steps') = Len(steps) + Len(c.add)
                   /\ SubSeq(steps', cursor + 1, cursor + Len(c.add))
                         = AsSteps(c.add)]_vars
    BY ApproveSplices DEF IInv, Accounted
<1> QED
    BY <1>1, RunAccounted, PTL DEF Spec, ApproveAppliesShown

\* A signal moves a waiting run on, or nothing.
LEMMA DeliverLinks ==
    ASSUME NEW d \in Drivers, NEW step, NEW kind, NEW ok, NEW plan,
           Deliver(d, step, kind, ok, plan)
    PROVE  \/ rstate' = rstate
           \/ rstate = "waiting" /\ rstate' = "running"
BY DEF Deliver, Claimable

\* What a step may do to the state in the row.
LEMMA NextLinks ==
    ASSUME IInv, [Next]_vars
    PROVE  \/ rstate' = rstate
           \/ rstate = "running" /\ rstate' \in {"waiting", "done", "partial", "failed"}
           \/ rstate = "waiting" /\ rstate' \in {"running", "cancelled"}
<1> DEFINE Goal ==
           \/ rstate' = rstate
           \/ rstate = "running" /\ rstate' \in {"waiting", "done", "partial", "failed"}
           \/ rstate = "waiting" /\ rstate' \in {"running", "cancelled"}
<1>1. ASSUME NEW d \in Drivers,
             \/ SkipStep(d) \/ DispatchStep(d)
             \/ \E ok \in BOOLEAN : StepReturns(d, ok)
             \/ \E saved \in BOOLEAN : SuspendStep(d, saved)
             \/ \E raised, posted, saved \in BOOLEAN : Finish(d, raised, posted, saved)
      PROVE  Goal
    <2>1. driver[d] # Nobody
        BY <1>1 DEF SkipStep, DispatchStep, StepReturns, SuspendStep, Finish, In
    <2>2. rstate = "running"
        BY <2>1, DriverFacts
    <2> QED BY <1>1, <2>2 DEF SkipStep, DispatchStep, StepReturns, SuspendStep, Finish,
                              Verdict, row
<1>2. ASSUME NEW d \in Drivers,
             \/ \E h \in hooks : HookRuns(d, h)
             \/ PhoneSweepVisits(d) \/ TimerSweepVisits(d)
             \/ \E c \in cards : ApproveReplan(d, c)
      PROVE  Goal
    BY <1>2, DeliverLinks DEF HookRuns, PhoneSweepVisits, TimerSweepVisits,
                              ApproveReplan, AutoContinue
<1>3. ASSUME NEW d \in Drivers, NEW t \in resolving,
             \/ ResolveRaises(d, t)
             \/ \E add \in Proposals(t), stored, posted \in BOOLEAN :
                   ResolveDecides(d, t, add, stored, posted)
      PROVE  Goal
    BY <1>3, DeliverLinks DEF ResolveRaises, ResolveDecides, AutoContinue
<1>4. CASE \/ \E i \in Indices : CallReports(i) \/ CallMoves(i)
           \/ \E of \in {"call", "wait"} : SweepLists(of)
           \/ \E t \in resolving : ResolveStarts(t)
           \/ TimePasses \/ CrashInRecovery \/ UNCHANGED vars
    BY <1>4 DEF CallReports, CallMoves, SweepLists, ResolveStarts, TimePasses,
                CrashInRecovery, vars, row
<1>5. CASE \/ \E cleaned \in BOOLEAN : Discard(cleaned) \/ Stop(cleaned)
           \/ Crash \/ \E posted, saved \in BOOLEAN : Recover(posted, saved)
    BY <1>5 DEF Stop, Discard, CancelIn, Crash, DoneNothing, DoneCancel, DoneSplice,
                DoneReport, DoneDraft, Recover
<1> QED
    BY <1>1, <1>2, <1>3, <1>4, <1>5 DEF Next

\* The run moves only as its plan reckons with: module ErrandPlan assumes of
\* its run what is proved here.
THEOREM RunAsAssumedHolds == Spec => RunAsAssumed
<1>1. TypeOK /\ Inductive /\ [Next]_vars => [LinkedStep]_linked
    BY NextLinks DEF IInv, linked, LinkedStep, LinkedSteps, Ended
<1> QED
    BY <1>1, RunInvariant, PTL DEF Spec, RunAsAssumed

\* An approved run is a durable run that has just been approved.
LEMMA StartsDurably ==
    ASSUME IInv, NEW d \in Drivers, DispatchStep(d)
    PROVE  Durable!Start
<1> DEFINE at == driver[d].at
           new == [driver[d] EXCEPT !.phase = "busy"]
<1>1. /\ driver[d] # Nobody /\ driver[d].phase = "drive"
      /\ at # Len(driver[d].steps)
      /\ driver' = [driver EXCEPT ![d] = new]
      /\ trail' = Append(trail, at) /\ rstate' = rstate
    BY DEF DispatchStep, In, AtEnd, row
<1>2. /\ driver[d] \in Driving /\ driver[d].steps = steps
      /\ at \in 0 .. Len(steps) /\ Len(steps) \in Nat
      /\ MaxSteps \in Nat /\ Len(steps) <= MaxSteps
    BY <1>1, DriverFacts
<1>3. at \in Indices
    BY <1>1, <1>2 DEF Indices
<1>4. \A k \in DOMAIN trail : trail[k] < at
    BY <1>1 DEF IInv, Inductive, DriverInv, HoldsRun
<1>5. new \in Driving /\ new.phase = "busy"
    BY <1>2 DEF Driving
<1> HIDE DEF new
<1>6. driver'[d] = new /\ new # Nobody
    BY <1>1, <1>5, NobodyAssumption DEF IInv, TypeOK
<1>7. runPhase = "active" /\ runPhase' = "active"
    BY <1>1, <1>5, <1>6 DEF runPhase, Busy
<1> QED
    BY <1>1, <1>3, <1>4, <1>7 DEF Durable!Start

\* A step of the run is a step of the durable run, or none.
LEMMA RestsDurably ==
    ASSUME Rests
    PROVE  Durable!Next \/ UNCHANGED Durable!vars
<1>1. /\ trail' = trail
      /\ runPhase = (IF Active THEN "active"
                     ELSE IF rstate = "waiting" THEN "parked" ELSE "over")
      /\ runPhase' = (IF Active' THEN "active"
                      ELSE IF rstate' = "waiting" THEN "parked" ELSE "over")
    BY DEF Rests, runPhase, Active
<1>2. Active' \/ rstate' = "waiting" => Active \/ rstate = "waiting"
    BY DEF Rests, Alive
<1> QED
    BY <1>1, <1>2
       DEF Durable!Next, Durable!Park, Durable!Wake, Durable!End, Durable!Move,
           Durable!vars

\* The run of the code implements the promise of DurableRun: its steps are
\* started in order and at most once, only while it is active, and a run that
\* is over stays over.
THEOREM RunIsDurable == Spec => ImplementsDurableRun
<1>1. Init => Durable!Init
    <2> SUFFICES ASSUME Init
                 PROVE  Durable!Init
        OBVIOUS
    <2>1. PICK d \in Drivers :
            driver = [e \in Drivers |->
                        IF e = d THEN NewDriver(0, <<>>, steps, "drive", "start")
                        ELSE Nobody]
        BY DEF Init
    <2>2. driver[d] = NewDriver(0, <<>>, steps, "drive", "start")
        BY <2>1
    <2>3. driver[d].phase = "drive" /\ driver[d] # Nobody
        <3>1. /\ steps \in Seq(Step) /\ <<>> \in Seq(Outcomes) /\ MaxSteps \in Nat
            BY PlanAssumption, BoundsAssumption, EmptySeq DEF Init
        <3>2. driver[d] \in Driving
            BY <2>2, <3>1 DEF NewDriver, Driving
        <3> QED BY <2>2, <3>2, NobodyAssumption DEF NewDriver
    <2>4. trail = <<>>
        BY DEF Init
    <2> QED BY <2>3, <2>4 DEF Durable!Init, runPhase, Busy
<1>2. TypeOK /\ Inductive /\ [Next]_vars => [Durable!Next]_(Durable!vars)
    <2> SUFFICES ASSUME IInv, [Next]_vars
                 PROVE  Durable!Next \/ UNCHANGED Durable!vars
        BY DEF IInv
    <2>1. CASE UNCHANGED vars
        BY <2>1, SameRests, RestsDurably DEF vars, row, tasks, world
    <2>2. CASE Next /\ \E d \in Drivers : DispatchStep(d)
        BY <2>2, StartsDurably DEF Durable!Next
    <2>3. CASE Next /\ ~\E d \in Drivers : DispatchStep(d)
        BY <2>3, NextRests, RestsDurably
    <2> QED BY <2>1, <2>2, <2>3
<1> QED
    BY <1>1, <1>2, RunInvariant, PTL DEF Spec, ImplementsDurableRun, Durable!Spec
=============================================================================
