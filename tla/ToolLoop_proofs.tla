-------------------------- MODULE ToolLoop_proofs --------------------------
(***************************************************************************)
(* What the transcript of a conversation keeps through scrubs, pops and    *)
(* trims, and what the guards of the tool loop promise, for every number   *)
(* of iterations and requests, every set of calls and every reply.         *)
(***************************************************************************)
EXTENDS ToolLoop, SequenceTheorems, FiniteSetTheorems, WellFoundedInduction, TLAPS

-----------------------------------------------------------------------------
(***************************************************************************)
(* Induction, as the least counterexample.                                 *)
(***************************************************************************)
LEMMA LeastNat ==
    ASSUME NEW T, T \subseteq Nat, T # {}
    PROVE  \E x \in T : \A y \in T : x <= y
<1>1. PICK x \in T : \A y \in T : <<y, x>> \notin OpToRel(<, Nat)
    BY WFMin, NatLessThanWellFounded, Zenon
<1>2. \A y \in T : ~(y < x)
    BY <1>1 DEF OpToRel
<1> QED
    BY <1>2

-----------------------------------------------------------------------------
(***************************************************************************)
(* Without: the recursive function of its definition exists, and the       *)
(* messages it keeps are those of the transcript, in their order.          *)
(***************************************************************************)
Keeps(ms, kinds, n, f) ==
    f = [m \in 0 .. n |->
            IF m = 0 THEN <<>>
            ELSE IF ms[m] \in kinds THEN f[m - 1] ELSE Append(f[m - 1], ms[m])]

LEMMA KeepsExists ==
    ASSUME NEW ms, NEW kinds, NEW len \in Nat
    PROVE  \E f : Keeps(ms, kinds, len, f)
<1> DEFINE T == {n \in Nat : ~\E f : Keeps(ms, kinds, n, f)}
<1>1. SUFFICES ASSUME T # {}
               PROVE  FALSE
    OBVIOUS
<1>2. PICK n \in T : \A y \in T : n <= y
    BY <1>1, LeastNat
<1>3. n # 0
    <2> DEFINE f == [m \in 0 .. 0 |-> <<>>]
    <2>1. Keeps(ms, kinds, 0, f)
        BY DEF Keeps
    <2> QED BY <2>1
<1>4. n - 1 \in Nat /\ n - 1 \notin T
    BY <1>2, <1>3
<1>5. PICK f : Keeps(ms, kinds, n - 1, f)
    BY <1>4
<1> DEFINE g == [m \in 0 .. n |->
                    IF m = n
                    THEN IF ms[n] \in kinds THEN f[n - 1] ELSE Append(f[n - 1], ms[n])
                    ELSE f[m]]
<1>6. \A m \in 0 .. n :
         g[m] = IF m = 0 THEN <<>>
                ELSE IF ms[m] \in kinds THEN g[m - 1] ELSE Append(g[m - 1], ms[m])
    <2> SUFFICES ASSUME NEW m \in 0 .. n
                 PROVE  g[m] = IF m = 0 THEN <<>>
                               ELSE IF ms[m] \in kinds THEN g[m - 1]
                                    ELSE Append(g[m - 1], ms[m])
        OBVIOUS
    <2>1. CASE m = n
        BY <1>3, <1>4, <2>1
    <2>2. CASE m # n
        <3>1. m \in 0 .. n - 1 /\ (m # 0 => m - 1 \in 0 .. n - 1)
            BY <1>4, <2>2
        <3>2. f[m] = IF m = 0 THEN <<>>
                     ELSE IF ms[m] \in kinds THEN f[m - 1] ELSE Append(f[m - 1], ms[m])
            BY <1>5, <3>1 DEF Keeps
        <3>3. g[m] = f[m] /\ (m # 0 => g[m - 1] = f[m - 1])
            BY <1>4, <2>2, <3>1
        <3> QED BY <3>2, <3>3
    <2> QED BY <2>1, <2>2
<1>7. Keeps(ms, kinds, n, g)
    BY <1>6 DEF Keeps
<1> QED BY <1>7

\* Without, step by step.
LEMMA WithoutSteps ==
    ASSUME NEW ms, NEW kinds, Len(ms) \in Nat
    PROVE  \E f : /\ Without(ms, kinds) = f[Len(ms)] /\ f[0] = <<>>
                  /\ \A n \in 1 .. Len(ms) :
                        f[n] = IF ms[n] \in kinds THEN f[n - 1]
                               ELSE Append(f[n - 1], ms[n])
<1> DEFINE P(f) == f = [n \in 0 .. Len(ms) |->
                           IF n = 0 THEN <<>>
                           ELSE IF ms[n] \in kinds THEN f[n - 1]
                                ELSE Append(f[n - 1], ms[n])]
           h == CHOOSE f : P(f)
<1>1. \E f : P(f)
    <2>1. PICK f : Keeps(ms, kinds, Len(ms), f)
        BY KeepsExists
    <2>2. P(f)
        BY <2>1, Zenon DEF Keeps
    <2> QED BY <2>2, Zenon
<1>2. P(h)
    BY <1>1, Zenon
<1>3. Without(ms, kinds) = h[Len(ms)]
    BY Zenon DEF Without
<1> HIDE DEF h
<1>4. h[0] = <<>>
    BY <1>2
<1>5. \A n \in 1 .. Len(ms) :
         h[n] = IF ms[n] \in kinds THEN h[n - 1] ELSE Append(h[n - 1], ms[n])
    <2> SUFFICES ASSUME NEW n \in 1 .. Len(ms)
                 PROVE  h[n] = IF ms[n] \in kinds THEN h[n - 1]
                               ELSE Append(h[n - 1], ms[n])
        OBVIOUS
    <2>1. n \in 0 .. Len(ms) /\ n # 0
        OBVIOUS
    <2> QED BY <1>2, <2>1
<1> QED BY <1>3, <1>4, <1>5

\* e places the messages of w, in their order, in the first n of ms; none of
\* them is of kinds, and all the others are.
Places(ms, kinds, n, w, e) ==
    /\ e \in [1 .. Len(w) -> 1 .. n]
    /\ \A j \in 1 .. Len(w) : w[j] = ms[e[j]] /\ w[j] \notin kinds
    /\ \A i, j \in 1 .. Len(w) : i < j => e[i] < e[j]
    /\ \A i \in 1 .. n : ms[i] \notin kinds => \E j \in 1 .. Len(w) : e[j] = i

LEMMA WithoutPlaces ==
    ASSUME NEW S, NEW ms \in Seq(S), NEW kinds
    PROVE  /\ Without(ms, kinds) \in Seq(S)
           /\ \E e : Places(ms, kinds, Len(ms), Without(ms, kinds), e)
<1>1. Len(ms) \in Nat /\ \A i \in 1 .. Len(ms) : ms[i] \in S
    BY LenProperties, ElementOfSeq
<1>2. PICK f : /\ Without(ms, kinds) = f[Len(ms)] /\ f[0] = <<>>
               /\ \A n \in 1 .. Len(ms) :
                     f[n] = IF ms[n] \in kinds THEN f[n - 1]
                            ELSE Append(f[n - 1], ms[n])
    BY <1>1, WithoutSteps
<1> DEFINE Good(n) == f[n] \in Seq(S) /\ \E e : Places(ms, kinds, n, f[n], e)
           T == {n \in 0 .. Len(ms) : ~Good(n)}
<1>3. SUFFICES T = {}
    BY <1>1, <1>2
<1>4. SUFFICES ASSUME T # {}
               PROVE  FALSE
    OBVIOUS
<1>5. PICK n \in T : \A y \in T : n <= y
    <2>1. T \subseteq Nat
        OBVIOUS
    <2> QED BY <1>4, <2>1, LeastNat
<1>6. n # 0
    <2>1. f[0] \in Seq(S) /\ Len(f[0]) = 0
        BY <1>2, EmptySeq
    <2> DEFINE e == [j \in 1 .. 0 |-> 0]
    <2>2. e \in [1 .. 0 -> 1 .. 0]
        OBVIOUS
    <2> HIDE DEF e
    <2>3. Places(ms, kinds, 0, f[0], e)
        BY <2>1, <2>2 DEF Places
    <2> QED BY <1>5, <2>1, <2>3
<1>7. n \in 1 .. Len(ms) /\ n - 1 \in 0 .. Len(ms) /\ n - 1 \notin T
    BY <1>1, <1>5, <1>6
<1>8. Good(n - 1)
    BY <1>7
<1> DEFINE w == f[n - 1]
<1>9. w \in Seq(S) /\ Len(w) \in Nat
    BY <1>8, LenProperties
<1>10. PICK e : Places(ms, kinds, n - 1, w, e)
    BY <1>8
<1>11. CASE ms[n] \in kinds
    <2>1. f[n] = w
        BY <1>2, <1>7, <1>11
    <2>2. e \in [1 .. Len(w) -> 1 .. n]
        BY <1>1, <1>7, <1>10 DEF Places
    <2>3. Places(ms, kinds, n, w, e)
        BY <1>1, <1>7, <1>10, <1>11, <2>2 DEF Places
    <2> QED BY <1>5, <1>9, <2>1, <2>3
<1>12. CASE ms[n] \notin kinds
    <2>1. f[n] = Append(w, ms[n])
        BY <1>2, <1>7, <1>12
    <2> HIDE DEF w
    <2> DEFINE v == Append(w, ms[n])
               d == [j \in 1 .. Len(w) + 1 |-> IF j = Len(w) + 1 THEN n ELSE e[j]]
    <2>2. /\ v \in Seq(S) /\ Len(v) = Len(w) + 1
          /\ \A j \in 1 .. Len(w) : v[j] = w[j]
          /\ v[Len(w) + 1] = ms[n]
        BY <1>1, <1>7, <1>9, AppendProperties
    <2>3. \A j \in 1 .. Len(w) : e[j] \in 1 .. n - 1
        BY <1>10 DEF Places
    <2>4. d \in [1 .. Len(v) -> 1 .. n]
        BY <1>1, <1>7, <2>2, <2>3
    <2>5. /\ \A j \in 1 .. Len(w) : d[j] = e[j] /\ d[j] < n
          /\ d[Len(w) + 1] = n
        BY <1>1, <1>7, <1>9, <2>3
    <2> HIDE DEF v, d
    <2>6. \A j \in 1 .. Len(v) : v[j] = ms[d[j]] /\ v[j] \notin kinds
        BY <1>9, <1>10, <1>12, <2>2, <2>5 DEF Places
    <2>7. \A i, j \in 1 .. Len(v) : i < j => d[i] < d[j]
        BY <1>9, <1>10, <2>2, <2>5 DEF Places
    <2>8. ASSUME NEW i \in 1 .. n, ms[i] \notin kinds
          PROVE  \E j \in 1 .. Len(v) : d[j] = i
        <3>1. CASE i = n
            BY <1>9, <2>2, <2>5, <3>1
        <3>2. CASE i # n
            <4>1. i \in 1 .. n - 1
                BY <1>1, <1>7, <3>2
            <4>2. PICK j \in 1 .. Len(w) : e[j] = i
                BY <1>10, <2>8, <4>1 DEF Places
            <4> QED BY <1>9, <2>2, <2>5, <4>2
        <3> QED BY <3>1, <3>2
    <2>9. Places(ms, kinds, n, v, d)
        BY <2>4, <2>6, <2>7, <2>8 DEF Places
    <2> QED BY <1>5, <2>1, <2>2, <2>9 DEF v
<1> QED
    BY <1>11, <1>12

-----------------------------------------------------------------------------
(***************************************************************************)
(* What the operations on a transcript keep.                               *)
(***************************************************************************)
Transcript(ms) == ms \in Seq(Kinds) /\ Len(ms) > 0 /\ ms[1] = "prompt"

Holds(ms, kind) == \E i \in 1 .. Len(ms) : ms[i] = kind

LEMMA TranscriptFacts ==
    ASSUME NEW ms, Transcript(ms)
    PROVE  /\ Len(ms) \in Nat /\ Len(ms) > 0 /\ DOMAIN ms = 1 .. Len(ms)
           /\ \A i \in 1 .. Len(ms) : ms[i] \in Kinds
           /\ ms[1] = "prompt" /\ ms \in Seq(Kinds)
           /\ Last(ms) \in Kinds
BY LenProperties, ElementOfSeq DEF Transcript, Last

\* Counting.
LEMMA CountFacts ==
    ASSUME NEW ms \in Seq(Kinds), NEW kind
    PROVE  /\ IsFiniteSet({i \in 1 .. Len(ms) : ms[i] = kind})
           /\ Count(ms, kind) = Cardinality({i \in 1 .. Len(ms) : ms[i] = kind})
           /\ Count(ms, kind) \in Nat
           /\ ~Holds(ms, kind) => Count(ms, kind) = 0
<1>1. Len(ms) \in Nat /\ DOMAIN ms = 1 .. Len(ms)
    BY LenProperties
<1> DEFINE P == {i \in 1 .. Len(ms) : ms[i] = kind}
<1>2. IsFiniteSet(1 .. Len(ms)) /\ P \in SUBSET (1 .. Len(ms))
    BY <1>1, FS_Interval
<1>3. IsFiniteSet(P) /\ Cardinality(P) \in Nat
    BY <1>2, FS_Subset, FS_CardinalityType
<1>4. Count(ms, kind) = Cardinality(P)
    BY <1>1 DEF Count
<1>5. ~Holds(ms, kind) => P = {}
    BY DEF Holds
<1> QED
    BY <1>3, <1>4, <1>5, FS_EmptySet

\* A message is appended.
LEMMA AppendFacts ==
    ASSUME NEW ms, Transcript(ms), NEW kind \in Kinds
    PROVE  /\ Transcript(Append(ms, kind)) /\ Last(Append(ms, kind)) = kind
           /\ Len(Append(ms, kind)) = Len(ms) + 1
           /\ \A i \in 1 .. Len(ms) : Append(ms, kind)[i] = ms[i]
           /\ \A x : Holds(Append(ms, kind), x) <=> Holds(ms, x) \/ x = kind
           /\ \A x : x # kind => Count(Append(ms, kind), x) = Count(ms, x)
           /\ Count(Append(ms, kind), kind) = Count(ms, kind) + 1
<1> DEFINE w == Append(ms, kind)
<1>1. Len(ms) \in Nat /\ Len(ms) > 0 /\ ms \in Seq(Kinds) /\ ms[1] = "prompt"
    BY TranscriptFacts
<1>2. /\ w \in Seq(Kinds) /\ Len(w) = Len(ms) + 1
      /\ \A i \in 1 .. Len(ms) : w[i] = ms[i]
      /\ w[Len(ms) + 1] = kind
    BY <1>1, AppendProperties
<1> HIDE DEF w
<1>3. Transcript(w) /\ Last(w) = kind
    BY <1>1, <1>2 DEF Transcript, Last
<1>4. \A x : Holds(w, x) <=> Holds(ms, x) \/ x = kind
    BY <1>1, <1>2 DEF Holds
<1>5. ASSUME NEW x, x # kind
      PROVE  Count(w, x) = Count(ms, x)
    <2>1. {i \in 1 .. Len(w) : w[i] = x} = {i \in 1 .. Len(ms) : ms[i] = x}
        BY <1>1, <1>2, <1>5
    <2> QED BY <1>1, <1>2, <2>1, CountFacts
<1>6. Count(w, kind) = Count(ms, kind) + 1
    <2> DEFINE P == {i \in 1 .. Len(ms) : ms[i] = kind}
    <2>1. {i \in 1 .. Len(w) : w[i] = kind} = P \cup {Len(ms) + 1}
        BY <1>1, <1>2
    <2>2. Len(ms) + 1 \notin P
        BY <1>1
    <2>3. IsFiniteSet(P) /\ Cardinality(P) = Count(ms, kind)
        BY <1>1, CountFacts
    <2> HIDE DEF P
    <2>4. Cardinality(P \cup {Len(ms) + 1}) = Cardinality(P) + 1
        BY <2>2, <2>3, FS_AddElement
    <2> QED BY <1>2, <2>1, <2>3, <2>4, CountFacts
<1> QED
    BY <1>2, <1>3, <1>4, <1>5, <1>6 DEF w

\* Messages are scrubbed, the prompt not among them.
LEMMA WithoutFacts ==
    ASSUME NEW ms, Transcript(ms), NEW kinds, "prompt" \notin kinds
    PROVE  /\ Transcript(Without(ms, kinds))
           /\ \A x : Holds(Without(ms, kinds), x) <=> Holds(ms, x) /\ x \notin kinds
           /\ \A x : Count(Without(ms, kinds), x) <= Count(ms, x)
           /\ Last(ms) \notin kinds => Last(Without(ms, kinds)) = Last(ms)
<1> DEFINE w == Without(ms, kinds)
<1>1. /\ Len(ms) \in Nat /\ Len(ms) > 0 /\ ms \in Seq(Kinds) /\ ms[1] = "prompt"
    BY TranscriptFacts
<1>2. w \in Seq(Kinds) /\ \E e : Places(ms, kinds, Len(ms), w, e)
    BY <1>1, WithoutPlaces
<1> HIDE DEF w
<1>3. Len(w) \in Nat
    BY <1>2, LenProperties
<1>4. PICK e : Places(ms, kinds, Len(ms), w, e)
    BY <1>2
<1>5. /\ \A j \in 1 .. Len(w) : e[j] \in 1 .. Len(ms)
      /\ \A j \in 1 .. Len(w) : w[j] = ms[e[j]] /\ w[j] \notin kinds
      /\ \A i, j \in 1 .. Len(w) : i < j => e[i] < e[j]
      /\ \A i \in 1 .. Len(ms) : ms[i] \notin kinds => \E j \in 1 .. Len(w) : e[j] = i
    BY <1>4 DEF Places
<1>6. \A x : Holds(w, x) <=> Holds(ms, x) /\ x \notin kinds
    BY <1>5 DEF Holds
<1>7. Transcript(w)
    <2>1. PICK j \in 1 .. Len(w) : e[j] = 1
        BY <1>1, <1>5
    <2>2. 1 \in 1 .. Len(w)
        BY <1>3, <2>1
    <2>3. ~(1 < j)
        BY <1>1, <1>5, <2>1, <2>2
    <2>4. j = 1
        BY <1>3, <2>1, <2>3
    <2> QED BY <1>1, <1>2, <1>3, <1>5, <2>1, <2>2, <2>4 DEF Transcript
<1>8. ASSUME Last(ms) \notin kinds
      PROVE  Last(w) = Last(ms)
    <2>1. PICK j \in 1 .. Len(w) : e[j] = Len(ms)
        BY <1>1, <1>5, <1>8 DEF Last
    <2>2. Len(w) \in 1 .. Len(w)
        BY <1>3, <2>1
    <2>3. ~(j < Len(w))
        BY <1>1, <1>5, <2>1, <2>2
    <2>4. j = Len(w)
        BY <1>3, <2>1, <2>3
    <2> QED BY <1>5, <2>1, <2>4 DEF Last
<1>9. ASSUME NEW x
      PROVE  Count(w, x) <= Count(ms, x)
    <2> DEFINE P == {i \in 1 .. Len(w) : w[i] = x}
               Q == {i \in 1 .. Len(ms) : ms[i] = x}
               f == [i \in P |-> e[i]]
    <2>1. f \in [P -> Q]
        BY <1>5
    <2>2. \A a, b \in P : f[a] = f[b] => a = b
        <3> SUFFICES ASSUME NEW a \in P, NEW b \in P, a # b
                     PROVE  f[a] # f[b]
            OBVIOUS
        <3>1. a < b \/ b < a
            BY <1>3
        <3>2. e[a] \in 1 .. Len(ms) /\ e[b] \in 1 .. Len(ms)
            BY <1>5
        <3> QED BY <1>1, <1>5, <3>1, <3>2
    <2>3. f \in Injection(P, Q)
        BY <2>1, <2>2 DEF Injection, IsInjective
    <2>4. IsFiniteSet(Q) /\ Cardinality(Q) = Count(ms, x) /\ Cardinality(P) = Count(w, x)
        BY <1>1, <1>2, CountFacts
    <2> HIDE DEF P, Q, f
    <2> QED BY <2>3, <2>4, FS_Injection
<1> QED
    BY <1>6, <1>7, <1>8, <1>9 DEF w

\* The last message, not the prompt, is taken back and another put in its place.
LEMMA SteeredFacts ==
    ASSUME NEW ms, Transcript(ms), Last(ms) # "prompt", NEW kind \in Kinds
    PROVE  /\ Transcript(Steered(ms, kind)) /\ Last(Steered(ms, kind)) = kind
           /\ \A x : x # Last(ms) /\ Holds(ms, x) => Holds(Steered(ms, kind), x)
           /\ \A x : x # kind => Count(Steered(ms, kind), x) <= Count(ms, x)
           /\ Count(Steered(ms, kind), kind) <= Count(ms, kind) + 1
           /\ \A x : ~Holds(ms, x) =>
                 \A i \in 1 .. Len(Steered(ms, kind)) :
                     Steered(ms, kind)[i] = x => x = kind /\ i = Len(Steered(ms, kind))
<1> DEFINE f == Front(ms)
<1>1. /\ Len(ms) \in Nat /\ Len(ms) > 1 /\ ms \in Seq(Kinds) /\ ms[1] = "prompt"
      /\ \A i \in 1 .. Len(ms) : ms[i] \in Kinds
    BY TranscriptFacts DEF Last
<1>2. /\ f \in Seq(Kinds) /\ Len(f) = Len(ms) - 1
      /\ \A i \in 1 .. Len(ms) - 1 : f[i] = ms[i]
    BY <1>1, SubSeqProperties DEF Front
<1> HIDE DEF f
<1>3. Transcript(f)
    BY <1>1, <1>2 DEF Transcript
<1>4. \A x : x # Last(ms) /\ Holds(ms, x) => Holds(f, x)
    BY <1>1, <1>2 DEF Holds, Last
<1>5. \A x : Holds(f, x) => Holds(ms, x)
    BY <1>1, <1>2 DEF Holds
<1>6. ASSUME NEW x
      PROVE  Count(f, x) <= Count(ms, x) /\ Count(f, x) \in Nat /\ Count(ms, x) \in Nat
    <2> DEFINE P == {i \in 1 .. Len(f) : f[i] = x}
               Q == {i \in 1 .. Len(ms) : ms[i] = x}
    <2>1. P \in SUBSET Q
        BY <1>1, <1>2
    <2>2. /\ IsFiniteSet(Q) /\ Cardinality(Q) = Count(ms, x) /\ Cardinality(P) = Count(f, x)
          /\ Count(f, x) \in Nat /\ Count(ms, x) \in Nat
        BY <1>1, <1>2, CountFacts
    <2> HIDE DEF P, Q
    <2> QED BY <2>1, <2>2, FS_Subset
<1> DEFINE w == Append(f, kind)
<1>7. /\ Transcript(w) /\ Last(w) = kind /\ Len(w) = Len(f) + 1
      /\ \A i \in 1 .. Len(f) : w[i] = f[i]
      /\ \A x : Holds(w, x) <=> Holds(f, x) \/ x = kind
      /\ \A x : x # kind => Count(w, x) = Count(f, x)
      /\ Count(w, kind) = Count(f, kind) + 1
    BY <1>3, AppendFacts
<1>8. Steered(ms, kind) = w
    BY DEF Steered, f
<1> HIDE DEF w
<1>9. ASSUME NEW x, ~Holds(ms, x), NEW i \in 1 .. Len(w), w[i] = x
      PROVE  x = kind /\ i = Len(w)
    <2>1. ~Holds(f, x)
        BY <1>5, <1>9
    <2>2. i \notin 1 .. Len(f)
        BY <1>7, <1>9, <2>1 DEF Holds
    <2>3. i = Len(w)
        BY <1>1, <1>2, <1>7, <2>2
    <2> QED BY <1>7, <1>9, <2>3 DEF Last
<1>10. \A x : x # kind => Count(w, x) <= Count(ms, x)
    BY <1>6, <1>7
<1>11. Count(w, kind) <= Count(ms, kind) + 1
    BY <1>6, <1>7
<1> QED
    BY <1>4, <1>7, <1>8, <1>9, <1>10, <1>11

\* The system prefix holds at least the prompt.
LEMMA PrefixFacts ==
    ASSUME NEW ms, Transcript(ms)
    PROVE  PrefixEnd(ms) \in 1 .. Len(ms)
<1> DEFINE others == {i \in DOMAIN ms : ms[i] \notin Steering \cup {"prompt"}}
<1>1. /\ Len(ms) \in Nat /\ Len(ms) > 0 /\ DOMAIN ms = 1 .. Len(ms) /\ ms[1] = "prompt"
    BY TranscriptFacts
<1>2. CASE others = {}
    BY <1>1, <1>2 DEF PrefixEnd
<1>3. CASE others # {}
    <2>1. others \subseteq Nat
        BY <1>1
    <2>2. \E i \in others : \A j \in others : i <= j
        BY <1>3, <2>1, LeastNat
    <2> DEFINE first == CHOOSE i \in others : \A j \in others : i <= j
    <2>3. first \in others
        BY <2>2
    <2>4. PrefixEnd(ms) = first - 1
        BY <1>3 DEF PrefixEnd
    <2> HIDE DEF first
    <2>5. first \in 2 .. Len(ms)
        BY <1>1, <2>3
    <2> QED BY <1>1, <2>4, <2>5
<1> QED
    BY <1>2, <1>3

\* Counted from its end, a set of at least h numbers has an h-th.
LEMMA FromTheEnd ==
    ASSUME NEW n \in Nat, NEW S \in SUBSET (1 .. n), NEW h \in Nat \ {0},
           h <= Cardinality(S)
    PROVE  \E i \in S : Cardinality({j \in S : i <= j}) = h
<1> DEFINE From(x) == {j \in S : x <= j}
           T == {x \in Nat : Cardinality(From(x)) < h}
<1>0. \A j \in S : j \in Nat /\ 0 < j /\ j < n + 1
    OBVIOUS
<1>1. IsFiniteSet(S)
    <2>1. IsFiniteSet(1 .. n)
        BY FS_Interval
    <2> QED BY <2>1, FS_Subset
<1>2. ASSUME NEW x
      PROVE  IsFiniteSet(From(x)) /\ Cardinality(From(x)) \in Nat
    <2>1. From(x) \in SUBSET S
        OBVIOUS
    <2> QED BY <1>1, <2>1, FS_Subset, FS_CardinalityType
<1>3. n + 1 \in T
    <2>0. \A j \in S : ~(n + 1 <= j)
        BY <1>0
    <2>1. From(n + 1) = {}
        BY <2>0
    <2>2. Cardinality(From(n + 1)) = 0
        BY <2>1, FS_EmptySet
    <2> QED BY <2>2
<1>4. T \subseteq Nat /\ T # {}
    BY <1>3
<1>5. PICK x \in T : \A y \in T : x <= y
    BY <1>4, LeastNat
<1>6. x # 0
    <2>0. \A j \in S : 0 <= j
        BY <1>0
    <2>1. From(0) = S
        BY <2>0
    <2>2. Cardinality(S) \in Nat
        BY <1>1, FS_CardinalityType
    <2>3. ~(Cardinality(From(0)) < h)
        BY <2>1, <2>2
    <2> QED BY <1>5, <2>3
<1>7. x \in Nat /\ x - 1 \in Nat /\ x - 1 \notin T
    <2>1. x \in Nat /\ x - 1 \in Nat
        BY <1>5, <1>6
    <2>2. x - 1 \in T => x <= x - 1
        BY <1>5
    <2> QED BY <2>1, <2>2
<1>8. /\ Cardinality(From(x - 1)) \in Nat /\ Cardinality(From(x)) \in Nat
      /\ IsFiniteSet(From(x))
      /\ h <= Cardinality(From(x - 1)) /\ Cardinality(From(x)) < h
    <2>1. Cardinality(From(x - 1)) \in Nat
        BY <1>2
    <2>2. Cardinality(From(x)) \in Nat /\ IsFiniteSet(From(x))
        BY <1>2
    <2>3. ~(Cardinality(From(x - 1)) < h)
        BY <1>7
    <2>4. Cardinality(From(x)) < h
        BY <1>5
    <2> HIDE DEF From
    <2> QED BY <2>1, <2>2, <2>3, <2>4
<1>9. From(x - 1) = IF x - 1 \in S THEN From(x) \cup {x - 1} ELSE From(x)
    <2> SUFFICES \A j \in S : x - 1 <= j <=> x <= j \/ j = x - 1
        OBVIOUS
    <2> QED BY <1>0, <1>7
<1>10. x - 1 \notin From(x)
    BY <1>7
<1> HIDE DEF From
<1>11. Cardinality(From(x) \cup {x - 1}) = Cardinality(From(x)) + 1
    BY <1>8, <1>10, FS_AddElement
<1>12. x - 1 \in S
    BY <1>8, <1>9
<1>13. Cardinality(From(x - 1)) = h
    <2>1. Cardinality(From(x - 1)) = Cardinality(From(x)) + 1
        BY <1>9, <1>11, <1>12
    <2> QED BY <1>8, <2>1
<1> QED
    BY <1>12, <1>13 DEF From

\* A trim keeps the prompt in front.
LEMMA TrimmedFacts ==
    ASSUME NEW ms, Transcript(ms)
    PROVE  Transcript(Trimmed(ms))
<1> DEFINE starts == TurnStarts(ms)
           p == PrefixEnd(ms)
           P(i) == Cardinality({j \in starts : i <= j}) = HistoryTurns
           kept == CHOOSE i \in starts : P(i)
<1>1. /\ Len(ms) \in Nat /\ Len(ms) > 0 /\ ms \in Seq(Kinds) /\ ms[1] = "prompt"
      /\ \A i \in 1 .. Len(ms) : ms[i] \in Kinds
    BY TranscriptFacts
<1>2. p \in 1 .. Len(ms)
    BY PrefixFacts
<1>3. starts \in SUBSET (1 .. Len(ms))
    BY <1>1, <1>2 DEF TurnStarts
<1>4. CASE HistoryTurns = 0 \/ Cardinality(starts) <= HistoryTurns
    BY <1>4 DEF Trimmed
<1>5. CASE ~(HistoryTurns = 0 \/ Cardinality(starts) <= HistoryTurns)
    <2>1. IsFiniteSet(starts)
        <3>1. IsFiniteSet(1 .. Len(ms))
            BY <1>1, FS_Interval
        <3> QED BY <1>3, <3>1, FS_Subset
    <2>2. Cardinality(starts) \in Nat
        BY <2>1, FS_CardinalityType
    <2>3. HistoryTurns \in Nat \ {0} /\ HistoryTurns <= Cardinality(starts)
        BY <1>5, <2>2, LimitsAssumption
    <2>4. \E i \in starts : P(i)
        BY <1>1, <1>3, <2>3, FromTheEnd
    <2>5. kept \in starts
        BY <2>4
    <2>6. Trimmed(ms) = SubSeq(ms, 1, p) \o SubSeq(ms, kept, Len(ms))
        BY <1>5 DEF Trimmed
    <2> HIDE DEF starts, p, kept
    <2>7. kept \in 1 .. Len(ms)
        BY <1>3, <2>5
    <2> DEFINE a == SubSeq(ms, 1, p)
               b == SubSeq(ms, kept, Len(ms))
    <2>8. a \in Seq(Kinds) /\ Len(a) = p /\ a[1] = ms[1]
        BY <1>1, <1>2, SubSeqProperties
    <2>9. b \in Seq(Kinds)
        BY <1>1, <2>7, SubSeqProperties
    <2> HIDE DEF a, b
    <2>10. /\ a \o b \in Seq(Kinds) /\ Len(a \o b) = Len(a) + Len(b)
           /\ (a \o b)[1] = a[1]
        BY <1>2, <2>8, <2>9, ConcatProperties, LenProperties
    <2>11. Len(b) \in Nat
        BY <2>9, LenProperties
    <2> QED BY <1>1, <1>2, <2>6, <2>8, <2>10, <2>11 DEF Transcript, a, b
<1> QED
    BY <1>4, <1>5

\* What is put back in place of a refusal leaves all but nags and the refusal.
LEMMA RestoredFacts ==
    ASSUME NEW ms, Transcript(ms), Last(ms) # "prompt"
    PROVE  /\ Transcript(Restored(ms))
           /\ \A x : x \notin {"must_call", Last(ms)} /\ Holds(ms, x)
                         => Holds(Restored(ms), x)
<1>1. /\ Len(ms) \in Nat /\ Len(ms) > 1 /\ ms \in Seq(Kinds) /\ ms[1] = "prompt"
      /\ \A i \in 1 .. Len(ms) : ms[i] \in Kinds
    BY TranscriptFacts DEF Last
<1> DEFINE Nags(n) == \A i \in n + 1 .. Len(ms) - 1 : ms[i] = "must_call"
           P(n) == (n = 0 \/ ms[n] # "must_call") /\ Nags(n)
           keep == CHOOSE n \in 0 .. Len(ms) - 1 : P(n)
           T == {n \in 0 .. Len(ms) - 1 : Nags(n)}
<1>2. \E n \in 0 .. Len(ms) - 1 : P(n)
    <2>1. Len(ms) - 1 \in T /\ T \subseteq Nat
        BY <1>1
    <2>2. PICK n \in T : \A y \in T : n <= y
        BY <2>1, LeastNat
    <2>3. ASSUME n # 0, ms[n] = "must_call"
          PROVE  FALSE
        <3>1. n - 1 \in 0 .. Len(ms) - 1
            BY <1>1, <2>2, <2>3
        <3>2. Nags(n - 1)
            BY <1>1, <2>2, <2>3
        <3>3. n - 1 \in T
            BY <3>1, <3>2
        <3>4. n <= n - 1 /\ n \in Nat
            BY <2>1, <2>2, <3>3
        <3> QED BY <3>4
    <2> QED BY <2>2, <2>3
<1>3. keep \in 0 .. Len(ms) - 1 /\ P(keep)
    BY <1>2
<1>4. Restored(ms) = Append(SubSeq(ms, 1, keep), "reply")
    BY DEF Restored
<1> HIDE DEF keep
<1>5. keep > 0
    BY <1>1, <1>3
<1> DEFINE a == SubSeq(ms, 1, keep)
<1>6. /\ a \in Seq(Kinds) /\ Len(a) = keep
      /\ \A i \in 1 .. keep : a[i] = ms[i]
    BY <1>1, <1>3, SubSeqProperties
<1> HIDE DEF a
<1>7. Transcript(a)
    BY <1>1, <1>3, <1>5, <1>6 DEF Transcript
<1>8. "reply" \in Kinds
    BY DEF Kinds
<1>9. ASSUME NEW x, x \notin {"must_call", Last(ms)}, Holds(ms, x)
      PROVE  Holds(a, x)
    <2>1. PICK i \in 1 .. Len(ms) : ms[i] = x
        BY <1>9 DEF Holds
    <2>2. i # Len(ms)
        BY <1>9, <2>1 DEF Last
    <2>3. i \in 1 .. keep
        BY <1>1, <1>3, <1>9, <2>1, <2>2
    <2> QED BY <1>6, <2>1, <2>3 DEF Holds
<1> QED
    BY <1>4, <1>7, <1>8, <1>9, AppendFacts DEF a

-----------------------------------------------------------------------------
(***************************************************************************)
(* The transcript of the conversation.                                     *)
(***************************************************************************)
Outcomes == {"none", "complete", "silent", "tools", "validation", "error", "limit"}

OthersOK ==
    /\ native \in BOOLEAN /\ must \in BOOLEAN
    /\ recent \subseteq Keys
    /\ outstanding \in Nat /\ requests \in 0 .. MaxRequests

\* What the model may be asked with, in a request with the locals p.
Askable(ms, p) ==
    /\ Transcript(ms) /\ Holds(ms, "said")
    /\ Last(ms) \notin {"reply", "refusal", "calls"}
    /\ \A i \in 1 .. Len(ms) : ms[i] = "dedupe" => i = Len(ms)
    /\ Holds(ms, "dedupe") => p.nudged # {}
    /\ Count(ms, "must_call") <= 2

\* What a text provider may format the server tools' results with.
Formattable(ms, p) ==
    /\ ~Holds(ms, "dedupe")
    /\ Count(ms, "must_call") <= 2
    /\ p.iteration = 1 => Count(ms, "must_call") = 0

\* The invariant, by what it says of the transcript.
Sound ==
    /\ OthersOK /\ outcome \in Outcomes /\ phase \in {"idle", "loop", "format"}
    /\ pass \in Pass /\ pass.iteration <= MaxIterations
    /\ Transcript(messages)
    /\ phase # "idle" \/ outstanding > 0 => Holds(messages, "said")
    /\ phase = "loop" =>
          /\ Askable(messages, pass) /\ pass.iteration > 0
          /\ pass.iteration = 1 => Count(messages, "must_call") = 0
    /\ phase = "format" /\ ~pass.continuing => Formattable(messages, pass)

LEMMA SoundIs == Sound => TypeOK /\ TranscriptInv /\ SteeringIsOneShot /\ PromptIsSound
<1> SUFFICES ASSUME Sound
             PROVE  TypeOK /\ TranscriptInv /\ SteeringIsOneShot /\ PromptIsSound
    OBVIOUS
<1>1. /\ messages \in Seq(Kinds) /\ messages # <<>> /\ messages[1] = "prompt"
      /\ DOMAIN messages = 1 .. Len(messages)
    BY LenProperties, EmptySeq DEF Sound, Transcript
<1>2. \A x : Holds(messages, x) <=> \E i \in DOMAIN messages : messages[i] = x
    BY <1>1 DEF Holds
<1>3. TypeOK
    BY <1>1 DEF Sound, TypeOK, OthersOK, Outcomes
<1>4. TranscriptInv
    BY <1>1, <1>2 DEF Sound, Askable, TranscriptInv
<1>5. PromptIsSound
    BY <1>1, <1>2 DEF Sound, Askable, PromptIsSound
<1>6. SteeringIsOneShot
    <2>1. CASE phase = "loop"
        BY <1>1, <2>1 DEF Sound, Askable, SteeringIsOneShot
    <2>2. CASE phase = "format" /\ ~pass.continuing
        BY <1>2, <2>2 DEF Sound, Formattable, SteeringIsOneShot
    <2> QED BY <2>1, <2>2 DEF SteeringIsOneShot, Scrubs
<1> QED
    BY <1>3, <1>4, <1>5, <1>6

\* The request ends with an utterance in its transcript.
LEMMA FinishSound ==
    ASSUME NEW reason \in Outcomes, NEW ms, Transcript(ms), Holds(ms, "said"),
           Finish(reason, ms), OthersOK'
    PROVE  Sound'
<1>1. NoPass \in Pass /\ NoPass.iteration = 0
    BY DEF NoPass, Pass, Shapes
<1>2. phase' = "idle" /\ outcome' = reason /\ messages' = ms /\ pass' = NoPass
    BY DEF Finish
<1>3. 0 <= MaxIterations'
    BY ItersAssumption DEF MaxIterations
<1> QED
    BY <1>1, <1>2, <1>3 DEF Sound

\* The model is asked again, or the request ends at its limit.
LEMMA AskAgainSound ==
    ASSUME Sound, phase = "loop", NEW ms, NEW p \in Pass, p.iteration = pass.iteration,
           Askable(ms, p), AskAgain(ms, p), OthersOK', UNCHANGED native
    PROVE  Sound'
<1>1. CASE p.iteration < MaxIterations
    <2> DEFINE next == [p EXCEPT !.iteration = @ + 1]
    <2>1. p.iteration \in Nat /\ p.iteration > 0
        BY DEF Sound, Pass
    <2>2. /\ next \in Pass /\ next.iteration = p.iteration + 1
          /\ next.nudged = p.nudged
        BY <2>1 DEF Pass
    <2>3. pass' = next /\ messages' = ms /\ UNCHANGED <<phase, outcome>>
        BY <1>1 DEF AskAgain
    <2> HIDE DEF next
    <2>4. MaxIterations \in Nat /\ MaxIterations' = MaxIterations
        BY ItersAssumption DEF MaxIterations
    <2>5. next.iteration <= MaxIterations /\ next.iteration > 0 /\ next.iteration # 1
        BY <1>1, <2>1, <2>2, <2>4
    <2>6. Askable(ms, next) /\ Transcript(ms) /\ Holds(ms, "said")
        BY <2>2 DEF Askable
    <2> QED BY <2>2, <2>3, <2>4, <2>5, <2>6 DEF Sound
<1>2. CASE ~(p.iteration < MaxIterations)
    <2>1. Finish("limit", ms) /\ "limit" \in Outcomes
        BY <1>2 DEF AskAgain, Outcomes
    <2> QED BY <2>1, FinishSound DEF Askable
<1> QED
    BY <1>1, <1>2

\* A request starts: what earlier requests were steered by is scrubbed.
LEMMA StartLoopSound ==
    ASSUME NEW ms, Transcript(ms), Holds(ms, "said"),
           Last(ms) \in {"said", "tool"}, NEW p \in Pass,
           StartLoop(ms, p), OthersOK'
    PROVE  Sound'
<1> DEFINE w == Scrubbed(ms)
           q == [p EXCEPT !.iteration = 1]
<1>1. /\ Transcript(w) /\ Holds(w, "said")
      /\ ~Holds(w, "must_call") /\ ~Holds(w, "dedupe")
      /\ Last(w) = Last(ms)
    BY WithoutFacts DEF Scrubbed
<1>2. Count(w, "must_call") = 0
    BY <1>1, CountFacts DEF Transcript
<1>3. q \in Pass /\ q.iteration = 1
    BY DEF Pass
<1>4. phase' = "loop" /\ messages' = w /\ outcome' = "none" /\ pass' = q
    BY DEF StartLoop
<1> HIDE DEF w, q
<1>5. 1 <= MaxIterations'
    BY ItersAssumption DEF MaxIterations
<1>6. Askable(w, q)
    BY <1>1, <1>2 DEF Askable, Holds
<1> QED
    BY <1>1, <1>2, <1>3, <1>4, <1>5, <1>6 DEF Sound, Outcomes

\* A text provider's tool results are the answer, or are put to the model.
LEMMA FormatResultsSound ==
    ASSUME NEW ms, Transcript(ms), Holds(ms, "said"), NEW p \in Pass,
           p.iteration <= MaxIterations, ~p.continuing => Formattable(ms, p),
           FormatResults(ms, p), OthersOK', UNCHANGED native
    PROVE  Sound'
<1> DEFINE w == Without(ms, {"tool"})
<1>1. /\ Transcript(w) /\ Holds(w, "said")
      /\ ~Holds(ms, "dedupe") => ~Holds(w, "dedupe")
      /\ Count(w, "must_call") <= Count(ms, "must_call")
    BY WithoutFacts
<1> HIDE DEF w
<1>2. {"reply", "results"} \subseteq Kinds
    BY DEF Kinds, FromUser
<1>3. CASE Finish("complete", Append(w, "reply"))
    <2>1. Transcript(Append(w, "reply")) /\ Holds(Append(w, "reply"), "said")
        BY <1>1, <1>2, AppendFacts
    <2> QED BY <1>3, <2>1, FinishSound DEF Outcomes
<1>4. CASE /\ phase' = "format" /\ messages' = Append(w, "results")
           /\ outcome' = "none" /\ pass' = p
    <2>1. Transcript(Append(w, "results")) /\ Holds(Append(w, "results"), "said")
        BY <1>1, <1>2, AppendFacts
    <2>2. MaxIterations' = MaxIterations
        BY DEF MaxIterations
    <2>3. /\ Holds(Append(w, "results"), "dedupe") <=> Holds(w, "dedupe")
          /\ Count(Append(w, "results"), "must_call") = Count(w, "must_call")
        BY <1>1, <1>2, AppendFacts
    <2>4. Count(w, "must_call") \in Nat /\ Count(ms, "must_call") \in Nat
        BY <1>1, CountFacts DEF Transcript
    <2>5. ~p.continuing => Formattable(Append(w, "results"), p)
        BY <1>1, <2>3, <2>4 DEF Formattable
    <2> QED BY <1>4, <2>1, <2>2, <2>5 DEF Sound, Outcomes
<1> QED
    BY <1>3, <1>4 DEF FormatResults, w

\* What the loop hears: the reply, and no nudge any more.
LEMMA HeardFacts ==
    ASSUME Sound, phase = "loop", NEW kind \in {"reply", "refusal", "calls", "nameless"}
    PROVE  /\ Transcript(Heard(kind)) /\ Holds(Heard(kind), "said")
           /\ Last(Heard(kind)) = kind
           /\ ~Holds(Heard(kind), "dedupe")
           /\ Count(Heard(kind), "must_call") <= Count(messages, "must_call")
<1> DEFINE ms == Append(messages, kind)
           checked == IF pass.rechecked THEN Without(ms, {"recheck"}) ELSE ms
<1>1. /\ Transcript(messages) /\ Holds(messages, "said")
      /\ Holds(messages, "dedupe") => pass.nudged # {}
    BY DEF Sound, Askable
<1>2. kind \in Kinds /\ kind \notin {"must_call", "recheck", "dedupe"}
    BY DEF Kinds
<1>3. /\ Transcript(ms) /\ Holds(ms, "said") /\ Last(ms) = kind
      /\ Holds(ms, "dedupe") <=> Holds(messages, "dedupe")
      /\ Count(ms, "must_call") = Count(messages, "must_call")
    BY <1>1, <1>2, AppendFacts
<1> HIDE DEF ms
<1>4. \A m : Transcript(m) => Count(m, "must_call") \in Nat
    BY CountFacts DEF Transcript
<1>5. /\ Transcript(checked) /\ Holds(checked, "said") /\ Last(checked) = kind
      /\ Holds(checked, "dedupe") => Holds(messages, "dedupe")
      /\ Count(checked, "must_call") <= Count(messages, "must_call")
    BY <1>1, <1>2, <1>3, <1>4, WithoutFacts
<1> HIDE DEF checked
<1>6. Heard(kind) = IF pass.nudged # {} THEN Without(checked, {"dedupe"}) ELSE checked
    BY DEF Heard, checked, ms
<1>7. CASE pass.nudged # {}
    <2> DEFINE w == Without(checked, {"dedupe"})
    <2>1. /\ Transcript(w) /\ Holds(w, "said") /\ Last(w) = kind
          /\ ~Holds(w, "dedupe")
          /\ Count(w, "must_call") <= Count(checked, "must_call")
        BY <1>2, <1>5, WithoutFacts
    <2> HIDE DEF w
    <2>2. Count(w, "must_call") <= Count(messages, "must_call")
        BY <1>1, <1>4, <1>5, <2>1
    <2> QED BY <1>6, <1>7, <2>1, <2>2 DEF w
<1>8. CASE pass.nudged = {}
    BY <1>1, <1>5, <1>6, <1>8
<1> QED
    BY <1>7, <1>8

\* A call is taken up again with the server's results or a retry message.
LEMMA AppendedAskable ==
    ASSUME Sound, phase = "loop", NEW kind \in {"tool", "invalid"}
    PROVE  /\ Askable(Append(Heard("calls"), kind), pass)
           /\ Formattable(Append(Heard("calls"), kind), pass)
           /\ Transcript(Append(Heard("calls"), kind))
           /\ Holds(Append(Heard("calls"), kind), "said")
<1> DEFINE h == Heard("calls")
           ms == Append(h, kind)
<1>1. /\ Transcript(h) /\ Holds(h, "said") /\ ~Holds(h, "dedupe")
      /\ Count(h, "must_call") <= Count(messages, "must_call")
    BY HeardFacts
<1>2. /\ Count(messages, "must_call") <= 2 /\ Transcript(messages)
      /\ pass.iteration = 1 => Count(messages, "must_call") = 0
    BY DEF Sound, Askable
<1> HIDE DEF h
<1>3. kind \in Kinds /\ kind \notin {"must_call", "dedupe", "reply", "refusal", "calls"}
    BY DEF Kinds, Steering
<1>4. /\ Transcript(ms) /\ Last(ms) = kind /\ Holds(ms, "said") /\ ~Holds(ms, "dedupe")
      /\ Count(ms, "must_call") = Count(h, "must_call")
    BY <1>1, <1>3, AppendFacts
<1>5. Count(h, "must_call") \in Nat /\ Count(messages, "must_call") \in Nat
    BY <1>1, <1>2, CountFacts DEF Transcript
<1>6. Count(ms, "must_call") <= 2 /\ (pass.iteration = 1 => Count(ms, "must_call") = 0)
    BY <1>1, <1>2, <1>4, <1>5
<1> HIDE DEF ms
<1>7. Askable(ms, pass) /\ Formattable(ms, pass)
    BY <1>3, <1>4, <1>6 DEF Askable, Formattable, Holds
<1> QED
    BY <1>4, <1>7 DEF h, ms

\* Nameless calls are heard, and nothing is put behind them.
LEMMA HeardAskable ==
    ASSUME Sound, phase = "loop"
    PROVE  Askable(Heard("nameless"), pass)
<1> DEFINE h == Heard("nameless")
<1>1. /\ Transcript(h) /\ Holds(h, "said") /\ ~Holds(h, "dedupe") /\ Last(h) = "nameless"
      /\ Count(h, "must_call") <= Count(messages, "must_call")
    BY HeardFacts
<1>2. Count(messages, "must_call") <= 2 /\ Transcript(messages)
    BY DEF Sound, Askable
<1> HIDE DEF h
<1>3. Count(h, "must_call") \in Nat /\ Count(messages, "must_call") \in Nat
    BY <1>1, <1>2, CountFacts DEF Transcript
<1>4. Count(h, "must_call") <= 2
    BY <1>1, <1>2, <1>3
<1>5. Askable(h, pass)
    BY <1>1, <1>4 DEF Askable, Holds
<1> QED
    BY <1>5 DEF h

\* A reply is taken back and the model is steered: by a nag within its
\* budget, or with a nudge the locals remember.
LEMMA SteeredAskable ==
    ASSUME Sound, phase = "loop", NEW reply \in {"reply", "refusal", "calls"},
           NEW kind \in {"recheck", "iso", "must_call", "dedupe"}, NEW p \in Pass,
           kind = "dedupe" => p.nudged # {},
           kind = "must_call" => Count(Heard(reply), "must_call") < 2
    PROVE  Askable(Steered(Heard(reply), kind), p)
<1> DEFINE h == Heard(reply)
           ms == Steered(h, kind)
<1>1. /\ Transcript(h) /\ Holds(h, "said") /\ Last(h) = reply /\ ~Holds(h, "dedupe")
      /\ Count(h, "must_call") <= Count(messages, "must_call")
    BY HeardFacts
<1>2. Count(messages, "must_call") <= 2 /\ Transcript(messages)
    BY DEF Sound, Askable
<1>3. kind = "must_call" => Count(h, "must_call") < 2
    OBVIOUS
<1> HIDE DEF h
<1>4. kind \in Kinds /\ kind \notin {"reply", "refusal", "calls"}
    BY DEF Kinds, Steering, FromUser
<1>5. /\ Transcript(ms) /\ Last(ms) = kind /\ Holds(ms, "said")
      /\ kind # "must_call" => Count(ms, "must_call") <= Count(h, "must_call")
      /\ kind = "must_call" => Count(ms, "must_call") <= Count(h, "must_call") + 1
      /\ \A i \in 1 .. Len(ms) : ms[i] = "dedupe" => kind = "dedupe" /\ i = Len(ms)
    BY <1>1, <1>4, SteeredFacts
<1>6. /\ Count(h, "must_call") \in Nat /\ Count(messages, "must_call") \in Nat
      /\ Count(ms, "must_call") \in Nat
    BY <1>1, <1>2, <1>5, CountFacts DEF Transcript
<1>7. Count(ms, "must_call") <= 2
    BY <1>1, <1>2, <1>3, <1>5, <1>6
<1> HIDE DEF ms
<1>8. Askable(ms, p)
    BY <1>4, <1>5, <1>7 DEF Askable, Holds
<1> QED
    BY <1>8 DEF h, ms

\* A fresh conversation is the prompt.
LEMMA InitSound == Init => Sound
<1> SUFFICES ASSUME Init
             PROVE  Sound
    OBVIOUS
<1>1. "prompt" \in Kinds
    BY DEF Kinds
<1>2. Transcript(messages)
    BY <1>1 DEF Init, Transcript
<1>3. NoPass \in Pass /\ NoPass.iteration = 0 /\ 0 <= MaxIterations
    BY ItersAssumption DEF NoPass, Pass, Shapes, MaxIterations
<1>4. OthersOK /\ outcome \in Outcomes
    <2>1. requests \in 0 .. MaxRequests /\ outstanding \in Nat
        BY LimitsAssumption DEF Init
    <2>2. native \in BOOLEAN /\ must \in BOOLEAN
        BY Zenon DEF Init
    <2> QED BY <2>1, <2>2 DEF Init, OthersOK, Outcomes
<1>5. phase = "idle" /\ outstanding = 0 /\ pass = NoPass
    BY DEF Init
<1> QED
    BY <1>2, <1>3, <1>4, <1>5 DEF Sound

\* Every step keeps the transcript sound.
LEMMA SoundNext == Sound /\ [Next]_vars => Sound'
<1> SUFFICES ASSUME Sound, [Next]_vars
             PROVE  Sound'
    OBVIOUS
<1> USE DEF InLoop, NothingSent
<1>0. /\ OthersOK /\ pass \in Pass /\ Transcript(messages)
      /\ phase # "idle" \/ outstanding > 0 => Holds(messages, "said")
      /\ pass.iteration <= MaxIterations
    BY DEF Sound
<1>1. CASE UNCHANGED vars
    BY <1>1 DEF vars, Sound, OthersOK, Askable, Formattable, MaxIterations
<1>2. ASSUME NEW shape \in Shapes, NEW rescue \in BOOLEAN, NEW matched \in BOOLEAN,
             Say(shape, rescue, matched)
      PROVE  Sound'
    <2> DEFINE p == [NoPass EXCEPT !.shape = shape, !.rescue = rescue]
               ms == Append(Trimmed(messages), "said")
    <2>1. p \in Pass
        BY DEF NoPass, Pass
    <2>2. StartLoop(ms, p)
        BY <1>2 DEF Say
    <2>3. OthersOK'
        BY <1>0, <1>2, LimitsAssumption DEF Say, OthersOK
    <2>4. "said" \in Kinds
        BY DEF Kinds, FromUser
    <2>5. Transcript(ms) /\ Holds(ms, "said") /\ Last(ms) = "said"
        BY <1>0, <2>4, TrimmedFacts, AppendFacts
    <2> HIDE DEF p, ms
    <2> QED BY <2>1, <2>2, <2>3, <2>5, StartLoopSound
<1>3. ASSUME NEW shape \in Shapes, Continue(shape)
      PROVE  Sound'
    <2> DEFINE p == [NoPass EXCEPT !.continuing = TRUE, !.shape = shape]
               ms == Append(messages, "tool")
    <2>1. p \in Pass /\ p.iteration = 0 /\ p.continuing
        BY DEF NoPass, Pass
    <2>2. IF native THEN StartLoop(ms, p) ELSE FormatResults(ms, p)
        BY <1>3 DEF Continue
    <2>3. OthersOK' /\ UNCHANGED native
        BY <1>0, <1>3, LimitsAssumption DEF Continue, OthersOK
    <2>4. "tool" \in Kinds
        BY DEF Kinds
    <2>5. Transcript(ms) /\ Holds(ms, "said") /\ Last(ms) = "tool"
        BY <1>0, <1>3, <2>4, AppendFacts DEF Continue
    <2>6. 0 <= MaxIterations
        BY ItersAssumption DEF MaxIterations
    <2> HIDE DEF p, ms
    <2> QED BY <2>1, <2>2, <2>3, <2>5, <2>6, StartLoopSound, FormatResultsSound
<1>4. CASE Ignored
    <2>1. OthersOK' /\ UNCHANGED <<native, messages, phase, pass, outstanding>>
          /\ outcome' = "silent" /\ phase = "idle"
        BY <1>0, <1>4, LimitsAssumption DEF Ignored, OthersOK
    <2> QED BY <2>1 DEF Sound, MaxIterations, Outcomes
<1>5. ASSUME InLoop, NothingSent
      PROVE  /\ phase = "loop" /\ OthersOK' /\ UNCHANGED native
             /\ Transcript(messages) /\ Holds(messages, "said")
    BY <1>0, <1>5 DEF OthersOK
<1>6. CASE Fails
    BY <1>5, <1>6, FinishSound DEF Fails, Outcomes
<1>7. CASE NotForMe
    <2> DEFINE ms == Heard("refusal")
               next == [pass EXCEPT !.rechecked = TRUE]
    <2>1. /\ phase = "loop" /\ OthersOK' /\ UNCHANGED native
          /\ \/ Finish("complete", Restored(ms))
             \/ AskAgain(Steered(ms, "recheck"), next)
             \/ Finish("silent", ms)
        BY <1>5, <1>7 DEF NotForMe
    <2>2. Transcript(ms) /\ Holds(ms, "said") /\ Last(ms) = "refusal"
        BY <2>1, HeardFacts
    <2>3. next \in Pass /\ next.iteration = pass.iteration
        BY <1>0 DEF Pass
    <2> HIDE DEF next
    <2>4. Askable(Steered(ms, "recheck"), next)
        BY <2>1, <2>3, SteeredAskable
    <2> HIDE DEF ms
    <2>5. Transcript(Restored(ms)) /\ Holds(Restored(ms), "said")
        BY <2>2, RestoredFacts
    <2> QED BY <2>1, <2>2, <2>3, <2>4, <2>5, FinishSound, AskAgainSound DEF Outcomes
<1>8. ASSUME NEW claims \in BOOLEAN, NEW blank \in BOOLEAN, NEW closing \in BOOLEAN,
             Prose(claims, blank, closing)
      PROVE  Sound'
    <2> DEFINE ms == Heard("reply")
               next == [pass EXCEPT !.popped = @ \/ ~blank, !.answered = @ \/ ~blank]
    <2>1. /\ phase = "loop" /\ OthersOK' /\ UNCHANGED native
          /\ \/ /\ ForceGuard(ms, claims) \/ MustCallGuard(ms)
                /\ AskAgain(Steered(ms, "must_call"), next)
             \/ Finish("complete", ms)
        BY <1>5, <1>8 DEF Prose
    <2>2. Transcript(ms) /\ Holds(ms, "said")
        BY <2>1, HeardFacts
    <2>3. next \in Pass /\ next.iteration = pass.iteration
        BY <1>0 DEF Pass
    <2>4. Count(ms, "must_call") \in Nat
        BY <2>2, CountFacts DEF Transcript
    <2> HIDE DEF next
    <2>5. ForceGuard(ms, claims) \/ MustCallGuard(ms) => Count(ms, "must_call") < 2
        BY <2>4 DEF ForceGuard, MustCallGuard
    <2>6. ForceGuard(ms, claims) \/ MustCallGuard(ms)
             => Askable(Steered(ms, "must_call"), next)
        BY <2>1, <2>3, <2>5, SteeredAskable
    <2> HIDE DEF ms
    <2> QED BY <2>1, <2>2, <2>3, <2>6, FinishSound, AskAgainSound DEF Outcomes
<1>18. CASE NamelessCalls
    <2>1. /\ phase = "loop" /\ OthersOK' /\ UNCHANGED native
          /\ AskAgain(Heard("nameless"), pass)
        BY <1>5, <1>18 DEF NamelessCalls
    <2> QED BY <1>0, <2>1, HeardAskable, AskAgainSound
<1>9. CASE BadDates
    <2>1. /\ phase = "loop" /\ OthersOK' /\ UNCHANGED native
          /\ AskAgain(Steered(Heard("calls"), "iso"), pass)
        BY <1>5, <1>9 DEF BadDates
    <2>2. Askable(Steered(Heard("calls"), "iso"), pass)
        BY <1>0, <2>1, SteeredAskable
    <2> QED BY <1>0, <2>1, <2>2, AskAgainSound
<1>10. CASE ServerFirst
    <2>1. /\ phase = "loop" /\ OthersOK' /\ UNCHANGED native
          /\ AskAgain(Append(Heard("calls"), "tool"), pass)
        BY <1>5, <1>10 DEF ServerFirst
    <2> QED BY <1>0, <2>1, AppendedAskable, AskAgainSound
<1>11. CASE AsksUser
    <2>1. /\ phase = "loop" /\ OthersOK'
          /\ Finish("validation", Append(Heard("calls"), "tool"))
        BY <1>5, <1>11 DEF AsksUser
    <2> QED BY <2>1, AppendedAskable, FinishSound DEF Outcomes
<1>12. CASE ServerOnly
    <2> DEFINE ms == Append(Heard("calls"), "tool")
    <2>1. /\ phase = "loop" /\ OthersOK' /\ UNCHANGED native
          /\ IF native THEN AskAgain(ms, pass) ELSE FormatResults(ms, pass)
        BY <1>5, <1>12 DEF ServerOnly
    <2>2. /\ Askable(ms, pass) /\ Transcript(ms) /\ Holds(ms, "said")
          /\ Formattable(ms, pass)
        BY <2>1, AppendedAskable
    <2> HIDE DEF ms
    <2> QED BY <1>0, <2>1, <2>2, AskAgainSound, FormatResultsSound
<1>13. ASSUME NEW k \in Keys, NudgeRepeat(k)
       PROVE  Sound'
    <2> DEFINE next == [pass EXCEPT !.nudged = @ \cup {k}]
    <2>1. /\ phase = "loop" /\ OthersOK' /\ UNCHANGED native
          /\ AskAgain(Steered(Heard("calls"), "dedupe"), next)
        BY <1>5, <1>13 DEF NudgeRepeat
    <2>2. next \in Pass /\ next.iteration = pass.iteration /\ next.nudged # {}
        BY <1>0 DEF Pass
    <2> HIDE DEF next
    <2>3. Askable(Steered(Heard("calls"), "dedupe"), next)
        BY <2>1, <2>2, SteeredAskable
    <2> QED BY <2>1, <2>2, <2>3, AskAgainSound
<1>14. ASSUME NEW k \in Keys, BadParams(k)
       PROVE  Sound'
    <2>1. /\ phase = "loop" /\ OthersOK' /\ UNCHANGED native
          /\ AskAgain(Append(Heard("calls"), "invalid"), pass)
        BY <1>5, <1>14 DEF BadParams
    <2> QED BY <1>0, <2>1, AppendedAskable, AskAgainSound
<1>15. ASSUME NEW k \in Keys, SendCall(k)
       PROVE  Sound'
    <2>1. phase = "loop" /\ OthersOK' /\ Finish("tools", Heard("calls"))
        BY <1>0, <1>15 DEF SendCall, OthersOK
    <2>2. Transcript(Heard("calls")) /\ Holds(Heard("calls"), "said")
        BY <2>1, HeardFacts
    <2> QED BY <2>1, <2>2, FinishSound DEF Outcomes
<1>16. CASE FormatFails \/ Formatted \/ FormattedBlank \/ FormatNotForMe
    <2>1. phase = "format" /\ OthersOK'
        BY <1>0, <1>16
           DEF FormatFails, Formatted, FormattedBlank, FormatNotForMe, InFormat, OthersOK
    <2>2. \E reason \in Outcomes :
              \/ Finish(reason, messages)
              \/ Finish(reason, Append(messages, "reply"))
              \/ Finish(reason, Append(messages, "refusal"))
        BY <1>16 DEF FormatFails, Formatted, FormattedBlank, FormatNotForMe, Outcomes
    <2>3. {"reply", "refusal"} \subseteq Kinds
        BY DEF Kinds
    <2>4. \A kind \in {"reply", "refusal"} :
              Transcript(Append(messages, kind)) /\ Holds(Append(messages, kind), "said")
        BY <1>0, <2>1, <2>3, AppendFacts
    <2> QED BY <1>0, <2>1, <2>2, <2>4, FinishSound
<1>17. ASSUME NEW k \in Keys, WindowPasses(k)
       PROVE  Sound'
    <2>1. OthersOK' /\ UNCHANGED <<native, messages, phase, pass, outstanding, outcome>>
        BY <1>0, <1>17 DEF WindowPasses, OthersOK
    <2> QED BY <2>1 DEF Sound, MaxIterations
<1> QED
    BY <1>1, <1>2, <1>3, <1>4, <1>6, <1>7, <1>8, <1>9, <1>10, <1>11, <1>12, <1>13,
       <1>14, <1>15, <1>16, <1>17, <1>18 DEF Next, Reply

LEMMA SoundHolds == Spec => []Sound
BY InitSound, SoundNext, PTL DEF Spec

\* The transcript, the locals of a request and its counters are well formed.
THEOREM TypeCorrect == Spec => []TypeOK
<1>1. Sound => TypeOK
    BY SoundIs
<1> QED BY <1>1, SoundHolds, PTL

\* Wherever execute has the model asked, in the loop or to word its server
\* tools' results, a nudge is the last message or none, and no nag of an
\* earlier request is left when one starts: no path, not even through a pop or
\* a trim, carries steering past the reply it was written for.
THEOREM SteeringIsOneShotHolds == Spec => []SteeringIsOneShot
<1>1. Sound => SteeringIsOneShot
    BY SoundIs
<1> QED BY <1>1, SoundHolds, PTL

\* Every prompt starts with the system prompt, holds an utterance and ends
\* with something to answer, or with nameless calls, however long the
\* conversation and whatever was scrubbed, popped, restored or trimmed.
THEOREM PromptIsSoundHolds == Spec => []PromptIsSound
<1>1. Sound => PromptIsSound
    BY SoundIs
<1> QED BY <1>1, SoundHolds, PTL

-----------------------------------------------------------------------------
(***************************************************************************)
(* The guards.                                                             *)
(***************************************************************************)
\* The locals are well formed; a native provider has no formatting call;
\* an answer given in the request under way was kept.
Kept ==
    /\ pass \in Pass
    /\ phase \in {"idle", "loop", "format"}
    /\ native => phase # "format"
    /\ pass.answered => pass.popped

LEMMA FinishKeeps ==
    ASSUME NEW reason, NEW ms, Finish(reason, ms), UNCHANGED native
    PROVE  Kept'
BY DEF Finish, Kept, NoPass, Pass, Shapes

LEMMA AskAgainKeeps ==
    ASSUME NEW ms, NEW p \in Pass, p.answered => p.popped, phase = "loop",
           AskAgain(ms, p), UNCHANGED native
    PROVE  Kept'
<1>1. CASE p.iteration < MaxIterations
  BY <1>1 DEF AskAgain, Kept, Pass
<1>2. CASE ~(p.iteration < MaxIterations)
  BY <1>2, FinishKeeps DEF AskAgain
<1> QED BY <1>1, <1>2

LEMMA StartLoopKeeps ==
    ASSUME NEW ms, NEW p \in Pass, p.answered => p.popped,
           StartLoop(ms, p), UNCHANGED native
    PROVE  Kept'
BY DEF StartLoop, Kept, Pass

LEMMA FormatResultsKeeps ==
    ASSUME NEW ms, NEW p \in Pass, p.answered => p.popped, ~native,
           FormatResults(ms, p), UNCHANGED native
    PROVE  Kept'
<1>1. CASE Finish("complete", Append(Without(ms, {"tool"}), "reply"))
  BY <1>1, FinishKeeps
<1>2. CASE phase' = "format" /\ pass' = p
  BY <1>2 DEF Kept
<1> QED BY <1>1, <1>2 DEF FormatResults

LEMMA KeptInit == Init => Kept
BY DEF Init, Kept, NoPass, Pass, Shapes

LEMMA KeptNext == Kept /\ [Next]_vars => Kept'
<1> SUFFICES ASSUME Kept, [Next]_vars PROVE Kept'
  OBVIOUS
<1> USE DEF InLoop, NothingSent
<1>1. CASE UNCHANGED vars
  BY <1>1 DEF vars, Kept
<1>2. ASSUME NEW shape \in Shapes, NEW rescue \in BOOLEAN, NEW matched \in BOOLEAN,
             Say(shape, rescue, matched)
      PROVE  Kept'
  <2> DEFINE p == [NoPass EXCEPT !.shape = shape, !.rescue = rescue]
  <2>1. p \in Pass /\ ~p.answered
    BY DEF NoPass, Pass
  <2>2. StartLoop(Append(Trimmed(messages), "said"), p)
        /\ UNCHANGED native
    BY <1>2 DEF Say, Kept
  <2> HIDE DEF p
  <2> QED BY <2>1, <2>2, StartLoopKeeps
<1>3. ASSUME NEW shape \in Shapes, Continue(shape)
      PROVE  Kept'
  <2> DEFINE p == [NoPass EXCEPT !.continuing = TRUE, !.shape = shape]
             ms == Append(messages, "tool")
  <2>1. p \in Pass /\ ~p.answered
    BY DEF NoPass, Pass
  <2>2. UNCHANGED native
    BY <1>3 DEF Continue, Kept
  <2>3. IF native THEN StartLoop(ms, p) ELSE FormatResults(ms, p)
    BY <1>3 DEF Continue
  <2> HIDE DEF p, ms
  <2> QED BY <2>1, <2>2, <2>3, StartLoopKeeps, FormatResultsKeeps
<1>4. CASE Ignored
  BY <1>4 DEF Ignored, Kept
<1>5. CASE Fails
  BY <1>5, FinishKeeps DEF Fails, Kept
<1>6. CASE NotForMe
  <2> DEFINE again == [pass EXCEPT !.rechecked = TRUE]
  <2>1. again \in Pass /\ (again.answered => again.popped)
    BY DEF Kept, Pass
  <2>2. UNCHANGED native /\ phase = "loop"
    BY <1>6 DEF NotForMe, Kept
  <2>3. \/ \E reason, ms : Finish(reason, ms)
        \/ \E ms : AskAgain(ms, again)
    BY <1>6 DEF NotForMe
  <2> HIDE DEF again
  <2> QED BY <2>1, <2>2, <2>3, FinishKeeps, AskAgainKeeps
<1>7. ASSUME NEW claims \in BOOLEAN, NEW blank \in BOOLEAN, NEW closing \in BOOLEAN,
             Prose(claims, blank, closing)
      PROVE  Kept'
  <2> DEFINE again == [pass EXCEPT !.popped = @ \/ ~blank, !.answered = @ \/ ~blank]
  <2>1. again \in Pass /\ (again.answered => again.popped)
    BY DEF Kept, Pass
  <2>2. UNCHANGED native /\ phase = "loop"
    BY <1>7 DEF Prose, Kept
  <2>3. \/ \E reason, ms : Finish(reason, ms)
        \/ \E ms : AskAgain(ms, again)
    BY <1>7 DEF Prose
  <2> HIDE DEF again
  <2> QED BY <2>1, <2>2, <2>3, FinishKeeps, AskAgainKeeps
<1>8. CASE NamelessCalls \/ BadDates \/ ServerFirst
  <2>1. UNCHANGED native /\ phase = "loop"
    BY <1>8 DEF NamelessCalls, BadDates, ServerFirst, Kept
  <2>2. \E ms : AskAgain(ms, pass)
    BY <1>8 DEF NamelessCalls, BadDates, ServerFirst
  <2> QED BY <2>1, <2>2, AskAgainKeeps DEF Kept
<1>9. CASE AsksUser
  BY <1>9, FinishKeeps DEF AsksUser, Kept
<1>10. CASE ServerOnly
  <2> DEFINE ms == Append(Heard("calls"), "tool")
  <2>1. UNCHANGED native /\ phase = "loop"
    BY <1>10 DEF ServerOnly, Kept
  <2>2. IF native THEN AskAgain(ms, pass) ELSE FormatResults(ms, pass)
    BY <1>10 DEF ServerOnly
  <2> HIDE DEF ms
  <2> QED BY <2>1, <2>2, AskAgainKeeps, FormatResultsKeeps DEF Kept
<1>11. ASSUME NEW k \in Keys, NudgeRepeat(k)
       PROVE  Kept'
  <2> DEFINE again == [pass EXCEPT !.nudged = @ \cup {k}]
  <2>1. again \in Pass /\ (again.answered => again.popped)
    BY DEF Kept, Pass
  <2>2. UNCHANGED native /\ phase = "loop"
    BY <1>11 DEF NudgeRepeat, Kept
  <2>3. AskAgain(Steered(Heard("calls"), "dedupe"), again)
    BY <1>11 DEF NudgeRepeat
  <2> HIDE DEF again
  <2> QED BY <2>1, <2>2, <2>3, AskAgainKeeps
<1>12. ASSUME NEW k \in Keys, BadParams(k)
       PROVE  Kept'
  <2>1. UNCHANGED native /\ phase = "loop"
    BY <1>12 DEF BadParams, Kept
  <2>2. \E ms : AskAgain(ms, pass)
    BY <1>12 DEF BadParams
  <2> QED BY <2>1, <2>2, AskAgainKeeps DEF Kept
<1>13. ASSUME NEW k \in Keys, SendCall(k)
       PROVE  Kept'
  <2>1. UNCHANGED native
    BY <1>13 DEF SendCall, Kept
  <2> QED BY <1>13, <2>1, FinishKeeps DEF SendCall
<1>14. CASE FormatFails \/ Formatted \/ FormattedBlank \/ FormatNotForMe
  <2>1. UNCHANGED native
    BY <1>14 DEF FormatFails, Formatted, FormattedBlank, FormatNotForMe, InFormat, Kept
  <2>2. \E reason, ms : Finish(reason, ms)
    BY <1>14 DEF FormatFails, Formatted, FormattedBlank, FormatNotForMe
  <2> QED BY <2>1, <2>2, FinishKeeps
<1>15. ASSUME NEW k \in Keys, WindowPasses(k)
       PROVE  Kept'
  BY <1>15 DEF WindowPasses, Kept
<1> QED
  BY <1>1, <1>2, <1>3, <1>4, <1>5, <1>6, <1>7, <1>8, <1>9, <1>10, <1>11, <1>12,
     <1>13, <1>14, <1>15 DEF Next, Reply

LEMMA KeptHolds == Spec => []Kept
BY KeptInit, KeptNext, PTL DEF Spec

-----------------------------------------------------------------------------
\* With a native provider a request whose model gave an answer never ends in
\* silence: only NotForMe is silent, and only when nothing was popped.
THEOREM AnswerNotSilencedHolds == Spec => AnswerNotSilenced
<1>1. ASSUME Kept, [Next]_vars, native, Ends("silent")
      PROVE  ~pass.answered
  <2>1. phase # "format" /\ (pass.answered => pass.popped)
    BY <1>1 DEF Kept
  <2>2. Next /\ phase # "idle" /\ phase' = "idle" /\ outcome' = "silent"
    BY <1>1 DEF Ends, vars
  <2>3. ~\E shape \in Shapes, rescue, matched \in BOOLEAN : Say(shape, rescue, matched)
    BY <2>2 DEF Say
  <2>4. ~\E shape \in Shapes : Continue(shape)
    BY <2>2 DEF Continue
  <2>5. ~Ignored /\ ~\E k \in Keys : WindowPasses(k)
    BY <2>2 DEF Ignored, WindowPasses
  <2>6. ~(FormatFails \/ Formatted \/ FormattedBlank \/ FormatNotForMe)
    BY <2>1 DEF FormatFails, Formatted, FormattedBlank, FormatNotForMe, InFormat
  <2>7. Reply
    BY <2>2, <2>3, <2>4, <2>5 DEF Next
  <2>8. ASSUME NEW ms, NEW p, AskAgain(ms, p), phase = "loop"
        PROVE  FALSE
    BY <2>2, <2>8 DEF AskAgain, Finish
  <2>9. ~Fails /\ ~AsksUser /\ ~\E k \in Keys : SendCall(k)
    BY <2>2 DEF Fails, AsksUser, SendCall, Finish
  <2>10. /\ ~NamelessCalls /\ ~BadDates /\ ~ServerFirst
         /\ ~\E k \in Keys : NudgeRepeat(k) \/ BadParams(k)
    BY <2>8 DEF NamelessCalls, BadDates, ServerFirst, NudgeRepeat, BadParams, InLoop
  <2>11. ~ServerOnly
    BY <1>1, <2>8 DEF ServerOnly, InLoop
  <2>12. ~\E claims, blank, closing \in BOOLEAN : Prose(claims, blank, closing)
    <3>1. ASSUME NEW ms, Finish("complete", ms) PROVE FALSE
      BY <2>2, <3>1 DEF Finish
    <3> QED BY <2>8, <3>1 DEF Prose, InLoop
  <2>13. NotForMe
    BY <2>6, <2>7, <2>9, <2>10, <2>11, <2>12 DEF Reply
  <2>14. ~pass.popped
    BY <2>2, <2>13 DEF NotForMe, Finish
  <2> QED BY <2>1, <2>14
<1> QED BY <1>1, KeptHolds, PTL DEF Spec, AnswerNotSilenced

=============================================================================
