---------------------------- MODULE SamplerProofs ----------------------------
(***************************************************************************)
(* Proofs about the samplers and the reads they rest on, for any words and *)
(* rates of the device, any cells, steps and pauses of the search, and any *)
(* tree of page tables.                                                    *)
(*                                                                         *)
(* DceSampler.  That no dead counter is kept is not inductive: the code    *)
(* counts the windows in which the selected word shows nothing             *)
(* (invalid_windows_), the property the windows in which any word does.    *)
(* WindowInv relates the two: the code's count is never behind that of the *)
(* selected word, also when the known place or a new scan has just         *)
(* replaced it.                                                            *)
(*                                                                         *)
(* VideoOutSampler.  That a reading is a true rate needs to know where the *)
(* counter stands between two samples: BaselineInv says that it is the     *)
(* previous value moved on by the frames since the baseline, modulo        *)
(* 2^Width, and that at most one sample was too soon to count, so that     *)
(* fewer than 2^Width frames lie between two baselines.                    *)
(*                                                                         *)
(* PageWalk.  The heart is one fact about translate (TranslateFindsPage    *)
(* and MappedIsTranslated): it finds the page that maps the address, of    *)
(* whatever size, and fails only where there is none.  WalkInv then says   *)
(* that the loop continues where the bytes copied so far end.              *)
(***************************************************************************)
EXTENDS DceSampler, VideoOutSampler, PageWalk,
        FiniteSetTheorems, SequenceTheorems, WellFoundedInduction, TLAPS

------------------------------------------------------------------------------
(***************************************************************************)
(* Minima and remainders.                                                  *)
(***************************************************************************)
LEMMA LeastNatural ==
    ASSUME NEW T, T \subseteq Nat, T # {}
    PROVE  \E x \in T : \A y \in T : x <= y
<1>1. PICK x \in T : \A y \in T : ~ (<<y, x>> \in OpToRel(<, Nat))
  BY NatLessThanWellFounded, WFMin
<1>2. \A y \in T : ~ (y < x)
  BY <1>1 DEF OpToRel
<1> QED BY <1>2

LEMMA DivisionIsUnique ==
    ASSUME NEW a \in Nat, NEW n \in Nat \ {0}, NEW q \in Int, NEW r \in 0 .. n - 1,
           a = n * q + r
    PROVE  a \div n = q /\ a % n = r
  OBVIOUS

LEMMA Division ==
    ASSUME NEW a \in Nat, NEW n \in Nat \ {0}
    PROVE  a \div n \in Nat /\ a % n \in 0 .. n - 1 /\ a = n * (a \div n) + (a % n)
<1> DEFINE q == a \div n
           r == a - n * q
<1>1. q \in Nat /\ n * q <= a /\ a < n * q + n
  OBVIOUS
<1> HIDE DEF q
<1>2. n * q \in Nat
  BY <1>1
<1>3. r \in 0 .. n - 1 /\ a = n * q + r
  BY <1>1, <1>2
<1> HIDE DEF r
<1>4. a % n = r
  BY <1>1, <1>3, DivisionIsUnique
<1>5. q = a \div n
  BY DEF q
<1>6. a \div n \in Nat /\ a % n \in 0 .. n - 1
  BY <1>1, <1>3, <1>4, <1>5, Zenon
<1>7. a = n * (a \div n) + (a % n)
  BY <1>3, <1>4, <1>5, Zenon
<1> QED BY <1>6, <1>7

------------------------------------------------------------------------------
(***************************************************************************)
(* DceSampler.                                                             *)
(***************************************************************************)
LEMMA MinOfTwo ==
    \A a, b \in Int : Min({a, b}) \in {a, b} /\ Min({a, b}) <= a /\ Min({a, b}) <= b
<1> SUFFICES ASSUME NEW a \in Int, NEW b \in Int
             PROVE  Min({a, b}) \in {a, b} /\ Min({a, b}) <= a /\ Min({a, b}) <= b
  OBVIOUS
<1>1. \E x \in {a, b} : \A y \in {a, b} : x <= y
  OBVIOUS
<1>2. Min({a, b}) \in {a, b} /\ \A y \in {a, b} : Min({a, b}) <= y
  BY <1>1 DEF Min
<1> QED BY <1>2

LEMMA RankBound == MaxRank \in Nat /\ MaxRank >= 1 /\ IsFiniteSet(Words) /\ Cardinality(Words) \in Nat
  BY DceConstants, FS_CardinalityType DEF MaxRank

\* A rank is small, and reaches two only with the streak.
LEMMA RankedIs ==
    ASSUME NEW s \in [Words -> Nat]
    PROVE  /\ Ranked(s) \in [Words -> 0 .. MaxRank]
           /\ \A w \in Words : Ranked(s)[w] >= 2 => s[w] >= 2
<1> DEFINE U(w) == {u \in Words : s[u] \in 2 .. s[w]}
           T(w) == {s[v] : v \in U(w)}
           Value(w) == IF s[w] < 2 THEN s[w] ELSE 1 + Cardinality(T(w))
<1>1. ASSUME NEW w \in Words
      PROVE  Value(w) \in 0 .. MaxRank /\ (Value(w) >= 2 => s[w] >= 2)
  <2>1. IsFiniteSet(U(w)) /\ Cardinality(U(w)) <= Cardinality(Words) /\ Cardinality(U(w)) \in Nat
    <3>1. U(w) \in SUBSET Words
      OBVIOUS
    <3> HIDE DEF U
    <3> QED BY <3>1, RankBound, FS_Subset, FS_CardinalityType
  <2>2. \E f : f \in Surjection(U(w), T(w))
    <3> DEFINE f == [v \in U(w) |-> s[v]]
    <3>1. f \in Surjection(U(w), T(w))
      BY DEF Surjection
    <3> QED BY <3>1
  <2>3. Cardinality(T(w)) \in Nat /\ Cardinality(T(w)) <= Cardinality(U(w))
    <3> HIDE DEF T, U
    <3>1. PICK f : f \in Surjection(U(w), T(w))
      BY <2>2
    <3>2. IsFiniteSet(T(w)) /\ Cardinality(T(w)) <= Cardinality(U(w))
      BY <2>1, <3>1, FS_Surjection
    <3> QED BY <3>2, FS_CardinalityType
  <2>4. s[w] \in Nat
    OBVIOUS
  <2> HIDE DEF T, U
  <2> QED BY <2>1, <2>3, <2>4, RankBound DEF MaxRank
<1>2. Ranked(s) = [w \in Words |-> Value(w)]
  BY DEF Ranked
<1> HIDE DEF Value
<1> QED BY <1>1, <1>2

\* The scan finds a word that was steady for two windows, if there is one: the
\* longest streak, and among equal ones the first word.
LEMMA BestIsSteady ==
    ASSUME NEW s \in [Words -> 0 .. MaxRank]
    PROVE  Best(s) = NoWord \/ (Best(s) \in Words /\ s[Best(s)] >= 2)
<1> DEFINE steady == {w \in Words : s[w] >= 2}
           Wins(w) == \A v \in steady : s[w] > s[v] \/ (s[w] = s[v] /\ w <= v)
<1>1. CASE steady = {}
  BY <1>1 DEF Best
<1>2. CASE steady # {}
  <2> DEFINE gaps == {MaxRank - s[w] : w \in steady}
  <2>1. gaps \subseteq Nat /\ gaps # {}
    <3>1. \A w \in steady : MaxRank - s[w] \in Nat
      BY RankBound
    <3> QED BY <1>2, <3>1
  <2>2. PICK gap \in gaps : \A g \in gaps : gap <= g
    BY <2>1, LeastNatural
  <2> DEFINE longest == {w \in steady : MaxRank - s[w] = gap}
  <2>3. longest \subseteq Nat /\ longest # {}
    BY <2>2, DceConstants
  <2>4. PICK w \in longest : \A v \in longest : w <= v
    BY <2>3, LeastNatural
  <2>5. Wins(w)
    <3> SUFFICES ASSUME NEW v \in steady
                 PROVE  s[w] > s[v] \/ (s[w] = s[v] /\ w <= v)
      OBVIOUS
    <3>1. MaxRank - s[w] <= MaxRank - s[v]
      BY <2>2, <2>4
    <3>2. s[w] \in Int /\ s[v] \in Int /\ MaxRank \in Int
      BY RankBound
    <3>3. s[w] >= s[v]
      BY <3>1, <3>2
    <3>4. s[w] = s[v] => v \in longest
      BY <2>4
    <3> QED BY <2>4, <3>2, <3>3, <3>4
  <2>6. \E u \in steady : Wins(u)
    BY <2>4, <2>5
  <2>7. Best(s) = CHOOSE u \in steady : Wins(u)
    BY <1>2 DEF Best
  <2> HIDE DEF Wins
  <2>8. Best(s) \in steady
    BY <2>6, <2>7
  <2> QED BY <2>8
<1> QED BY <1>1, <1>2

------------------------------------------------------------------------------
(***************************************************************************)
(* The inductive invariant.                                                *)
(***************************************************************************)
\* The code's count of dark windows keeps up with the selected word.
WindowInv ==
    /\ rates \in [Words -> Rates \cup {0}] /\ dark \in [Words -> 0 .. InvalidLimit]
    /\ invalid < InvalidLimit
    /\ selected # NoWord => dark[selected] <= invalid

SamplerStateInv == TypeOK /\ WindowInv

CounterType ==
    /\ baseline \in BOOLEAN /\ warmup \in 0 .. 1
    /\ streak \in [Words -> 0 .. MaxRank] /\ lastFps \in [Words -> Rates \cup {0}]
    /\ selected \in Words \cup {NoWord} /\ invalid \in 0 .. InvalidLimit
    /\ reading \in Rates \cup {0}
DeviceType ==
    /\ opened \in BOOLEAN /\ failures \in 0 .. FailureLimit
    /\ authority \in {"own", "ptrace"}
    /\ outcome \in {"none", "shared", "failed", "counted", "measured"}

LEMMA TypeParts == TypeOK <=> DeviceType /\ CounterType
  BY DEF TypeOK, DeviceType, CounterType

LEMMA Emptiness ==
    /\ Nothing \in [Words -> 0 .. MaxRank] /\ Nothing \in [Words -> Rates \cup {0}]
    /\ Nothing \in [Words -> 0 .. InvalidLimit]
  BY DceConstants, RankBound DEF Nothing, InvalidLimit

LEMMA WordIsNot == NoWord \notin Words
  BY DceConstants DEF NoWord

LEMMA SamplerInit == Init => SamplerStateInv
<1> SUFFICES ASSUME Init PROVE SamplerStateInv
  OBVIOUS
<1>1. DeviceType
  <2>1. failures \in 0 .. FailureLimit
    BY DceConstants DEF Init
  <2> QED BY <2>1 DEF Init, DeviceType
<1>2. CounterType
  <2>1. warmup \in 0 .. 1 /\ invalid \in 0 .. InvalidLimit
    BY DEF Init, InvalidLimit
  <2> QED BY <2>1, Emptiness DEF Init, CounterType
<1>3. WindowInv
  BY Emptiness DEF Init, WindowInv, InvalidLimit
<1> QED BY <1>1, <1>2, <1>3, TypeParts DEF SamplerStateInv

LEMMA WindowTypes ==
    ASSUME authority \in {"own", "ptrace"}, NEW w \in Windows
    PROVE  /\ w.ready \in BOOLEAN /\ w.restored \in BOOLEAN
           /\ w.authority \in {"own", "ptrace"}
           /\ w.ready /\ w.restored => w.authority = authority
<1>1. CASE authority = "ptrace"
  <2>1. w = [ready |-> TRUE, restored |-> TRUE, authority |-> "ptrace"]
    BY <1>1 DEF Windows
  <2>2. w.ready = TRUE /\ w.restored = TRUE /\ w.authority = "ptrace"
    BY <2>1
  <2> QED BY <1>1, <2>2
<1>2. CASE authority = "own"
  <2>1. \/ w = [ready |-> FALSE, restored |-> FALSE, authority |-> "own"]
        \/ w = [ready |-> TRUE, restored |-> TRUE, authority |-> "own"]
        \/ w = [ready |-> TRUE, restored |-> FALSE, authority |-> "ptrace"]
    BY <1>2 DEF Windows
  <2>2. /\ w.ready = TRUE \/ w.ready = FALSE
        /\ (w.restored = TRUE /\ w.authority = "own") \/ w.restored = FALSE
        /\ w.authority = "own" \/ w.authority = "ptrace"
    BY <2>1
  <2> QED BY <1>2, <2>2
<1> QED BY <1>1, <1>2

\* Opening leaves the failure count within its limit; an open that succeeds has
\* returned the authority it took.
LEMMA OpensTypes ==
    ASSUME DeviceType, NEW o \in Opens
    PROVE  /\ o.ok \in BOOLEAN /\ o.failures \in 0 .. FailureLimit
           /\ o.authority \in {"own", "ptrace"}
           /\ o.ok => o.authority = authority
<1> USE DEF DeviceType
<1>1. Min({failures + 1, FailureLimit}) \in 0 .. FailureLimit
  <2>1. failures + 1 \in Int /\ FailureLimit \in Int /\ failures + 1 >= 0 /\ FailureLimit >= 0
    BY DceConstants
  <2> DEFINE m == Min({failures + 1, FailureLimit})
  <2>2. m \in {failures + 1, FailureLimit} /\ m <= FailureLimit
    BY <2>1, MinOfTwo
  <2> HIDE DEF m
  <2>3. m \in 0 .. FailureLimit
    BY <2>1, <2>2
  <2> QED BY <2>3 DEF m
<1>2. CASE o = [ok |-> TRUE, failures |-> IF opened THEN failures ELSE 0, authority |-> authority]
  BY <1>2, DceConstants
<1>3. ASSUME NEW w \in Windows, w.ready,
             o = [ok |-> w.restored, failures |-> IF w.restored THEN 0 ELSE failures,
                  authority |-> w.authority]
      PROVE  /\ o.ok \in BOOLEAN /\ o.failures \in 0 .. FailureLimit
             /\ o.authority \in {"own", "ptrace"}
             /\ o.ok => o.authority = authority
  BY <1>3, WindowTypes, DceConstants
<1>4. ASSUME NEW w \in Windows,
             o = [ok |-> FALSE, failures |-> Min({failures + 1, FailureLimit}),
                  authority |-> w.authority]
      PROVE  /\ o.ok \in BOOLEAN /\ o.failures \in 0 .. FailureLimit
             /\ o.authority \in {"own", "ptrace"}
             /\ o.ok => o.authority = authority
  <2> DEFINE m == Min({failures + 1, FailureLimit})
  <2> HIDE DEF m
  <2> QED BY <1>1, <1>4, WindowTypes DEF m
<1> QED BY <1>2, <1>3, <1>4 DEF Opens

\* A query that succeeds leaves the authority as the open left it.
LEMMA QueriesTypes ==
    ASSUME DeviceType, NEW a \in {"own", "ptrace"}, NEW q \in Queries(a)
    PROVE  /\ q.ok \in BOOLEAN /\ q.authority \in {"own", "ptrace"}
           /\ q.ok /\ a = authority => q.authority = authority
<1>1. CASE q = [ok |-> TRUE, authority |-> a]
  BY <1>1
<1>2. ASSUME NEW w \in Windows,
             \/ q = [ok |-> w.ready /\ w.restored, authority |-> w.authority]
             \/ q = [ok |-> FALSE, authority |-> w.authority]
      PROVE  /\ q.ok \in BOOLEAN /\ q.authority \in {"own", "ptrace"}
             /\ q.ok /\ a = authority => q.authority = authority
  <2>1. /\ w.ready \in BOOLEAN /\ w.restored \in BOOLEAN
        /\ w.authority \in {"own", "ptrace"}
        /\ w.ready /\ w.restored => w.authority = authority
    BY WindowTypes DEF DeviceType
  <2>2. q.authority = w.authority
    BY <1>2
  <2>3. q.ok = (w.ready /\ w.restored) \/ q.ok = FALSE
    BY <1>2
  <2> QED BY <2>1, <2>2, <2>3
<1> QED BY <1>1, <1>2 DEF Queries
------------------------------------------------------------------------------
(***************************************************************************)
(* The steps.                                                              *)
(***************************************************************************)

LEMMA ResetKeeps ==
    ASSUME SamplerStateInv, Reset, baseline' \in BOOLEAN, reading' = 0
    PROVE  CounterType' /\ WindowInv'
<1>1. CounterType'
  BY Emptiness DEF Reset, CounterType, InvalidLimit
<1>2. WindowInv'
  BY Emptiness DEF Reset, WindowInv, InvalidLimit
<1> QED BY <1>1, <1>2

LEMMA StreakTypes ==
    ASSUME SamplerStateInv, NEW r \in [Words -> Rates \cup {0}]
    PROVE  /\ Streak(r) \in [Words -> 0 .. MaxRank]
           /\ \A w \in Words : Streak(r)[w] >= 2 => r[w] # 0
<1> DEFINE Value(w) ==
        IF r[w] = 0 THEN 0
        ELSE IF lastFps[w] # 0 /\ r[w] - lastFps[w] \in 0 - Tolerance .. Tolerance
             THEN streak[w] + 1
             ELSE 1
           grown == [w \in Words |-> Value(w)]
<1>1. ASSUME NEW w \in Words
      PROVE  Value(w) \in Nat /\ (r[w] = 0 => Value(w) = 0)
  <2>1. streak[w] \in 0 .. MaxRank /\ MaxRank \in Nat
    BY RankBound DEF SamplerStateInv, TypeOK
  <2>2. streak[w] + 1 \in Nat
    BY <2>1
  <2>3. Value(w) \in {0, 1, streak[w] + 1} /\ (r[w] = 0 => Value(w) = 0)
    OBVIOUS
  <2> HIDE DEF Value
  <2> QED BY <2>2, <2>3
<1>2. Streak(r) = Ranked(grown)
  BY DEF Streak
<1> HIDE DEF Value
<1>3. grown \in [Words -> Nat] /\ \A w \in Words : grown[w] >= 2 => r[w] # 0
  BY <1>1
<1> HIDE DEF grown
<1> QED BY <1>2, <1>3, RankedIs

\* A measured window: the known place, the selected word, or a new scan.
LEMMA WindowKeeps ==
    ASSUME SamplerStateInv, CountWindow
    PROVE  CounterType' /\ WindowInv'
<1>1. /\ CounterType /\ WindowInv
      /\ rates' \in [Words -> Rates \cup {0}] /\ Measure(rates')
      /\ baseline' = baseline /\ warmup' = warmup
      /\ FixedWord \in Words
  BY TypeParts, DceConstants DEF SamplerStateInv, CountWindow
<1>2. /\ dark' \in [Words -> 0 .. InvalidLimit]
      /\ \A w \in Words : (rates'[w] # 0 => dark'[w] = 0) /\ dark'[w] <= dark[w] + 1
  <2> DEFINE Value(w) == IF rates'[w] = 0 THEN Min({dark[w] + 1, InvalidLimit}) ELSE 0
  <2>1. ASSUME NEW w \in Words
        PROVE  /\ Value(w) \in 0 .. InvalidLimit /\ Value(w) <= dark[w] + 1
               /\ rates'[w] # 0 => Value(w) = 0
    <3>1. dark[w] \in 0 .. InvalidLimit /\ InvalidLimit \in Int
      BY <1>1 DEF WindowInv, InvalidLimit
    <3> DEFINE m == Min({dark[w] + 1, InvalidLimit})
    <3>2. m \in {dark[w] + 1, InvalidLimit} /\ m <= InvalidLimit /\ m <= dark[w] + 1
      <4>1. dark[w] + 1 \in Int
        BY <3>1
      <4> QED BY <3>1, <4>1, MinOfTwo
    <3> HIDE DEF m
    <3>3. m \in 0 .. InvalidLimit /\ 0 \in 0 .. InvalidLimit /\ 0 <= dark[w] + 1
      BY <3>1, <3>2 DEF InvalidLimit
    <3>4. Value(w) = IF rates'[w] = 0 THEN m ELSE 0
      BY DEF m
    <3> HIDE DEF Value
    <3> QED BY <3>2, <3>3, <3>4
  <2>2. dark' = [w \in Words |-> Value(w)]
    BY DEF CountWindow
  <2> HIDE DEF Value
  <2> QED BY <2>1, <2>2
<1>3. CASE rates'[FixedWord] # 0
  <2>1. /\ selected' = FixedWord /\ invalid' = 0 /\ reading' = rates'[FixedWord]
        /\ streak' = streak /\ lastFps' = lastFps
    BY <1>1, <1>3 DEF Measure
  <2>2. CounterType'
    BY <1>1, <2>1 DEF CounterType, InvalidLimit
  <2>3. WindowInv'
    BY <1>1, <1>2, <1>3, <2>1 DEF WindowInv, InvalidLimit
  <2> QED BY <2>2, <2>3
<1>4. CASE /\ rates'[FixedWord] = 0 /\ selected # NoWord
           /\ ~ (DropsSelected(rates') /\ DropLimit)
  <2>1. /\ reading' = rates'[selected] /\ selected \in Words
        /\ invalid' = IF rates'[selected] = 0 THEN invalid + 1 ELSE 0
        /\ selected' = selected /\ streak' = streak /\ lastFps' = lastFps
    BY <1>1, <1>4 DEF Measure, Misses, CounterType
  <2>2. invalid \in Int /\ invalid >= 0 /\ dark[selected] <= invalid /\ dark[selected] \in Int
    BY <1>1, <1>4, <2>1 DEF WindowInv, CounterType
  <2>3. rates'[selected] = 0 => invalid + 1 < InvalidLimit
    BY <1>4, <2>2 DEF DropsSelected, DropLimit, InvalidLimit
  <2>4. invalid' \in Int /\ invalid' >= 0 /\ invalid' < InvalidLimit /\ dark'[selected] <= invalid'
    <3>1. CASE rates'[selected] = 0
      <4>1. dark'[selected] <= dark[selected] + 1 /\ dark'[selected] \in Int
        <5>1. dark'[selected] \in 0 .. InvalidLimit
          BY <1>2, <2>1
        <5>2. dark'[selected] \in Int
          BY <5>1 DEF InvalidLimit
        <5>3. dark'[selected] <= dark[selected] + 1
          BY <1>2, <2>1
        <5> QED BY <5>2, <5>3
      <4> QED BY <2>1, <2>2, <2>3, <3>1, <4>1
    <3>2. CASE rates'[selected] # 0
      BY <1>2, <2>1, <3>2 DEF InvalidLimit
    <3> QED BY <3>1, <3>2
  <2>5. CounterType'
    BY <1>1, <2>1, <2>4 DEF CounterType, InvalidLimit
  <2>6. WindowInv'
    BY <1>1, <1>2, <2>1, <2>4 DEF WindowInv
  <2> QED BY <2>5, <2>6
<1>5. CASE /\ rates'[FixedWord] = 0
           /\ ~ (selected # NoWord /\ ~ (DropsSelected(rates') /\ DropLimit))
  <2> DEFINE s == Streak(rates')
             b == Best(s)
  <2>1. /\ invalid' = IF selected # NoWord THEN 0 ELSE invalid
        /\ streak' = s /\ lastFps' = rates' /\ selected' = b
        /\ reading' = IF b = NoWord THEN 0 ELSE rates'[b]
    BY <1>1, <1>5 DEF Measure
  <2>2. s \in [Words -> 0 .. MaxRank] /\ \A w \in Words : s[w] >= 2 => rates'[w] # 0
    BY <1>1, StreakTypes
  <2> HIDE DEF s
  <2>3. b = NoWord \/ (b \in Words /\ rates'[b] # 0)
    BY <2>2, BestIsSteady
  <2> HIDE DEF b
  <2>4. invalid' \in 0 .. InvalidLimit /\ invalid' < InvalidLimit
    BY <1>1, <2>1 DEF CounterType, WindowInv, InvalidLimit
  <2>5. CounterType'
    BY <1>1, <2>1, <2>2, <2>3, <2>4 DEF CounterType
  <2>6. selected' # NoWord => dark'[selected'] <= invalid'
    BY <1>2, <2>1, <2>3, <2>4 DEF InvalidLimit
  <2>7. WindowInv'
    BY <1>1, <1>2, <2>4, <2>6 DEF WindowInv
  <2> QED BY <2>5, <2>7
<1> QED BY <1>3, <1>4, <1>5

LEMMA SharedKeeps == SamplerStateInv /\ SampleShared => SamplerStateInv'
<1> SUFFICES ASSUME SamplerStateInv, SampleShared PROVE SamplerStateInv'
  OBVIOUS
<1>1. DeviceType' /\ CounterType'
  BY DEF SamplerStateInv, TypeOK, SampleShared, device, counter, DeviceType, CounterType
<1>2. WindowInv'
  BY DEF SamplerStateInv, SampleShared, counter, observed, WindowInv
<1> QED BY <1>1, <1>2, TypeParts DEF SamplerStateInv, TypeOK, DeviceType, CounterType

LEMMA CannotOpenKeeps == SamplerStateInv /\ SampleCannotOpen => SamplerStateInv'
<1> SUFFICES ASSUME SamplerStateInv, SampleCannotOpen PROVE SamplerStateInv'
  OBVIOUS
<1>1. PICK o \in Opens :
        /\ authority' = o.authority /\ failures' = o.failures /\ opened' = FALSE
        /\ reading' = 0 /\ outcome' = "failed"
        /\ UNCHANGED <<counter, observed>>
  BY DEF SampleCannotOpen
<1>2. DeviceType'
  <2>1. DeviceType
    BY TypeParts DEF SamplerStateInv
  <2> QED BY <1>1, <2>1, OpensTypes DEF DeviceType
<1>3. CounterType' /\ WindowInv'
  BY <1>1 DEF SamplerStateInv, TypeOK, CounterType, WindowInv, counter, observed
<1> QED BY <1>2, <1>3 DEF SamplerStateInv, TypeOK, DeviceType, CounterType

LEMMA CannotQueryKeeps == SamplerStateInv /\ SampleCannotQuery => SamplerStateInv'
<1> SUFFICES ASSUME SamplerStateInv, SampleCannotQuery PROVE SamplerStateInv'
  OBVIOUS
<1>1. PICK o \in Opens : \E q \in Queries(o.authority) :
       /\ o.ok /\ ~ q.ok
       /\ authority' = q.authority
       /\ IF o.failures + 1 >= FailureLimit
          THEN /\ opened' = FALSE /\ failures' = FailureLimit
               /\ baseline' = FALSE /\ Reset
          ELSE /\ opened' = TRUE /\ failures' = o.failures + 1
               /\ UNCHANGED <<counter, observed>>
       /\ reading' = 0 /\ outcome' = "failed"
  BY DEF SampleCannotQuery
<1>2. PICK q \in Queries(o.authority) :
       /\ authority' = q.authority
       /\ IF o.failures + 1 >= FailureLimit
          THEN /\ opened' = FALSE /\ failures' = FailureLimit
               /\ baseline' = FALSE /\ Reset
          ELSE /\ opened' = TRUE /\ failures' = o.failures + 1
               /\ UNCHANGED <<counter, observed>>
       /\ reading' = 0 /\ outcome' = "failed"
  BY <1>1
<1>3. /\ DeviceType /\ o.failures \in 0 .. FailureLimit
      /\ q.authority \in {"own", "ptrace"} /\ FailureLimit \in Nat
  <2>1. DeviceType
    BY TypeParts DEF SamplerStateInv
  <2>2. o.failures \in 0 .. FailureLimit /\ o.authority \in {"own", "ptrace"}
    BY <2>1, OpensTypes
  <2> QED BY <2>1, <2>2, QueriesTypes, DceConstants
<1>4. DeviceType'
  <2>1. opened' \in BOOLEAN /\ failures' \in 0 .. FailureLimit
    <3>1. CASE o.failures + 1 >= FailureLimit
      <4>1. FailureLimit \in 0 .. FailureLimit
        BY <1>3
      <4> QED BY <1>2, <3>1, <4>1
    <3>2. CASE ~ (o.failures + 1 >= FailureLimit)
      <4>1. o.failures + 1 \in 0 .. FailureLimit
        BY <1>3, <3>2
      <4> QED BY <1>2, <3>2, <4>1
    <3> QED BY <3>1, <3>2
  <2> QED BY <1>2, <1>3, <2>1 DEF DeviceType
<1>5. CounterType' /\ WindowInv'
  <2>1. CASE o.failures + 1 >= FailureLimit
    BY <1>2, <2>1, ResetKeeps
  <2>2. CASE ~ (o.failures + 1 >= FailureLimit)
    BY <1>2, <2>2 DEF SamplerStateInv, TypeOK, CounterType, WindowInv, counter, observed
  <2> QED BY <2>1, <2>2
<1> QED BY <1>4, <1>5, TypeParts DEF SamplerStateInv, TypeOK, DeviceType, CounterType

LEMMA CountsKeeps == SamplerStateInv /\ SampleCounts => SamplerStateInv' /\ authority' = authority
<1> SUFFICES ASSUME SamplerStateInv, SampleCounts PROVE SamplerStateInv' /\ authority' = authority
  OBVIOUS
<1> DEFINE Counted == \/ /\ outcome' = "counted"
                         /\ CountFirst \/ CountTooSoon \/ CountAfterGap \/ CountWarmup
                      \/ outcome' = "measured" /\ CountWindow
<1>1. PICK o \in Opens : \E q \in Queries(o.authority) :
       /\ o.ok /\ q.ok
       /\ authority' = q.authority /\ opened' = TRUE /\ failures' = 0 /\ Counted
  BY DEF SampleCounts
<1> HIDE DEF Counted
<1>2. PICK q \in Queries(o.authority) :
       /\ q.ok /\ authority' = q.authority /\ opened' = TRUE /\ failures' = 0 /\ Counted
  BY <1>1
<1>3. DeviceType /\ authority' = authority
  <2>1. DeviceType
    BY TypeParts DEF SamplerStateInv
  <2>2. o.authority \in {"own", "ptrace"} /\ o.authority = authority
    BY <1>1, <2>1, OpensTypes
  <2> QED BY <1>2, <2>1, <2>2, QueriesTypes
<1>4. DeviceType'
  <2>1. outcome' \in {"counted", "measured"}
    BY <1>2 DEF Counted
  <2>2. failures' \in 0 .. FailureLimit
    BY <1>2, DceConstants
  <2> QED BY <1>2, <1>3, <2>1, <2>2 DEF DeviceType
<1>5. CounterType' /\ WindowInv'
  <2>1. CASE CountFirst
    BY <2>1 DEF CountFirst, SamplerStateInv, TypeOK, CounterType, WindowInv, observed
  <2>2. CASE CountTooSoon
    BY <2>2 DEF CountTooSoon, SamplerStateInv, TypeOK, CounterType, WindowInv, counter, observed
  <2>3. CASE CountAfterGap
    BY <2>3, ResetKeeps DEF CountAfterGap, ResetKeepingBaseline
  <2>4. CASE CountWarmup
    <3>1. warmup' \in 0 .. 1
      BY <2>4 DEF CountWarmup, SamplerStateInv, TypeOK
    <3> QED BY <2>4, <3>1 DEF CountWarmup, SamplerStateInv, TypeOK, CounterType, WindowInv, observed
  <2>5. CASE CountWindow
    BY <2>5, WindowKeeps
  <2> QED BY <1>2, <2>1, <2>2, <2>3, <2>4, <2>5 DEF Counted
<1> QED BY <1>3, <1>4, <1>5, TypeParts DEF SamplerStateInv, TypeOK, DeviceType, CounterType

LEMMA ControllerResetKeeps == SamplerStateInv /\ ControllerReset => SamplerStateInv'
<1> SUFFICES ASSUME SamplerStateInv, ControllerReset PROVE SamplerStateInv'
  OBVIOUS
<1>1. CounterType' /\ WindowInv'
  BY ResetKeeps DEF ControllerReset
<1>2. DeviceType'
  BY DEF ControllerReset, SamplerStateInv, TypeOK, DeviceType, device
<1> QED BY <1>1, <1>2 DEF SamplerStateInv, TypeOK, DeviceType, CounterType

LEMMA SamplerNext == SamplerStateInv /\ [Next]_vars => SamplerStateInv'
<1> SUFFICES ASSUME SamplerStateInv, [Next]_vars PROVE SamplerStateInv'
  OBVIOUS
<1>1. CASE Next
  BY <1>1, SharedKeeps, CannotOpenKeeps, CannotQueryKeeps, CountsKeeps, ControllerResetKeeps
     DEF Next, Sample
<1>2. CASE UNCHANGED vars
  <2>1. DeviceType' /\ CounterType' /\ WindowInv'
    BY <1>2 DEF vars, device, counter, observed, SamplerStateInv, TypeOK, DeviceType, CounterType, WindowInv
  <2> QED BY <2>1 DEF SamplerStateInv, TypeOK, DeviceType, CounterType
<1> QED BY <1>1, <1>2

LEMMA SamplerInvariant == Spec => []SamplerStateInv
  BY SamplerInit, SamplerNext, PTL DEF Spec

\* Whatever the device answers, the sampler's state stays in its types, streaks
\* stay under their cap, and a word that showed nothing in three windows in a row
\* is not the selected one (invalid_windows_ of dce_counter_sampler.cpp).
THEOREM NoDeadCounterKept == Spec => []SelectionInv
<1>1. SamplerStateInv => SelectionInv
  <2> SUFFICES ASSUME SamplerStateInv PROVE SelectionInv
    OBVIOUS
  <2>1. TypeOK /\ WindowInv
    BY DEF SamplerStateInv
  <2>2. DarkWordDropped
    <3> SUFFICES ASSUME selected # NoWord PROVE dark[selected] < InvalidLimit
      BY DEF DarkWordDropped
    <3>1. selected \in Words /\ invalid \in Int
      BY <2>1 DEF TypeOK
    <3>2. dark[selected] \in Int
      BY <2>1, <3>1 DEF WindowInv, InvalidLimit
    <3> QED BY <2>1, <3>1, <3>2 DEF WindowInv, InvalidLimit
  <2> QED BY <2>1, <2>2 DEF SelectionInv
<1> QED BY <1>1, SamplerInvariant, PTL

\* The authority changes only in a sample that fails and reads nothing: ensure_open
\* and the query never report success after a window they could not close.
THEOREM LeaksAreReported == Spec => LeakIsReported
<1>1. SamplerStateInv /\ [Next]_vars
         => [authority' # authority => outcome' = "failed" /\ reading' = 0]_vars
  <2> SUFFICES ASSUME SamplerStateInv, Next, authority' # authority
               PROVE  outcome' = "failed" /\ reading' = 0
    OBVIOUS
  <2>1. CASE SampleShared \/ ControllerReset
    BY <2>1 DEF SampleShared, ControllerReset, device
  <2>2. CASE SampleCounts
    BY <2>2, CountsKeeps
  <2>3. CASE SampleCannotOpen
    BY <2>3 DEF SampleCannotOpen
  <2>4. CASE SampleCannotQuery
    BY <2>4 DEF SampleCannotQuery
  <2> QED BY <2>1, <2>2, <2>3, <2>4 DEF Next, Sample
<1> QED BY <1>1, SamplerInvariant, PTL DEF Spec, LeakIsReported

------------------------------------------------------------------------------
(***************************************************************************)
(* VideoOutSampler: counters that wrap, rates, the invariant.              *)
(***************************************************************************)
Values == 0 .. Modulus - 1

LEMMA ModulusType == Modulus \in Nat \ {0}
  BY VideoOutConstants

\* A counter that has wrapped at most once.
LEMMA WrapAround ==
    ASSUME NEW x \in Nat, x < 2 * Modulus
    PROVE  x % Modulus = (IF x < Modulus THEN x ELSE x - Modulus) /\ x % Modulus \in Values
<1> DEFINE M == Modulus
<1>0. M \in Nat \ {0}
  BY ModulusType
<1> HIDE DEF M
<1>1. CASE x < M
  <2>1. x = M * 0 + x /\ x \in 0 .. M - 1
    BY <1>0, <1>1
  <2>2. x % M = x
    BY <1>0, <2>1, DivisionIsUnique
  <2> QED BY <1>1, <2>1, <2>2 DEF M, Values
<1>2. CASE x >= M
  <2> DEFINE r == x - M
  <2>0. x < 2 * M
    BY DEF M
  <2>1. x = M * 1 + r /\ r \in 0 .. M - 1
    BY <1>0, <1>2, <2>0
  <2> HIDE DEF r
  <2>2. x % M = r
    BY <1>0, <2>1, DivisionIsUnique
  <2>3. ~ (x < M)
    BY <1>0, <1>2
  <2>4. x % M = (IF x < M THEN x ELSE x - M) /\ x % M \in 0 .. M - 1
    BY <2>1, <2>2, <2>3 DEF r
  <2> QED BY <2>4 DEF M, Values
<1> QED BY <1>0, <1>1, <1>2

LEMMA DeltaOfAdvance ==
    ASSUME NEW from \in Values, NEW n \in Values
    PROVE  Delta((from + n) % Modulus, from) = n
<1> DEFINE M == Modulus
           now == (from + n) % M
<1>0. M \in Nat \ {0} /\ from \in 0 .. M - 1 /\ n \in 0 .. M - 1
  BY ModulusType DEF Values
<1>1. now = (IF from + n < M THEN from + n ELSE from + n - M) /\ now \in 0 .. M - 1
  BY <1>0, WrapAround DEF Values
<1> HIDE DEF M, now
<1>2. now - from + M \in Nat /\ now - from + M < 2 * M
  BY <1>0, <1>1
<1>3. (now - from + M) % M = (IF now - from + M < M THEN now - from + M ELSE (now - from + M) - M)
  BY <1>2, WrapAround DEF M
<1>4. (now - from + M) % M = n
  BY <1>0, <1>1, <1>3
<1> QED BY <1>4 DEF M, now, Delta

LEMMA DeltaRange ==
    ASSUME NEW now \in Values, NEW then \in Values
    PROVE  /\ Delta(now, then) \in Values
           /\ now < then => Delta(now, then) = now - then + Modulus
<1> DEFINE M == Modulus
<1>0. M \in Nat \ {0} /\ now \in 0 .. M - 1 /\ then \in 0 .. M - 1
  BY ModulusType DEF Values
<1> HIDE DEF M
<1>1. now - then + M \in Nat /\ now - then + M < 2 * M
  BY <1>0
<1>2. /\ (now - then + M) % M = (IF now - then + M < M THEN now - then + M ELSE (now - then + M) - M)
      /\ (now - then + M) % M \in Values
  BY <1>1, WrapAround DEF M
<1>3. now < then => (now - then + M) % M = now - then + M
  BY <1>0, <1>2
<1> QED BY <1>2, <1>3 DEF M, Delta

LEMMA AdvanceTwice ==
    ASSUME NEW from \in Values, NEW n \in Nat, NEW m \in Nat, n + m < Modulus
    PROVE  (((from + n) % Modulus) + m) % Modulus = (from + (n + m)) % Modulus
<1> DEFINE M == Modulus
           mid == (from + n) % M
<1>0. M \in Nat \ {0} /\ from \in 0 .. M - 1 /\ n + m < M
  BY ModulusType DEF Values
<1>1. mid = (IF from + n < M THEN from + n ELSE from + n - M) /\ mid \in 0 .. M - 1
  BY <1>0, WrapAround DEF Values
<1> HIDE DEF mid, M
<1> DEFINE u == mid + m
           v == from + (n + m)
<1>2. u \in Nat /\ u < 2 * M /\ v \in Nat /\ v < 2 * M
  BY <1>0, <1>1
<1>3. u = mid + m /\ v = from + (n + m)
  OBVIOUS
<1> HIDE DEF u, v
<1>4. u % M = (IF u < M THEN u ELSE u - M)
  BY <1>2, WrapAround DEF M
<1>5. v % M = (IF v < M THEN v ELSE v - M)
  BY <1>2, WrapAround DEF M
<1>6. u % M = v % M
  BY <1>0, <1>1, <1>2, <1>3, <1>4, <1>5
<1> QED BY <1>6 DEF M, mid, u, v

\* Rates: what is shown lies in 0 .. MaxDisplay, and a rate that is not discarded
\* bounds the frames of its window.
LEMMA RateBounds ==
    ASSUME NEW d \in Nat, NEW t \in MinWindow .. MaxWindow
    PROVE  /\ Rounded(Tenths(d, t)) \in 0 .. MaxDisplay
           /\ Tenths(d, t) <= MaxTenths => d <= 13 * t
           /\ (MaxTenths * t) \div 100 = 13 * t
<1> DEFINE q == (d * 100) \div t
<1>0. t \in Nat \ {0} /\ t <= 30 /\ d * 100 \in Nat
  BY DEF MinWindow, MaxWindow
<1>1. q \in Nat /\ (d * 100) % t \in 0 .. t - 1 /\ d * 100 = t * q + ((d * 100) % t)
  BY <1>0, Division
<1>2. Tenths(d, t) = q
  BY DEF Tenths
<1> HIDE DEF q
<1>3. Rounded(q) \in 0 .. MaxDisplay
  <2>1. (q + 5) \div 10 \in Nat
    BY <1>1
  <2> QED BY <2>1 DEF Rounded, Least, MaxDisplay
<1>4. q <= 1300 => d <= 13 * t
  <2> SUFFICES ASSUME q <= 1300 PROVE d <= 13 * t
    OBVIOUS
  <2>1. t * q <= t * 1300
    BY <1>0, <1>1
  <2>2. t * q \in Int /\ t * 1300 = 1300 * t
    BY <1>0, <1>1
  <2>3. d * 100 <= 1300 * t + 29
    BY <1>0, <1>1, <2>1, <2>2
  <2> QED BY <1>0, <2>3
<1>5. (1300 * t) \div 100 = 13 * t
  <2>1. 1300 * t = 100 * (13 * t) + 0 /\ 1300 * t \in Nat /\ 13 * t \in Int
    BY <1>0
  <2> QED BY <2>1, DivisionIsUnique
<1> QED BY <1>2, <1>3, <1>4, <1>5 DEF MaxTenths

Candidate == [cell : Cells, first : Values, second : Unread .. Modulus - 1, third : Unread .. Modulus - 1]

SearchType ==
    /\ stage \in {"idle", "scan", "second", "third", "select", "attached", "failed"}
    /\ voCounter \in Cells \cup {NoCell}
    /\ stage = "attached" => voCounter \in Cells
    /\ candidates \in Seq(Candidate) /\ Len(candidates) <= MaxCandidates
    /\ memory \in [Cells -> Values]

SampleType ==
    /\ voBaseline \in BOOLEAN /\ voWarmup \in 0 .. 1 /\ previous \in Values
    /\ elapsed \in 0 .. 1 /\ voReading \in None .. MaxDisplay
    /\ passed \in Nat /\ setBack \in BOOLEAN

\* The counter stands where the frames since the baseline have taken it; at most
\* one sample was too soon to count.
BaselineInv ==
    /\ voBaseline => stage = "attached"
    /\ elapsed = 0 \/ ~ voBaseline => passed = 0
    /\ 2 * passed < Modulus
    /\ voBaseline =>
          IF setBack THEN memory[voCounter] <= passed
          ELSE memory[voCounter] = (previous + passed) % Modulus

VideoOutInv == SearchType /\ SampleType /\ DistinctCandidates /\ BaselineInv /\ ReadingIsTrueRate

LEMMA StartsAreValues == Starts \subseteq Values /\ Steps \subseteq Values /\ Frames \subseteq Values
  BY VideoOutConstants DEF Values

LEMMA ZeroIsValue == 0 \in Values
  BY ModulusType DEF Values

LEMMA Forgotten ==
    ASSUME candidates = <<>>, voBaseline = FALSE, voWarmup = 1, previous = 0, elapsed = 0,
           voReading = None, passed = 0, setBack = FALSE, memory \in [Cells -> Starts],
           voCounter = NoCell, stage = "idle"
    PROVE  VideoOutInv
<1>1. SearchType
  <2>1. memory \in [Cells -> Values]
    BY StartsAreValues
  <2>2. candidates \in Seq(Candidate) /\ Len(candidates) = 0
    OBVIOUS
  <2>3. Len(candidates) <= MaxCandidates
    BY <2>2, VideoOutConstants
  <2> QED BY <2>1, <2>2, <2>3 DEF SearchType
<1>2. SampleType
  <2>1. voWarmup \in 0 .. 1 /\ elapsed \in 0 .. 1 /\ passed \in Nat /\ voReading \in None .. MaxDisplay
    BY DEF None, MaxDisplay
  <2> QED BY <2>1, ZeroIsValue DEF SampleType
<1>3. DistinctCandidates
  BY DEF DistinctCandidates
<1>4. BaselineInv
  BY ModulusType DEF BaselineInv
<1>5. ReadingIsTrueRate
  BY DEF ReadingIsTrueRate
<1> QED BY <1>1, <1>2, <1>3, <1>4, <1>5 DEF VideoOutInv

LEMMA VideoOutInvInit == VideoOutInit => VideoOutInv
  BY Forgotten DEF VideoOutInit

\* The steps of the search leave the samples alone.
LEMMA SearchKeepsSamples ==
    ASSUME VideoOutInv, ~ voBaseline, UNCHANGED <<sampler, elapsed, voReading, truth>>
    PROVE  SampleType' /\ BaselineInv' /\ ReadingIsTrueRate'
<1>1. UNCHANGED <<voBaseline, voWarmup, previous, elapsed, voReading, passed, setBack, window>>
  BY DEF sampler, truth
<1>2. SampleType'
  BY <1>1 DEF VideoOutInv, SampleType
<1>3. BaselineInv'
  BY <1>1 DEF VideoOutInv, BaselineInv
<1>4. ReadingIsTrueRate'
  BY <1>1 DEF VideoOutInv, ReadingIsTrueRate
<1> QED BY <1>2, <1>3, <1>4

LEMMA NotYet == VideoOutInv /\ stage # "attached" => ~ voBaseline
  BY DEF VideoOutInv, BaselineInv

LEMMA SearchSimple ==
    ASSUME VideoOutInv, ResolveFixed \/ BeginScan \/ EndScan
    PROVE  VideoOutInv'
<1>1. stage # "attached" /\ UNCHANGED <<memory, candidates>> /\ UNCHANGED <<sampler, elapsed, voReading, truth>>
  BY DEF ResolveFixed, BeginScan, EndScan
<1>2. /\ stage' \in {"scan", "second", "attached", "failed"} /\ voCounter' \in Cells \cup {NoCell}
      /\ stage' = "attached" => voCounter' \in Cells
  BY DEF ResolveFixed, BeginScan, EndScan, VideoOutInv, SearchType
<1>3. SearchType'
  BY <1>1, <1>2 DEF VideoOutInv, SearchType
<1>4. DistinctCandidates'
  BY <1>1 DEF VideoOutInv, DistinctCandidates
<1> QED BY <1>1, <1>3, <1>4, NotYet, SearchKeepsSamples DEF VideoOutInv

LEMMA ScanKeepsInv == ASSUME VideoOutInv, ScanRecord PROVE VideoOutInv'
<1>1. /\ stage = "scan" /\ stage' = stage /\ UNCHANGED <<memory, voCounter>>
      /\ UNCHANGED <<sampler, elapsed, voReading, truth>>
  BY DEF ScanRecord
<1>2. PICK cell \in Cells : candidates' = AddCandidate(cell, candidates)
  BY DEF ScanRecord
<1>3. /\ candidates \in Seq(Candidate) /\ Len(candidates) <= MaxCandidates /\ MaxCandidates \in Nat
      /\ memory \in [Cells -> Values] /\ Len(candidates) \in Nat
  BY VideoOutConstants DEF VideoOutInv, SearchType
<1>4. /\ candidates' \in Seq(Candidate) /\ Len(candidates') <= MaxCandidates
      /\ DistinctCandidates'
  <2>1. CASE (\E i \in DOMAIN candidates : candidates[i].cell = cell) \/ Len(candidates) = MaxCandidates
    <3>1. candidates' = candidates
      BY <1>2, <2>1 DEF AddCandidate
    <3> QED BY <1>3, <3>1 DEF VideoOutInv, DistinctCandidates
  <2>2. CASE ~ (\E i \in DOMAIN candidates : candidates[i].cell = cell) /\ Len(candidates) # MaxCandidates
    <3> DEFINE c == [cell |-> cell, first |-> memory[cell], second |-> Unread, third |-> Unread]
    <3>1. candidates' = Append(candidates, c)
      BY <1>2, <2>2 DEF AddCandidate
    <3>2. c \in Candidate /\ c.cell = cell
      <4>1. Unread \in Unread .. Modulus - 1
        BY ModulusType DEF Unread
      <4> QED BY <1>3, <4>1 DEF Candidate
    <3> HIDE DEF c
    <3>3. /\ candidates' \in Seq(Candidate) /\ Len(candidates') = Len(candidates) + 1
          /\ candidates'[Len(candidates) + 1] = c
          /\ \A i \in 1 .. Len(candidates) : candidates'[i] = candidates[i]
      BY <1>3, <3>1, <3>2
    <3>4. DOMAIN candidates = 1 .. Len(candidates) /\ DOMAIN candidates' = 1 .. Len(candidates) + 1
      BY <1>3, <3>3
    <3>5. DistinctCandidates'
      <4> SUFFICES ASSUME NEW i \in 1 .. Len(candidates) + 1, NEW j \in 1 .. Len(candidates) + 1,
                          candidates'[i].cell = candidates'[j].cell
                   PROVE  i = j
        BY <3>4 DEF DistinctCandidates
      <4>1. \A k \in 1 .. Len(candidates) : candidates'[k].cell = candidates[k].cell /\ candidates[k].cell # cell
        BY <2>2, <3>3, <3>4
      <4>2. candidates'[Len(candidates) + 1].cell = cell
        BY <3>2, <3>3
      <4>3. i = Len(candidates) + 1 \/ i \in 1 .. Len(candidates)
        BY <1>3
      <4>4. j = Len(candidates) + 1 \/ j \in 1 .. Len(candidates)
        BY <1>3
      <4> QED BY <3>4, <4>1, <4>2, <4>3, <4>4 DEF VideoOutInv, DistinctCandidates
    <3>6. Len(candidates') <= MaxCandidates
      BY <1>3, <2>2, <3>3
    <3> QED BY <3>3, <3>5, <3>6
  <2> QED BY <2>1, <2>2
<1>5. SearchType'
  BY <1>1, <1>4 DEF VideoOutInv, SearchType
<1> QED BY <1>1, <1>4, <1>5, NotYet, SearchKeepsSamples DEF VideoOutInv

LEMMA AdvancedMemory ==
    ASSUME memory \in [Cells -> Values], NEW step \in [Cells -> Steps], Advance(step)
    PROVE  memory' \in [Cells -> Values]
<1>1. \A c \in Cells : (memory[c] + step[c]) % Modulus \in Values
  <2> SUFFICES ASSUME NEW c \in Cells PROVE (memory[c] + step[c]) % Modulus \in Values
    OBVIOUS
  <2>1. memory[c] \in Values /\ step[c] \in Values
    BY StartsAreValues
  <2>2. memory[c] + step[c] \in Nat
    BY <2>1 DEF Values
  <2> QED BY <2>2, Division, ModulusType DEF Values
<1> QED BY <1>1 DEF Advance

LEMMA WatchKeepsInv == ASSUME VideoOutInv, ReadSecond \/ ReadThird PROVE VideoOutInv'
<1>1. /\ stage # "attached" /\ stage' \in {"third", "select"} /\ UNCHANGED voCounter
      /\ UNCHANGED <<sampler, elapsed, voReading, truth>>
  BY DEF ReadSecond, ReadThird
<1>2. /\ candidates \in Seq(Candidate) /\ Len(candidates) <= MaxCandidates /\ Len(candidates) \in Nat
      /\ memory \in [Cells -> Values] /\ DOMAIN candidates = 1 .. Len(candidates)
  BY DEF VideoOutInv, SearchType
<1>3. memory' \in [Cells -> Values]
  BY <1>2, AdvancedMemory DEF ReadSecond, ReadThird
<1>4. \A c \in Candidate : \A v \in Unread .. Modulus - 1 :
         /\ [c EXCEPT !.second = v] \in Candidate /\ [c EXCEPT !.second = v].cell = c.cell
         /\ [c EXCEPT !.third = v] \in Candidate /\ [c EXCEPT !.third = v].cell = c.cell
  BY DEF Candidate
<1>5. \A c \in Candidate : memory'[c.cell] \in Unread .. Modulus - 1
  <2>1. \A c \in Candidate : memory'[c.cell] \in Values
    BY <1>3 DEF Candidate
  <2> QED BY <2>1, ModulusType DEF Values, Unread
<1>6. Unread \in Unread .. Modulus - 1
  BY ModulusType DEF Unread
<1>7. \A i \in 1 .. Len(candidates) : candidates[i] \in Candidate
  BY <1>2
<1>8. /\ DOMAIN candidates' = 1 .. Len(candidates) /\ candidates' = [i \in 1 .. Len(candidates) |-> candidates'[i]]
      /\ \A i \in 1 .. Len(candidates) :
            candidates'[i] \in Candidate /\ candidates'[i].cell = candidates[i].cell
  <2>1. CASE ReadSecond
    <3>1. PICK gone \in SUBSET Cells :
            candidates' = [i \in 1 .. Len(candidates) |->
                [candidates[i] EXCEPT !.second =
                    IF candidates[i].cell \in gone THEN Unread ELSE memory'[candidates[i].cell]]]
      BY <1>2, <2>1 DEF ReadSecond
    <3>2. \A i \in 1 .. Len(candidates) : \E v \in Unread .. Modulus - 1 :
             candidates'[i] = [candidates[i] EXCEPT !.second = v]
      BY <1>5, <1>6, <1>7, <3>1
    <3>3. \A i \in 1 .. Len(candidates) :
             candidates'[i] \in Candidate /\ candidates'[i].cell = candidates[i].cell
      <4> SUFFICES ASSUME NEW i \in 1 .. Len(candidates)
                   PROVE  candidates'[i] \in Candidate /\ candidates'[i].cell = candidates[i].cell
        OBVIOUS
      <4>1. PICK v \in Unread .. Modulus - 1 : candidates'[i] = [candidates[i] EXCEPT !.second = v]
        BY <3>2
      <4>2. candidates[i] \in Candidate
        BY <1>7
      <4> DEFINE c == candidates[i]
      <4>3. [c EXCEPT !.second = v] \in Candidate /\ [c EXCEPT !.second = v].cell = c.cell
        <5> HIDE DEF c
        <5> QED BY <1>4, <4>2 DEF c
      <4> QED BY <4>1, <4>3, Zenon
    <3> QED BY <3>1, <3>3
  <2>2. CASE ReadThird
    <3>1. PICK gone \in SUBSET Cells :
            candidates' = [i \in 1 .. Len(candidates) |->
                [candidates[i] EXCEPT !.third =
                    IF candidates[i].second = Unread \/ candidates[i].cell \in gone THEN Unread
                    ELSE memory'[candidates[i].cell]]]
      BY <1>2, <2>2 DEF ReadThird
    <3>2. \A i \in 1 .. Len(candidates) : \E v \in Unread .. Modulus - 1 :
             candidates'[i] = [candidates[i] EXCEPT !.third = v]
      BY <1>5, <1>6, <1>7, <3>1
    <3>3. \A i \in 1 .. Len(candidates) :
             candidates'[i] \in Candidate /\ candidates'[i].cell = candidates[i].cell
      <4> SUFFICES ASSUME NEW i \in 1 .. Len(candidates)
                   PROVE  candidates'[i] \in Candidate /\ candidates'[i].cell = candidates[i].cell
        OBVIOUS
      <4>1. PICK v \in Unread .. Modulus - 1 : candidates'[i] = [candidates[i] EXCEPT !.third = v]
        BY <3>2
      <4>2. candidates[i] \in Candidate
        BY <1>7
      <4> DEFINE c == candidates[i]
      <4>3. [c EXCEPT !.third = v] \in Candidate /\ [c EXCEPT !.third = v].cell = c.cell
        <5> HIDE DEF c
        <5> QED BY <1>4, <4>2 DEF c
      <4> QED BY <4>1, <4>3, Zenon
    <3> QED BY <3>1, <3>3
  <2> QED BY <2>1, <2>2
<1>9. candidates' \in Seq(Candidate) /\ Len(candidates') = Len(candidates)
  BY <1>2, <1>8
<1>10. DistinctCandidates'
  BY <1>2, <1>8 DEF VideoOutInv, DistinctCandidates
<1>11. SearchType'
  BY <1>1, <1>2, <1>3, <1>9 DEF VideoOutInv, SearchType
<1> QED BY <1>1, <1>10, <1>11, NotYet, SearchKeepsSamples DEF VideoOutInv

\* The score is the jitter first: nothing scores 0 that jitters.
LEMMA ScoreIsNatural ==
    ASSUME NEW c \in Candidate, Plausible(c)
    PROVE  Score(c) \in Nat /\ (Score(c) = 0 => Jitter(c) = 0)
<1> DEFINE d == Delta(c.second, c.first)
           e == Delta(c.third, c.second)
<1>1. d \in 1 .. 45 /\ e \in 1 .. 45
  BY DEF Plausible
<1>2. Jitter(c) = Dist(d, e)
  BY DEF Jitter
<1>3. Score(c) = 1000 * Jitter(c)
          + 10 * Least(Dist(2 * (d + e), 30), Least(Dist(2 * (d + e), 60), Dist(2 * (d + e), 120)))
  BY DEF Score
<1> HIDE DEF d, e
<1>4. Jitter(c) \in Nat
  BY <1>1, <1>2 DEF Dist
<1> DEFINE off == Least(Dist(2 * (d + e), 30), Least(Dist(2 * (d + e), 60), Dist(2 * (d + e), 120)))
<1>5. off \in Nat
  BY <1>1 DEF Least, Dist
<1>6. Score(c) = 1000 * Jitter(c) + 10 * off
  BY <1>3
<1> HIDE DEF off
<1> QED BY <1>4, <1>5, <1>6

Good == {i \in DOMAIN candidates : Plausible(candidates[i])}

LEMMA WinnerIsBest ==
    ASSUME candidates \in Seq(Candidate)
    PROVE  \/ Good = {} /\ Winner = NoCell
           \/ \E i \in Good : /\ Winner = candidates[i].cell
                              /\ \A j \in Good : Score(candidates[i]) <= Score(candidates[j])
<1> DEFINE Wins(i) == \A j \in Good :
               \/ Score(candidates[i]) < Score(candidates[j])
               \/ Score(candidates[i]) = Score(candidates[j]) /\ i <= j
<1>1. \A i \in Good : i \in Nat /\ candidates[i] \in Candidate /\ Plausible(candidates[i])
  BY DEF Good
<1>2. \A i \in Good : Score(candidates[i]) \in Nat
  BY <1>1, ScoreIsNatural
<1>3. Winner = IF Good = {} THEN NoCell ELSE candidates[CHOOSE i \in Good : Wins(i)].cell
  BY DEF Winner, Good
<1>4. CASE Good = {}
  BY <1>3, <1>4
<1>5. CASE Good # {}
  <2> DEFINE scores == {Score(candidates[i]) : i \in Good}
  <2>1. scores \subseteq Nat /\ scores # {}
    BY <1>2, <1>5
  <2>2. PICK s \in scores : \A x \in scores : s <= x
    BY <2>1, LeastNatural
  <2> DEFINE best == {i \in Good : Score(candidates[i]) = s}
  <2>3. best \subseteq Nat /\ best # {}
    BY <1>1, <2>2
  <2>4. PICK i \in best : \A j \in best : i <= j
    BY <2>3, LeastNatural
  <2>5. Wins(i)
    <3> SUFFICES ASSUME NEW j \in Good
                 PROVE  \/ Score(candidates[i]) < Score(candidates[j])
                        \/ Score(candidates[i]) = Score(candidates[j]) /\ i <= j
      OBVIOUS
    <3>1. Score(candidates[i]) = s /\ s <= Score(candidates[j])
      BY <2>2, <2>4
    <3>2. Score(candidates[j]) = s => i <= j
      BY <2>4
    <3>3. s \in Nat /\ Score(candidates[j]) \in Nat
      BY <1>2, <2>4
    <3> HIDE DEF Score
    <3> QED BY <3>1, <3>2, <3>3
  <2>6. \E u \in Good : Wins(u)
    BY <2>4, <2>5
  <2> DEFINE w == CHOOSE u \in Good : Wins(u)
  <2> HIDE DEF Wins
  <2>7. w \in Good /\ Wins(w)
    BY <2>6
  <2>8. Winner = candidates[w].cell
    BY <1>3, <1>5
  <2> HIDE DEF w
  <2>9. \A j \in Good : Score(candidates[w]) <= Score(candidates[j])
    BY <1>2, <2>7 DEF Wins
  <2> QED BY <2>7, <2>8, <2>9
<1> QED BY <1>4, <1>5

LEMMA SelectKeepsInv == ASSUME VideoOutInv, Select PROVE VideoOutInv'
<1>1. /\ stage = "select" /\ UNCHANGED memory /\ UNCHANGED <<sampler, elapsed, voReading, truth>>
      /\ voCounter' = Winner /\ candidates' = <<>>
      /\ stage' = IF Winner = NoCell THEN "failed" ELSE "attached"
  BY DEF Select
<1>2. Winner = NoCell \/ Winner \in Cells
  <2>1. candidates \in Seq(Candidate)
    BY DEF VideoOutInv, SearchType
  <2>2. \A i \in Good : candidates[i].cell \in Cells
    <3>1. \A i \in Good : candidates[i] \in Candidate
      BY <2>1 DEF Good
    <3> QED BY <3>1 DEF Candidate
  <2> QED BY <2>1, <2>2, WinnerIsBest
<1>3. candidates' \in Seq(Candidate) /\ Len(candidates') <= MaxCandidates
  BY <1>1, VideoOutConstants
<1>4. SearchType'
  BY <1>1, <1>2, <1>3 DEF VideoOutInv, SearchType
<1>5. DistinctCandidates'
  BY <1>1 DEF DistinctCandidates
<1> QED BY <1>1, <1>4, <1>5, NotYet, SearchKeepsSamples DEF VideoOutInv

LEMMA FailKeepsInv == ASSUME VideoOutInv, SampleFails PROVE VideoOutInv'
<1>1. SearchType'
  <2>1. memory' \in [Cells -> Values]
    BY StartsAreValues DEF SampleFails
  <2>2. candidates' \in Seq(Candidate) /\ Len(candidates') = 0
    BY DEF SampleFails
  <2>3. Len(candidates') <= MaxCandidates
    BY <2>2, VideoOutConstants
  <2> QED BY <2>1, <2>2, <2>3 DEF SearchType, SampleFails
<1>2. SampleType'
  <2>1. /\ voWarmup' \in 0 .. 1 /\ elapsed' \in 0 .. 1 /\ passed' \in Nat
        /\ voReading' \in None .. MaxDisplay
    BY DEF SampleFails, None, MaxDisplay
  <2> QED BY <2>1, ZeroIsValue DEF SampleType, SampleFails
<1>3. DistinctCandidates'
  BY DEF DistinctCandidates, SampleFails
<1>4. BaselineInv'
  BY ModulusType DEF BaselineInv, SampleFails
<1>5. ReadingIsTrueRate'
  BY DEF ReadingIsTrueRate, SampleFails
<1> QED BY <1>1, <1>2, <1>3, <1>4, <1>5 DEF VideoOutInv

LEMMA SampleKeepsInv == ASSUME VideoOutInv, SampleCounter PROVE VideoOutInv'
<1>1. PICK pause \in Pauses, frames \in Frames, back \in BOOLEAN :
        LET now == IF back THEN frames ELSE (memory[voCounter] + frames) % Modulus
        IN  /\ memory' = [memory EXCEPT ![voCounter] = now]
            /\ Take(now, Least(elapsed + pause, MaxWindow + 1), passed + frames, setBack \/ back)
  BY DEF SampleCounter
<1> DEFINE now == IF back THEN frames ELSE (memory[voCounter] + frames) % Modulus
           time == Least(elapsed + pause, MaxWindow + 1)
           all == passed + frames
           moved == setBack \/ back
<1>2. memory' = [memory EXCEPT ![voCounter] = now] /\ Take(now, time, all, moved)
  BY <1>1
<1>3. stage = "attached" /\ UNCHANGED <<stage, candidates, voCounter>>
  BY DEF SampleCounter, search
<1>4. /\ voCounter \in Cells /\ memory \in [Cells -> Values] /\ previous \in Values
      /\ elapsed \in 0 .. 1 /\ passed \in Nat /\ setBack \in BOOLEAN /\ voBaseline \in BOOLEAN
      /\ 2 * passed < Modulus /\ voWarmup \in 0 .. 1
  BY <1>3 DEF VideoOutInv, SearchType, SampleType, BaselineInv
<1>5. /\ pause \in Nat \ {0} /\ frames \in Values /\ 2 * frames < Modulus /\ Modulus \in Nat \ {0}
      /\ frames \in Nat
  BY VideoOutConstants, StartsAreValues DEF Values
<1>6. now \in Values
  <2>1. memory[voCounter] \in Values
    BY <1>4
  <2>2. memory[voCounter] + frames \in Nat
    BY <1>5, <2>1 DEF Values
  <2>3. (memory[voCounter] + frames) % Modulus \in Values
    BY <1>5, <2>2, Division DEF Values
  <2> QED BY <1>5, <2>3
<1>7. all \in Nat /\ all < Modulus /\ all \in Values
  BY <1>4, <1>5 DEF Values
<1>8. /\ time \in Nat /\ time > 0 /\ time > elapsed /\ time <= MaxWindow + 1
      /\ elapsed = 0 => passed = 0
  <2>1. elapsed = 0 => passed = 0
    BY DEF VideoOutInv, BaselineInv
  <2> QED BY <1>4, <1>5, <2>1 DEF Least, MaxWindow
\* Where the counter stands after the game's frames.
<1>9. voBaseline => IF moved THEN now <= all ELSE now = (previous + all) % Modulus
  <2> SUFFICES ASSUME voBaseline
               PROVE  IF moved THEN now <= all ELSE now = (previous + all) % Modulus
    OBVIOUS
  <2>1. IF setBack THEN memory[voCounter] <= passed
        ELSE memory[voCounter] = (previous + passed) % Modulus
    BY DEF VideoOutInv, BaselineInv
  <2>2. CASE back
    BY <1>4, <1>5, <2>2
  <2>3. CASE ~ back /\ setBack
    <3>1. memory[voCounter] \in Nat /\ memory[voCounter] + frames <= all
      BY <1>4, <1>5, <2>1, <2>3 DEF Values
    <3>2. memory[voCounter] + frames < 2 * Modulus /\ memory[voCounter] + frames < Modulus
      BY <1>5, <1>7, <3>1
    <3>3. (memory[voCounter] + frames) % Modulus = memory[voCounter] + frames
      BY <1>5, <3>1, <3>2, WrapAround
    <3> QED BY <2>3, <3>1, <3>3
  <2>4. CASE ~ back /\ ~ setBack
    <3>1. memory[voCounter] = (previous + passed) % Modulus
      BY <2>1, <2>4
    <3>2. (memory[voCounter] + frames) % Modulus = (previous + (passed + frames)) % Modulus
      <4>1. passed + frames < Modulus
        BY <1>7
      <4>2. previous \in Values /\ passed \in Nat /\ frames \in Nat
        BY <1>4, <1>5
      <4>3. (((previous + passed) % Modulus) + frames) % Modulus = (previous + (passed + frames)) % Modulus
        BY <4>1, <4>2, AdvanceTwice
      <4> QED BY <3>1, <4>3, Zenon
    <3> QED BY <2>4, <3>2
  <2> QED BY <1>4, <2>2, <2>3, <2>4
<1>10. memory' \in [Cells -> Values] /\ memory'[voCounter'] = now
  BY <1>2, <1>3, <1>4, <1>6
<1>11. SearchType' /\ DistinctCandidates'
  BY <1>3, <1>10 DEF VideoOutInv, SearchType, DistinctCandidates
<1> HIDE DEF now, time, all, moved
<1>12. moved \in BOOLEAN
  BY <1>4 DEF moved
\* The counter stands at the new baseline.
<1>13. ASSUME Rebase(now) PROVE BaselineInv'
  <2>1. previous' = now /\ elapsed' = 0 /\ passed' = 0 /\ setBack' = FALSE
    BY <1>13 DEF Rebase
  <2>2. now \in Nat /\ now < Modulus
    BY <1>6, ModulusType DEF Values
  <2>3. (previous' + passed') % Modulus = now
    <3>1. previous' + passed' = now /\ now < 2 * Modulus
      BY <1>5, <2>1, <2>2
    <3> QED BY <2>2, <3>1, WrapAround
  <2>4. 2 * passed' < Modulus
    BY <1>5, <2>1
  <2> QED BY <1>3, <1>10, <2>1, <2>3, <2>4 DEF BaselineInv
<1>14. ASSUME Rebase(now), voWarmup' \in 0 .. 1, voReading' \in None .. MaxDisplay PROVE SampleType'
  <2>1. elapsed' \in 0 .. 1 /\ passed' \in Nat
    BY <1>14 DEF Rebase
  <2> QED BY <1>6, <1>14, <2>1 DEF Rebase, SampleType
<1>15. None \in None .. MaxDisplay
  BY DEF None, MaxDisplay
<1>16. ASSUME voReading' = None PROVE ReadingIsTrueRate'
  BY <1>16 DEF ReadingIsTrueRate
<1>17. CASE ~ voBaseline
  <2>1. Rebase(now) /\ voReading' = None /\ voWarmup' = voWarmup
    BY <1>2, <1>17 DEF Take
  <2> QED BY <1>4, <1>11, <1>13, <1>14, <1>15, <1>16, <2>1 DEF VideoOutInv
<1>18. CASE voBaseline /\ time > MaxWindow
  <2>1. Rebase(now) /\ voReading' = None /\ voWarmup' = 1
    BY <1>2, <1>18 DEF Take
  <2>2. voWarmup' \in 0 .. 1
    BY <2>1
  <2> QED BY <1>11, <1>13, <1>14, <1>15, <1>16, <2>1, <2>2 DEF VideoOutInv
<1>19. CASE voBaseline /\ time < MinWindow
  <2>0. ~ (time > MaxWindow)
    BY <1>8, <1>19 DEF MinWindow, MaxWindow
  <2>1. /\ elapsed' = time /\ passed' = all /\ setBack' = moved /\ voReading' = None
        /\ UNCHANGED <<voBaseline, voWarmup, previous>>
    BY <1>2, <1>19, <2>0 DEF Take, sampler
  <2>2. time = 1 /\ elapsed = 0 /\ passed = 0
    BY <1>4, <1>8, <1>19 DEF MinWindow
  <2>3. all = frames
    BY <1>5, <2>2 DEF all
  <2>4. SampleType'
    <3>1. elapsed' \in 0 .. 1
      BY <2>1, <2>2
    <3> QED BY <1>4, <1>7, <1>12, <1>15, <2>1, <3>1 DEF SampleType
  <2>5. 2 * passed' < Modulus /\ elapsed' # 0 /\ voBaseline'
    BY <1>5, <1>19, <2>1, <2>2, <2>3
  <2>6. BaselineInv'
    BY <1>3, <1>9, <1>10, <1>19, <2>1, <2>5 DEF BaselineInv
  <2> QED BY <1>11, <1>16, <2>1, <2>4, <2>6 DEF VideoOutInv
<1>20. CASE voBaseline /\ ~ (time > MaxWindow) /\ ~ (time < MinWindow)
  <2> DEFINE d == Delta(now, previous)
  <2>1. /\ voReading' = Measured(d, time) /\ voWarmup' = 0 /\ Rebase(now)
        /\ window' = [frames |-> all, time |-> time, setBack |-> moved, from |-> previous]
    BY <1>2, <1>20 DEF Take
  <2>2. time \in MinWindow .. MaxWindow
    BY <1>8, <1>20 DEF MinWindow, MaxWindow
  <2>3. d \in Values /\ d \in Nat /\ (now < previous => d = now - previous + Modulus)
    BY <1>4, <1>6, DeltaRange DEF Values
  <2>4. ~ moved => d = all
    <3>1. ~ moved => now = (previous + all) % Modulus
      BY <1>9, <1>20
    <3> QED BY <1>4, <1>7, <3>1, DeltaOfAdvance
  <2> HIDE DEF d
  <2>5. /\ Rounded(Tenths(d, time)) \in 0 .. MaxDisplay
        /\ Tenths(d, time) <= MaxTenths => d <= 13 * time
        /\ (MaxTenths * time) \div 100 = 13 * time
    BY <2>2, <2>3, RateBounds
  <2>6. voReading' \in None .. MaxDisplay
    BY <2>1, <2>5 DEF Measured, None, MaxDisplay
  <2>7. /\ window'.frames = all /\ window'.time = time
        /\ window'.setBack = moved /\ window'.from = previous
    BY <2>1
  <2>8. ReadingIsTrueRate'
    <3> SUFFICES ASSUME voReading' # None
                 PROVE  IF moved
                        THEN \/ previous <= all
                             \/ previous + (MaxTenths * time) \div 100 + 1 >= Modulus
                        ELSE voReading' = Rounded(Tenths(all, time))
      BY <2>7 DEF ReadingIsTrueRate
    <3>1. voReading' = Rounded(Tenths(d, time)) /\ ~ (Tenths(d, time) > MaxTenths)
      BY <2>1 DEF Measured
    <3>2. CASE ~ moved
      BY <2>4, <3>1, <3>2
    <3>3. CASE moved
      <4>1. Tenths(d, time) <= MaxTenths
        <5>1. Tenths(d, time) \in Int
          BY <2>2, <2>3 DEF Tenths, MinWindow
        <5> QED BY <3>1, <5>1 DEF MaxTenths
      <4>2. d <= 13 * time
        BY <2>5, <4>1
      <4>3. now <= all /\ now \in Nat /\ previous \in Nat
        BY <1>4, <1>6, <1>9, <1>20, <3>3 DEF Values
      <4>4. CASE now < previous
        <5>1. previous + 13 * time >= Modulus
          BY <1>5, <2>2, <2>3, <4>2, <4>3, <4>4
        <5>2. previous + (MaxTenths * time) \div 100 + 1 = previous + 13 * time + 1
          BY <2>5
        <5> QED BY <1>5, <1>8, <3>3, <4>3, <5>1, <5>2
      <4>5. CASE previous <= now
        BY <1>7, <3>3, <4>3, <4>5
      <4> QED BY <4>3, <4>4, <4>5
    <3> QED BY <1>12, <3>2, <3>3
  <2>9. voWarmup' \in 0 .. 1
    BY <2>1
  <2> QED BY <1>11, <1>13, <1>14, <2>1, <2>6, <2>8, <2>9 DEF VideoOutInv
<1> QED BY <1>4, <1>8, <1>17, <1>18, <1>19, <1>20

LEMMA VideoOutInvNext == VideoOutInv /\ [VideoOutNext]_videoOut => VideoOutInv'
<1> SUFFICES ASSUME VideoOutInv, [VideoOutNext]_videoOut PROVE VideoOutInv'
  OBVIOUS
<1>1. CASE ResolveFixed \/ BeginScan \/ EndScan
  BY <1>1, SearchSimple
<1>2. CASE ScanRecord
  BY <1>2, ScanKeepsInv
<1>3. CASE ReadSecond \/ ReadThird
  BY <1>3, WatchKeepsInv
<1>4. CASE Select
  BY <1>4, SelectKeepsInv
<1>5. CASE SampleCounter
  BY <1>5, SampleKeepsInv
<1>6. CASE SampleFails
  BY <1>6, FailKeepsInv
<1>7. CASE UNCHANGED videoOut
  <2>1. UNCHANGED <<stage, memory, candidates, voCounter, voBaseline, voWarmup, previous,
                    elapsed, voReading, passed, setBack, window>>
    BY <1>7 DEF videoOut, search, sampler, truth
  <2> QED BY <2>1 DEF VideoOutInv, SearchType, SampleType, DistinctCandidates, BaselineInv, ReadingIsTrueRate
<1> QED BY <1>1, <1>2, <1>3, <1>4, <1>5, <1>6, <1>7 DEF VideoOutNext

LEMMA VideoOutInvSuffices == VideoOutInv => SamplerInv
<1> SUFFICES ASSUME VideoOutInv PROVE SamplerInv
  OBVIOUS
<1>1. elapsed \in 0 .. MaxWindow + 1
  BY DEF VideoOutInv, SampleType, MaxWindow
<1>2. VideoOutTypeOK
  BY <1>1 DEF VideoOutInv, SearchType, SampleType, VideoOutTypeOK, Values
<1> QED BY <1>2 DEF SamplerInv, VideoOutInv

(***************************************************************************)
(* Every rate that sample() returns is the rate at which the game flipped  *)
(* since the baseline, whatever the counter did at its wrap and however    *)
(* many samples came too soon; a counter that was set back gives a reading *)
(* only where the limits cannot tell it from a wrap; and the table of the  *)
(* search holds no counter twice.                                          *)
(***************************************************************************)
THEOREM ReadingsAreTrueRates == VideoOutSpec => []SamplerInv
<1>1. VideoOutSpec => []VideoOutInv
  BY VideoOutInvInit, VideoOutInvNext, PTL DEF VideoOutSpec
<1> QED BY <1>1, VideoOutInvSuffices, PTL

SteadyWins ==
    stage = "select" =>
         \A i \in DOMAIN candidates :
            (Plausible(candidates[i]) /\ Score(candidates[i]) = 0) =>
                \E j \in DOMAIN candidates :
                    candidates[j].cell = voCounter' /\ Jitter(candidates[j]) = 0

LEMMA SelectTakesSteady ==
    ASSUME VideoOutInv, VideoOutNext PROVE SteadyWins
<1> SUFFICES ASSUME stage = "select", NEW i \in DOMAIN candidates,
                    Plausible(candidates[i]), Score(candidates[i]) = 0
             PROVE  \E j \in DOMAIN candidates :
                       candidates[j].cell = voCounter' /\ Jitter(candidates[j]) = 0
  BY DEF SteadyWins
<1>1. Select
  BY DEF VideoOutNext, ResolveFixed, BeginScan, ScanRecord, EndScan, ReadSecond, ReadThird,
         SampleCounter, SampleFails
<1>2. candidates \in Seq(Candidate) /\ i \in Good
  BY DEF VideoOutInv, SearchType, Good
<1>3. PICK j \in Good : /\ Winner = candidates[j].cell
                        /\ \A k \in Good : Score(candidates[j]) <= Score(candidates[k])
  BY <1>2, WinnerIsBest
<1>4. j \in DOMAIN candidates /\ Plausible(candidates[j]) /\ candidates[j] \in Candidate
  BY <1>2 DEF Good
<1>5. Score(candidates[j]) \in Nat /\ (Score(candidates[j]) = 0 => Jitter(candidates[j]) = 0)
  BY <1>4, ScoreIsNatural
<1>6. Score(candidates[j]) <= 0
  BY <1>2, <1>3
<1>7. Jitter(candidates[j]) = 0
  BY <1>5, <1>6
<1>8. voCounter' = candidates[j].cell
  BY <1>1, <1>3 DEF Select
<1> QED BY <1>4, <1>7, <1>8

(***************************************************************************)
(* The search never ends with a jittering counter while one of those it    *)
(* watched flips exactly like a display.                                   *)
(***************************************************************************)
THEOREM SteadyCounterIsChosen == VideoOutSpec => SteadyCounterWins
<1>1. VideoOutSpec => []VideoOutInv
  BY VideoOutInvInit, VideoOutInvNext, PTL DEF VideoOutSpec
<1>2. VideoOutInv /\ [VideoOutNext]_videoOut => [SteadyWins]_videoOut
  BY SelectTakesSteady
<1> QED BY <1>1, <1>2, PTL DEF VideoOutSpec, SteadyCounterWins, SteadyWins

------------------------------------------------------------------------------
(***************************************************************************)
(* PageWalk: addresses, pages, translate, the invariant.                   *)
(***************************************************************************)
\* The bit that the index of a level takes from an address.
LEMMA IndexIsBit ==
    ASSUME NEW a \in Nat, NEW n \in Nat \ {0}
    PROVE  Index(a, n) \in {0, 1} /\ a % (2 * n) = n * Index(a, n) + (a % n)
<1> DEFINE q == a \div n
           r == a % n
           k == q \div 2
           b == q % 2
<1>1. q \in Nat /\ r \in 0 .. n - 1 /\ a = n * q + r
  BY Division
<1> HIDE DEF q, r
<1>2. b \in 0 .. 1 /\ k \in Nat /\ q = 2 * k + b
  BY <1>1, Division
<1>3. Index(a, n) = b
  BY DEF Index, q
<1> HIDE DEF k, b
<1> DEFINE m == 2 * n
           s == n * b + r
<1>4. a = m * k + s
  <2>1. n * q = n * (2 * k) + n * b
    BY <1>1, <1>2
  <2>2. n * (2 * k) = (2 * n) * k
    BY <1>2
  <2>3. n * (2 * k) \in Int /\ n * b \in Int
    BY <1>2
  <2> QED BY <1>1, <2>1, <2>2, <2>3
<1>5. s \in 0 .. m - 1
  <2>1. b = 0 \/ b = 1
    BY <1>2
  <2> QED BY <1>1, <2>1
<1>6. m \in Nat \ {0}
  OBVIOUS
<1>7. a % m = s
  <2> HIDE DEF m, s
  <2> QED BY <1>2, <1>4, <1>5, <1>6, DivisionIsUnique
<1>8. a % (2 * n) = n * Index(a, n) + (a % n)
  BY <1>3, <1>7, Zenon DEF r, s, m
<1>9. Index(a, n) \in {0, 1}
  BY <1>2, <1>3
<1> QED BY <1>8, <1>9

\* An address in the i-th half of 2 * n addresses has the index i.
LEMMA IndexOfHalf ==
    ASSUME NEW a \in Nat, NEW n \in Nat \ {0}, NEW i \in {0, 1}, NEW r \in 0 .. n - 1,
           a % (2 * n) = n * i + r
    PROVE  Index(a, n) = i /\ a % n = r
<1>1. Index(a, n) \in {0, 1} /\ a % (2 * n) = n * Index(a, n) + (a % n) /\ a % n \in 0 .. n - 1
  BY IndexIsBit, Division
<1>2. n * 0 = 0 /\ n * 1 = n
  OBVIOUS
<1> HIDE DEF Index
<1>3. Index(a, n) = i
  <2>1. CASE i = 0
    <3>1. a % (2 * n) < n
      BY <1>2, <2>1
    <3>2. Index(a, n) # 1
      BY <1>1, <1>2, <3>1
    <3> QED BY <1>1, <2>1, <3>2
  <2>2. CASE i = 1
    <3>1. a % (2 * n) >= n
      BY <1>2, <2>2
    <3>2. Index(a, n) # 0
      BY <1>1, <1>2, <3>1
    <3> QED BY <1>1, <2>2, <3>2
  <2> QED BY <2>1, <2>2
<1>4. n * i \in Int
  OBVIOUS
<1> QED BY <1>1, <1>3, <1>4

LEMMA Spans ==
    /\ Page \in Nat \ {0} /\ Page2M \in Nat \ {0} /\ Page1G \in Nat \ {0}
    /\ 2 * Page1G \in Nat \ {0}
    /\ Page2M = 2 * Page /\ Page1G = 2 * Page2M /\ Space = 2 * (2 * Page1G)
  BY WalkConstants DEF Page2M, Page1G, Space

LEMMA WholeSpace == ASSUME NEW a \in 0 .. Space - 1 PROVE a % Space = a
<1>1. Space \in Nat \ {0} /\ a = Space * 0 + a
  BY Spans
<1> QED BY <1>1, DivisionIsUnique

\* Where the part of the address space begins that an entry of each level maps.
At1(i) == 0 + i * (2 * Page1G)
At2(i, j) == At1(i) + j * Page1G
At3(i, j, k) == At2(i, j) + k * Page2M
At4(i, j, k, l) == At3(i, j, k) + l * Page

\* The entries on the way to a page are tables; what such an entry holds.
Table1(t, i) == t[i].kind = "table"
Table2(t, i, j) == Table1(t, i) /\ t[i].table[j].kind = "table"
Table3(t, i, j, k) == Table2(t, i, j) /\ t[i].table[j].table[k].kind = "table"
ChildTable(u, i, span) == [table |-> u.table[i].table, from |-> u.from + i * span]
ChildPage(u, i, span) ==
    [from |-> u.from + i * span, span |-> span, frame |-> u.table[i].frame]

\* The pages of the three sizes, by the indices that lead to them.
LargePage(t, p) == \E i, j \in {0, 1} :
    /\ Table1(t, i)
    /\ t[i].table[j].kind = "page"
    /\ p = [from |-> At2(i, j), span |-> Page1G, frame |-> t[i].table[j].frame]
MiddlePage(t, p) == \E i, j, k \in {0, 1} :
    /\ Table2(t, i, j)
    /\ t[i].table[j].table[k].kind = "page"
    /\ p = [from |-> At3(i, j, k), span |-> Page2M, frame |-> t[i].table[j].table[k].frame]
SmallPage(t, p) == \E i, j, k, l \in {0, 1} :
    /\ Table3(t, i, j, k)
    /\ t[i].table[j].table[k].table[l].kind = "page"
    /\ p = [from |-> At4(i, j, k, l), span |-> Page, frame |-> t[i].table[j].table[k].table[l].frame]

LEMMA InPagesIn ==
    ASSUME NEW S, NEW span, NEW p
    PROVE  p \in PagesIn(S, span) <=>
             \E t \in S : \E i \in {0, 1} :
                t.table[i].kind = "page" /\ p = ChildPage(t, i, span)
  BY DEF PagesIn, ChildPage

LEMMA InTablesIn ==
    ASSUME NEW S, NEW span, NEW u
    PROVE  u \in TablesIn(S, span) <=>
             \E t \in S : \E i \in {0, 1} :
                t.table[i].kind = "table" /\ u = ChildTable(t, i, span)
  BY DEF TablesIn, ChildTable

LEMMA InPages ==
    ASSUME NEW p
    PROVE  p \in Pages <=> LargePage(tree, p) \/ MiddlePage(tree, p) \/ SmallPage(tree, p)
<1> DEFINE pdpts == TablesIn({[table |-> tree, from |-> 0]}, 2 * Page1G)
           pds == TablesIn(pdpts, Page1G)
           pts == TablesIn(pds, Page2M)
<1>1. ASSUME NEW u
      PROVE  u \in pdpts <=> \E i \in {0, 1} :
                /\ Table1(tree, i)
                /\ u = [table |-> tree[i].table, from |-> At1(i)]
  BY DEF TablesIn, At1, Table1
<1>2. ASSUME NEW u
      PROVE  u \in pds <=> \E i, j \in {0, 1} :
                /\ Table2(tree, i, j)
                /\ u = [table |-> tree[i].table[j].table, from |-> At2(i, j)]
  <2> HIDE DEF pdpts, pds, pts
  <2>1. u \in pds <=> \E t \in pdpts : \E j \in {0, 1} :
           t.table[j].kind = "table" /\ u = ChildTable(t, j, Page1G)
    BY InTablesIn DEF pds
  <2>2. ASSUME u \in pds
        PROVE  \E i, j \in {0, 1} :
                /\ Table2(tree, i, j)
                /\ u = [table |-> tree[i].table[j].table, from |-> At2(i, j)]
    <3>1. PICK t \in pdpts : \E j \in {0, 1} :
             t.table[j].kind = "table" /\ u = ChildTable(t, j, Page1G)
      BY <2>1, <2>2
    <3>2. PICK j \in {0, 1} :
             t.table[j].kind = "table" /\ u = ChildTable(t, j, Page1G)
      BY <3>1
    <3>3. PICK i \in {0, 1} :
             Table1(tree, i) /\ t = [table |-> tree[i].table, from |-> At1(i)]
      BY <1>1
    <3>4. t.table = tree[i].table /\ t.from = At1(i)
      BY <3>3
    <3>5. /\ Table2(tree, i, j)
          /\ u = [table |-> tree[i].table[j].table, from |-> At2(i, j)]
      BY <3>2, <3>3, <3>4, Zenon DEF At2, ChildTable, Table2
    <3> QED BY <3>3, <3>5, ZenonT(60)
  <2>3. ASSUME NEW i \in {0, 1}, NEW j \in {0, 1},
               Table2(tree, i, j),
               u = [table |-> tree[i].table[j].table, from |-> At2(i, j)]
        PROVE  u \in pds
    <3> DEFINE t == [table |-> tree[i].table, from |-> At1(i)]
    <3>1. t \in pdpts
      BY <1>1, <2>3 DEF Table2
    <3>2. t.table = tree[i].table /\ t.from = At1(i)
      OBVIOUS
    <3> HIDE DEF t
    <3>3. t.table[j].kind = "table" /\ u = ChildTable(t, j, Page1G)
      BY <2>3, <3>2, Zenon DEF At2, ChildTable, Table2
    <3> QED BY <2>1, <3>1, <3>3, Zenon
  <2> QED BY <2>2, <2>3, ZenonT(60)
<1>3. ASSUME NEW u
      PROVE  u \in pts <=> \E i, j, k \in {0, 1} :
                /\ Table3(tree, i, j, k)
                /\ u = [table |-> tree[i].table[j].table[k].table, from |-> At3(i, j, k)]
  <2> HIDE DEF pdpts, pds, pts
  <2>1. u \in pts <=> \E t \in pds : \E k \in {0, 1} :
           t.table[k].kind = "table" /\ u = ChildTable(t, k, Page2M)
    BY InTablesIn DEF pts
  <2>2. ASSUME u \in pts
        PROVE  \E i, j, k \in {0, 1} :
                /\ Table3(tree, i, j, k)
                /\ u = [table |-> tree[i].table[j].table[k].table, from |-> At3(i, j, k)]
    <3>1. PICK t \in pds : \E k \in {0, 1} :
             t.table[k].kind = "table" /\ u = ChildTable(t, k, Page2M)
      BY <2>1, <2>2
    <3>2. PICK k \in {0, 1} :
             t.table[k].kind = "table" /\ u = ChildTable(t, k, Page2M)
      BY <3>1
    <3>3. PICK i, j \in {0, 1} :
             Table2(tree, i, j) /\ t = [table |-> tree[i].table[j].table, from |-> At2(i, j)]
      BY <1>2
    <3>4. t.table = tree[i].table[j].table /\ t.from = At2(i, j)
      BY <3>3
    <3>5. /\ Table3(tree, i, j, k)
          /\ u = [table |-> tree[i].table[j].table[k].table, from |-> At3(i, j, k)]
      BY <3>2, <3>3, <3>4, Zenon DEF At3, ChildTable, Table3
    <3> QED BY <3>3, <3>5, ZenonT(60)
  <2>3. ASSUME NEW i \in {0, 1}, NEW j \in {0, 1}, NEW k \in {0, 1},
               Table3(tree, i, j, k),
               u = [table |-> tree[i].table[j].table[k].table, from |-> At3(i, j, k)]
        PROVE  u \in pts
    <3> DEFINE t == [table |-> tree[i].table[j].table, from |-> At2(i, j)]
    <3>1. t \in pds
      BY <1>2, <2>3 DEF Table3
    <3>2. t.table = tree[i].table[j].table /\ t.from = At2(i, j)
      OBVIOUS
    <3> HIDE DEF t
    <3>3. t.table[k].kind = "table" /\ u = ChildTable(t, k, Page2M)
      BY <2>3, <3>2, Zenon DEF At3, ChildTable, Table3
    <3> QED BY <2>1, <3>1, <3>3, Zenon
  <2> QED BY <2>2, <2>3, ZenonT(60)
<1>4. p \in PagesIn(pdpts, Page1G) <=> LargePage(tree, p)
  <2> HIDE DEF pdpts, pds, pts
  <2>1. p \in PagesIn(pdpts, Page1G) <=> \E t \in pdpts : \E j \in {0, 1} :
           t.table[j].kind = "page" /\ p = ChildPage(t, j, Page1G)
    BY InPagesIn
  <2>2. ASSUME p \in PagesIn(pdpts, Page1G)
        PROVE  \E i, j \in {0, 1} :
                /\ Table1(tree, i) /\ tree[i].table[j].kind = "page"
                /\ p = [from |-> At2(i, j), span |-> Page1G, frame |-> tree[i].table[j].frame]
    <3>1. PICK t \in pdpts : \E j \in {0, 1} :
             t.table[j].kind = "page" /\ p = ChildPage(t, j, Page1G)
      BY <2>1, <2>2
    <3>2. PICK j \in {0, 1} :
             t.table[j].kind = "page" /\ p = ChildPage(t, j, Page1G)
      BY <3>1
    <3>3. PICK i \in {0, 1} :
             Table1(tree, i) /\ t = [table |-> tree[i].table, from |-> At1(i)]
      BY <1>1
    <3>4. t.table = tree[i].table /\ t.from = At1(i)
      BY <3>3
    <3>5. /\ Table1(tree, i) /\ tree[i].table[j].kind = "page"
          /\ p = [from |-> At2(i, j), span |-> Page1G, frame |-> tree[i].table[j].frame]
      BY <3>2, <3>3, <3>4, Zenon DEF At2, ChildPage
    <3> QED BY <3>3, <3>5, ZenonT(60)
  <2>3. ASSUME NEW i \in {0, 1}, NEW j \in {0, 1},
               Table1(tree, i) /\ tree[i].table[j].kind = "page",
               p = [from |-> At2(i, j), span |-> Page1G, frame |-> tree[i].table[j].frame]
        PROVE  p \in PagesIn(pdpts, Page1G)
    <3> DEFINE t == [table |-> tree[i].table, from |-> At1(i)]
    <3>1. t \in pdpts
      BY <1>1, <2>3
    <3>2. t.table = tree[i].table /\ t.from = At1(i)
      OBVIOUS
    <3> HIDE DEF t
    <3>3. t.table[j].kind = "page" /\ p = ChildPage(t, j, Page1G)
      BY <2>3, <3>2, Zenon DEF At2, ChildPage
    <3> QED BY <2>1, <3>1, <3>3, Zenon
  <2>4. ASSUME p \in PagesIn(pdpts, Page1G) PROVE LargePage(tree, p)
    BY <2>2, <2>4, ZenonT(60) DEF LargePage
  <2>5. ASSUME LargePage(tree, p) PROVE p \in PagesIn(pdpts, Page1G)
    <3>1. PICK i, j \in {0, 1} :
             /\ Table1(tree, i) /\ tree[i].table[j].kind = "page"
             /\ p = [from |-> At2(i, j), span |-> Page1G, frame |-> tree[i].table[j].frame]
      BY <2>5, ZenonT(60) DEF LargePage
    <3> QED BY <2>3, <3>1, ZenonT(60)
  <2> QED BY <2>4, <2>5, Zenon
<1>5. p \in PagesIn(pds, Page2M) <=> MiddlePage(tree, p)
  <2> HIDE DEF pdpts, pds, pts
  <2>1. p \in PagesIn(pds, Page2M) <=> \E t \in pds : \E k \in {0, 1} :
           t.table[k].kind = "page" /\ p = ChildPage(t, k, Page2M)
    BY InPagesIn
  <2>2. ASSUME p \in PagesIn(pds, Page2M)
        PROVE  \E i, j, k \in {0, 1} :
                /\ Table2(tree, i, j) /\ tree[i].table[j].table[k].kind = "page"
                /\ p = [from |-> At3(i, j, k), span |-> Page2M, frame |-> tree[i].table[j].table[k].frame]
    <3>1. PICK t \in pds : \E k \in {0, 1} :
             t.table[k].kind = "page" /\ p = ChildPage(t, k, Page2M)
      BY <2>1, <2>2
    <3>2. PICK k \in {0, 1} :
             t.table[k].kind = "page" /\ p = ChildPage(t, k, Page2M)
      BY <3>1
    <3>3. PICK i, j \in {0, 1} :
             Table2(tree, i, j) /\ t = [table |-> tree[i].table[j].table, from |-> At2(i, j)]
      BY <1>2
    <3>4. t.table = tree[i].table[j].table /\ t.from = At2(i, j)
      BY <3>3
    <3>5. /\ Table2(tree, i, j) /\ tree[i].table[j].table[k].kind = "page"
          /\ p = [from |-> At3(i, j, k), span |-> Page2M, frame |-> tree[i].table[j].table[k].frame]
      BY <3>2, <3>3, <3>4, Zenon DEF At3, ChildPage
    <3> QED BY <3>3, <3>5, ZenonT(60)
  <2>3. ASSUME NEW i \in {0, 1}, NEW j \in {0, 1}, NEW k \in {0, 1},
               Table2(tree, i, j) /\ tree[i].table[j].table[k].kind = "page",
               p = [from |-> At3(i, j, k), span |-> Page2M, frame |-> tree[i].table[j].table[k].frame]
        PROVE  p \in PagesIn(pds, Page2M)
    <3> DEFINE t == [table |-> tree[i].table[j].table, from |-> At2(i, j)]
    <3>1. t \in pds
      BY <1>2, <2>3
    <3>2. t.table = tree[i].table[j].table /\ t.from = At2(i, j)
      OBVIOUS
    <3> HIDE DEF t
    <3>3. t.table[k].kind = "page" /\ p = ChildPage(t, k, Page2M)
      BY <2>3, <3>2, Zenon DEF At3, ChildPage
    <3> QED BY <2>1, <3>1, <3>3, Zenon
  <2>4. ASSUME p \in PagesIn(pds, Page2M) PROVE MiddlePage(tree, p)
    BY <2>2, <2>4, ZenonT(60) DEF MiddlePage
  <2>5. ASSUME MiddlePage(tree, p) PROVE p \in PagesIn(pds, Page2M)
    <3>1. PICK i, j, k \in {0, 1} :
             /\ Table2(tree, i, j) /\ tree[i].table[j].table[k].kind = "page"
             /\ p = [from |-> At3(i, j, k), span |-> Page2M, frame |-> tree[i].table[j].table[k].frame]
      BY <2>5, ZenonT(60) DEF MiddlePage
    <3> QED BY <2>3, <3>1, ZenonT(60)
  <2> QED BY <2>4, <2>5, Zenon
<1>6. p \in PagesIn(pts, Page) <=> SmallPage(tree, p)
  <2> HIDE DEF pdpts, pds, pts
  <2>1. p \in PagesIn(pts, Page) <=> \E t \in pts : \E l \in {0, 1} :
           t.table[l].kind = "page" /\ p = ChildPage(t, l, Page)
    BY InPagesIn
  <2>2. ASSUME p \in PagesIn(pts, Page)
        PROVE  \E i, j, k, l \in {0, 1} :
                /\ Table3(tree, i, j, k) /\ tree[i].table[j].table[k].table[l].kind = "page"
                /\ p = [from |-> At4(i, j, k, l), span |-> Page, frame |-> tree[i].table[j].table[k].table[l].frame]
    <3>1. PICK t \in pts : \E l \in {0, 1} :
             t.table[l].kind = "page" /\ p = ChildPage(t, l, Page)
      BY <2>1, <2>2
    <3>2. PICK l \in {0, 1} :
             t.table[l].kind = "page" /\ p = ChildPage(t, l, Page)
      BY <3>1
    <3>3. PICK i, j, k \in {0, 1} :
             Table3(tree, i, j, k) /\ t = [table |-> tree[i].table[j].table[k].table, from |-> At3(i, j, k)]
      BY <1>3
    <3>4. t.table = tree[i].table[j].table[k].table /\ t.from = At3(i, j, k)
      BY <3>3
    <3>5. /\ Table3(tree, i, j, k) /\ tree[i].table[j].table[k].table[l].kind = "page"
          /\ p = [from |-> At4(i, j, k, l), span |-> Page, frame |-> tree[i].table[j].table[k].table[l].frame]
      BY <3>2, <3>3, <3>4, Zenon DEF At4, ChildPage
    <3> QED BY <3>3, <3>5, ZenonT(60)
  <2>3. ASSUME NEW i \in {0, 1}, NEW j \in {0, 1}, NEW k \in {0, 1}, NEW l \in {0, 1},
               Table3(tree, i, j, k) /\ tree[i].table[j].table[k].table[l].kind = "page",
               p = [from |-> At4(i, j, k, l), span |-> Page, frame |-> tree[i].table[j].table[k].table[l].frame]
        PROVE  p \in PagesIn(pts, Page)
    <3> DEFINE t == [table |-> tree[i].table[j].table[k].table, from |-> At3(i, j, k)]
    <3>1. t \in pts
      BY <1>3, <2>3
    <3>2. t.table = tree[i].table[j].table[k].table /\ t.from = At3(i, j, k)
      OBVIOUS
    <3> HIDE DEF t
    <3>3. t.table[l].kind = "page" /\ p = ChildPage(t, l, Page)
      BY <2>3, <3>2, Zenon DEF At4, ChildPage
    <3> QED BY <2>1, <3>1, <3>3, Zenon
  <2>4. ASSUME p \in PagesIn(pts, Page) PROVE SmallPage(tree, p)
    BY <2>2, <2>4, ZenonT(60) DEF SmallPage
  <2>5. ASSUME SmallPage(tree, p) PROVE p \in PagesIn(pts, Page)
    <3>1. PICK i, j, k, l \in {0, 1} :
             /\ Table3(tree, i, j, k) /\ tree[i].table[j].table[k].table[l].kind = "page"
             /\ p = [from |-> At4(i, j, k, l), span |-> Page, frame |-> tree[i].table[j].table[k].table[l].frame]
      BY <2>5, ZenonT(60) DEF SmallPage
    <3> QED BY <2>3, <3>1, ZenonT(60)
  <2> QED BY <2>4, <2>5, Zenon
<1>7. Pages = PagesIn(pdpts, Page1G)
              \cup PagesIn(pds, Page2M)
              \cup PagesIn(pts, Page)
  BY DEF Pages
<1> DEFINE A == PagesIn(pdpts, Page1G)
           B == PagesIn(pds, Page2M)
           C == PagesIn(pts, Page)
<1>8. p \in A \cup B \cup C <=> p \in A \/ p \in B \/ p \in C
  <2> HIDE DEF A, B, C
  <2> QED OBVIOUS
<1> HIDE DEF pdpts, pds, pts, LargePage, MiddlePage, SmallPage
<1> QED BY <1>4, <1>5, <1>6, <1>7, <1>8, Zenon

LEMMA OffsetInHalf ==
    ASSUME NEW a \in Nat, NEW n \in Nat \ {0}, NEW i \in {0, 1}, NEW r \in 0 .. n - 1,
           a % (2 * n) = n * i + r
    PROVE  a % n = r
  BY IndexOfHalf

LEMMA EntryStarts ==
    ASSUME NEW i \in {0, 1}, NEW j \in {0, 1}, NEW k \in {0, 1}, NEW l \in {0, 1}
    PROVE  /\ At1(i) \in Nat /\ At2(i, j) \in Nat /\ At3(i, j, k) \in Nat /\ At4(i, j, k, l) \in Nat
           /\ At1(i) = (2 * Page1G) * i /\ At2(i, j) = At1(i) + Page1G * j
           /\ At3(i, j, k) = At2(i, j) + Page2M * k /\ At4(i, j, k, l) = At3(i, j, k) + Page * l
<1>1. At1(i) \in Nat /\ At1(i) = (2 * Page1G) * i
  BY Spans DEF At1
<1>2. At2(i, j) \in Nat /\ At2(i, j) = At1(i) + Page1G * j
  BY <1>1, Spans DEF At2
<1>3. At3(i, j, k) \in Nat /\ At3(i, j, k) = At2(i, j) + Page2M * k
  BY <1>2, Spans DEF At3
<1>4. At4(i, j, k, l) \in Nat /\ At4(i, j, k, l) = At3(i, j, k) + Page * l
  BY <1>3, Spans DEF At4
<1> QED BY <1>1, <1>2, <1>3, <1>4

\* How an address splits into the indices of the levels and an offset.
LEMMA Offsets ==
    ASSUME NEW a \in 0 .. Space - 1
    PROVE  LET i == Index(a, 2 * Page1G)
               j == Index(a, Page1G)
               k == Index(a, Page2M)
               l == Index(a, Page)
           IN  /\ i \in {0, 1} /\ j \in {0, 1} /\ k \in {0, 1} /\ l \in {0, 1}
               /\ a % (2 * Page1G) = a - At1(i) /\ a % Page1G = a - At2(i, j)
               /\ a % Page2M = a - At3(i, j, k) /\ a % Page = a - At4(i, j, k, l)
<1> DEFINE i == Index(a, 2 * Page1G)
           j == Index(a, Page1G)
           k == Index(a, Page2M)
           l == Index(a, Page)
           H == 2 * Page1G
<1>0. a \in Nat
  BY Spans
<1>1. i \in {0, 1} /\ a % Space = H * i + (a % H)
  BY <1>0, IndexIsBit, Spans
<1>2. j \in {0, 1} /\ a % H = Page1G * j + (a % Page1G)
  BY <1>0, IndexIsBit, Spans
<1>3. k \in {0, 1} /\ a % Page1G = Page2M * k + (a % Page2M)
  BY <1>0, IndexIsBit, Spans
<1>4. l \in {0, 1} /\ a % Page2M = Page * l + (a % Page)
  BY <1>0, IndexIsBit, Spans
<1>5. /\ a % H \in Int /\ a % Page1G \in Int /\ a % Page2M \in Int /\ a % Page \in Int
  BY <1>0, Division, Spans
<1>6. a % Space = a
  BY WholeSpace
<1> HIDE DEF i, j, k, l
<1>7. /\ At1(i) \in Nat /\ At2(i, j) \in Nat /\ At3(i, j, k) \in Nat /\ At4(i, j, k, l) \in Nat
      /\ At1(i) = H * i /\ At2(i, j) = At1(i) + Page1G * j
      /\ At3(i, j, k) = At2(i, j) + Page2M * k /\ At4(i, j, k, l) = At3(i, j, k) + Page * l
  BY <1>1, <1>2, <1>3, <1>4, EntryStarts
<1> HIDE DEF H
<1>8. a % H = a - At1(i)
  BY <1>0, <1>1, <1>5, <1>6, <1>7
<1>9. a % Page1G = a - At2(i, j)
  <2>1. Page1G * j \in Int
    BY <1>2, Spans
  <2> QED BY <1>0, <1>2, <1>5, <1>7, <1>8, <2>1
<1>10. a % Page2M = a - At3(i, j, k)
  <2>1. Page2M * k \in Int
    BY <1>3, Spans
  <2> QED BY <1>0, <1>3, <1>5, <1>7, <1>9, <2>1
<1>11. a % Page = a - At4(i, j, k, l)
  <2>1. Page * l \in Int
    BY <1>4, Spans
  <2> QED BY <1>0, <1>4, <1>5, <1>7, <1>10, <2>1
<1>12. a % (2 * Page1G) = a - At1(i)
  BY <1>8 DEF H
<1> QED BY <1>1, <1>2, <1>3, <1>4, <1>9, <1>10, <1>11, <1>12, Zenon DEF i, j, k, l

\* An entry that covers an address is the one that its indices lead to.
LEMMA SameEntry ==
    ASSUME NEW a \in 0 .. Space - 1,
           NEW i \in {0, 1}, NEW j \in {0, 1}, NEW k \in {0, 1}, NEW l \in {0, 1}
    PROVE  /\ At1(i) <= a /\ a < At1(i) + 2 * Page1G => i = Index(a, 2 * Page1G)
           /\ At2(i, j) <= a /\ a < At2(i, j) + Page1G =>
                  i = Index(a, 2 * Page1G) /\ j = Index(a, Page1G)
           /\ At3(i, j, k) <= a /\ a < At3(i, j, k) + Page2M =>
                  i = Index(a, 2 * Page1G) /\ j = Index(a, Page1G) /\ k = Index(a, Page2M)
           /\ At4(i, j, k, l) <= a /\ a < At4(i, j, k, l) + Page =>
                  /\ i = Index(a, 2 * Page1G) /\ j = Index(a, Page1G)
                  /\ k = Index(a, Page2M) /\ l = Index(a, Page)
<1> DEFINE H == 2 * Page1G
<1>0. a \in Nat /\ H \in Nat \ {0} /\ Space = 2 * H /\ H = 2 * Page1G
  BY Spans
<1>1. /\ At1(i) \in Nat /\ At2(i, j) \in Nat /\ At3(i, j, k) \in Nat /\ At4(i, j, k, l) \in Nat
      /\ At1(i) = H * i /\ At2(i, j) = At1(i) + Page1G * j
      /\ At3(i, j, k) = At2(i, j) + Page2M * k /\ At4(i, j, k, l) = At3(i, j, k) + Page * l
  BY EntryStarts
<1> HIDE DEF H
<1>2. ASSUME At1(i) <= a, a < At1(i) + H
      PROVE  i = Index(a, H) /\ a % H = a - At1(i)
  <2> DEFINE r == a - At1(i)
  <2>0. r \in 0 .. H - 1 /\ a = At1(i) + r
    <3>1. At1(i) \in Nat /\ a \in Nat /\ H \in Nat
      BY <1>0, <1>1
    <3> QED BY <1>2, <3>1
  <2>1. r \in 0 .. H - 1 /\ a = H * i + r
    BY <1>1, <2>0, Zenon
  <2>2. a % (2 * H) = H * i + r
    BY <1>0, <2>1, WholeSpace
  <2> HIDE DEF r
  <2>3. Index(a, H) = i /\ a % H = r
    BY <1>0, <2>1, <2>2, IndexOfHalf
  <2> QED BY <2>3 DEF r
<1>3. ASSUME At2(i, j) <= a, a < At2(i, j) + Page1G
      PROVE  /\ At1(i) <= a /\ a < At1(i) + H
             /\ j = Index(a, Page1G) /\ a % Page1G = a - At2(i, j)
  <2> DEFINE r == a - At2(i, j)
  <2>0. Page1G * j = 0 \/ Page1G * j = Page1G
    BY Spans
  <2>1. r \in 0 .. Page1G - 1 /\ a = At1(i) + (Page1G * j + r)
    BY <1>0, <1>1, <1>3, <2>0, Spans
  <2>2. At1(i) <= a /\ a < At1(i) + H
    BY <1>0, <1>1, <2>0, <2>1, Spans
  <2>3. a % H = Page1G * j + r
    <3>1. a % H = a - At1(i)
      BY <1>2, <2>2
    <3>2. Page1G * j \in Int /\ r \in Int
      BY <2>0, <2>1, Spans
    <3> QED BY <1>0, <1>1, <2>1, <3>1, <3>2
  <2>4. a % (2 * Page1G) = Page1G * j + r
    BY <1>0, <2>3
  <2> HIDE DEF r
  <2>5. Index(a, Page1G) = j
    BY <1>0, <2>1, <2>4, IndexOfHalf, Spans, Zenon
  <2>6. a % Page1G = r
    BY <1>0, <2>1, <2>4, OffsetInHalf, Spans, Zenon
  <2> QED BY <2>2, <2>5, <2>6 DEF r
<1>4. ASSUME At3(i, j, k) <= a, a < At3(i, j, k) + Page2M
      PROVE  /\ At2(i, j) <= a /\ a < At2(i, j) + Page1G
             /\ k = Index(a, Page2M) /\ a % Page2M = a - At3(i, j, k)
  <2> DEFINE r == a - At3(i, j, k)
  <2>0. Page2M * k = 0 \/ Page2M * k = Page2M
    BY Spans
  <2>1. r \in 0 .. Page2M - 1 /\ a = At2(i, j) + (Page2M * k + r)
    BY <1>0, <1>1, <1>4, <2>0, Spans
  <2>2. At2(i, j) <= a /\ a < At2(i, j) + Page1G
    BY <1>0, <1>1, <2>0, <2>1, Spans
  <2>3. a % Page1G = Page2M * k + r
    <3>1. a % Page1G = a - At2(i, j)
      BY <1>3, <2>2
    <3>2. Page2M * k \in Int /\ r \in Int
      BY <2>0, <2>1, Spans
    <3> QED BY <1>0, <1>1, <2>1, <3>1, <3>2
  <2>4. a % (2 * Page2M) = Page2M * k + r
    BY <2>3, Spans
  <2> HIDE DEF r
  <2>5. Index(a, Page2M) = k
    BY <1>0, <2>1, <2>4, IndexOfHalf, Spans, Zenon
  <2>6. a % Page2M = r
    BY <1>0, <2>1, <2>4, OffsetInHalf, Spans, Zenon
  <2> QED BY <2>2, <2>5, <2>6 DEF r
<1>5. ASSUME At4(i, j, k, l) <= a, a < At4(i, j, k, l) + Page
      PROVE  /\ At3(i, j, k) <= a /\ a < At3(i, j, k) + Page2M
             /\ l = Index(a, Page)
  <2> DEFINE r == a - At4(i, j, k, l)
  <2>0. Page * l = 0 \/ Page * l = Page
    BY Spans
  <2>1. r \in 0 .. Page - 1 /\ a = At3(i, j, k) + (Page * l + r)
    BY <1>0, <1>1, <1>5, <2>0, Spans
  <2>2. At3(i, j, k) <= a /\ a < At3(i, j, k) + Page2M
    BY <1>0, <1>1, <2>0, <2>1, Spans
  <2>3. a % Page2M = Page * l + r
    <3>1. a % Page2M = a - At3(i, j, k)
      BY <1>4, <2>2
    <3>2. Page * l \in Int /\ r \in Int
      BY <2>0, <2>1, Spans
    <3> QED BY <1>0, <1>1, <2>1, <3>1, <3>2
  <2>4. a % (2 * Page) = Page * l + r
    BY <2>3, Spans
  <2> HIDE DEF r
  <2>5. Index(a, Page) = l
    BY <1>0, <2>1, <2>4, IndexOfHalf, Spans, Zenon
  <2> QED BY <2>2, <2>5
<1>6. /\ At1(i) <= a /\ a < At1(i) + H => i = Index(a, H)
      /\ At2(i, j) <= a /\ a < At2(i, j) + Page1G => i = Index(a, H) /\ j = Index(a, Page1G)
      /\ At3(i, j, k) <= a /\ a < At3(i, j, k) + Page2M =>
             i = Index(a, H) /\ j = Index(a, Page1G) /\ k = Index(a, Page2M)
      /\ At4(i, j, k, l) <= a /\ a < At4(i, j, k, l) + Page =>
             i = Index(a, H) /\ j = Index(a, Page1G) /\ k = Index(a, Page2M) /\ l = Index(a, Page)
  BY <1>2, <1>3, <1>4, <1>5, Zenon
<1> QED BY <1>6, Zenon DEF H

\* What the tables of a process hold along a walk.
WalkShape(t, i, j, k, l) ==
    /\ t[i].kind \in {"absent", "table"}
    /\ t[i].kind = "table" =>
          /\ t[i].table[j].kind \in {"absent", "page", "table"}
          /\ t[i].table[j].kind = "page" => IsPage(t[i].table[j], Page1G)
          /\ t[i].table[j].kind = "table" =>
                /\ t[i].table[j].table[k].kind \in {"absent", "page", "table"}
                /\ t[i].table[j].table[k].kind = "page" => IsPage(t[i].table[j].table[k], Page2M)
                /\ t[i].table[j].table[k].kind = "table" =>
                      /\ t[i].table[j].table[k].table[l].kind \in {"absent", "page"}
                      /\ t[i].table[j].table[k].table[l].kind = "page" =>
                             IsPage(t[i].table[j].table[k].table[l], Page)

LEMMA WellFormed ==
    ASSUME NEW t \in Trees, NEW i \in {0, 1}, NEW j \in {0, 1}, NEW k \in {0, 1}, NEW l \in {0, 1}
    PROVE  WalkShape(t, i, j, k, l)
<1>1. IsPml4(t)
  BY WalkConstants
<1>2. IsAbsent(t[i]) \/ (t[i].kind = "table" /\ IsPdpt(t[i].table))
  BY <1>1 DEF IsPml4
<1>3. t[i].kind = "table" =>
        \/ IsAbsent(t[i].table[j]) \/ IsPage(t[i].table[j], Page1G)
        \/ t[i].table[j].kind = "table" /\ IsPd(t[i].table[j].table)
  BY <1>2 DEF IsAbsent, IsPdpt
<1>4. t[i].kind = "table" /\ t[i].table[j].kind = "table" =>
        \/ IsAbsent(t[i].table[j].table[k]) \/ IsPage(t[i].table[j].table[k], Page2M)
        \/ t[i].table[j].table[k].kind = "table" /\ IsPt(t[i].table[j].table[k].table)
  BY <1>3 DEF IsAbsent, IsPage, IsPd
<1>5. t[i].kind = "table" /\ t[i].table[j].kind = "table" /\ t[i].table[j].table[k].kind = "table" =>
        \/ IsAbsent(t[i].table[j].table[k].table[l])
        \/ IsPage(t[i].table[j].table[k].table[l], Page)
  BY <1>4 DEF IsAbsent, IsPage, IsPt
<1> QED BY <1>2, <1>3, <1>4, <1>5 DEF IsAbsent, IsPage, WalkShape

\* What translate returns for an address: the place in the page that maps it.
IsTranslation(r, p, a) ==
    /\ p.from \in Nat /\ p.span \in Nat \ {0} /\ p.frame \in Nat \ {0} /\ Maps(p, a)
    /\ r = [physical |-> p.frame + (a - p.from), size |-> p.span]
    /\ a % p.span = a - p.from

LEMMA FrameIs ==
    ASSUME NEW entry, NEW span \in Nat \ {0}, NEW at \in Nat, NEW a \in Nat,
           IsPage(entry, span), a % span = a - at
    PROVE  IsTranslation(Frame(entry, span, a),
                         [from |-> at, span |-> span, frame |-> entry.frame], a)
<1>1. entry.frame \in Nat \ {0} /\ entry.frame % span = 0
  BY DEF IsPage
<1>2. a % span \in 0 .. span - 1
  BY Division
<1>3. Frame(entry, span, a) = [physical |-> entry.frame + (a - at), size |-> span]
  <2>1. entry.frame - (entry.frame % span) + (a % span) = entry.frame + (a - at)
    BY <1>1, <1>2
  <2> QED BY <2>1 DEF Frame
<1>4. at <= a /\ a < at + span
  BY <1>2
<1> DEFINE p == [from |-> at, span |-> span, frame |-> entry.frame]
<1>5. p.from = at /\ p.span = span /\ p.frame = entry.frame
  OBVIOUS
<1> HIDE DEF p
<1>6. Maps(p, a)
  BY <1>4, <1>5 DEF Maps
<1>7. IsTranslation(Frame(entry, span, a), p, a)
  BY <1>1, <1>3, <1>5, <1>6, Zenon DEF IsTranslation
<1> QED BY <1>7 DEF p

LEMMA TranslateFindsPage ==
    ASSUME tree \in Trees, NEW a \in 0 .. Space - 1
    PROVE  \/ Translate(a) = Failed
           \/ \E p \in Pages : IsTranslation(Translate(a), p, a)
<1> DEFINE i == Index(a, 2 * Page1G)
           j == Index(a, Page1G)
           k == Index(a, Page2M)
           l == Index(a, Page)
<1>1. /\ i \in {0, 1} /\ j \in {0, 1} /\ k \in {0, 1} /\ l \in {0, 1}
      /\ a % Page1G = a - At2(i, j)
      /\ a % Page2M = a - At3(i, j, k) /\ a % Page = a - At4(i, j, k, l)
  BY Offsets, Zenon
<1>2. Translate(a) =
        IF tree[i].kind = "absent" \/ tree[i].table[j].kind = "absent" THEN Failed
        ELSE IF tree[i].table[j].kind = "page" THEN Frame(tree[i].table[j], Page1G, a)
        ELSE IF tree[i].table[j].table[k].kind = "absent" THEN Failed
        ELSE IF tree[i].table[j].table[k].kind = "page" THEN Frame(tree[i].table[j].table[k], Page2M, a)
        ELSE IF tree[i].table[j].table[k].table[l].kind = "absent" THEN Failed
        ELSE Frame(tree[i].table[j].table[k].table[l], Page, a)
  BY DEF Translate
<1> HIDE DEF i, j, k, l
<1>3. WalkShape(tree, i, j, k, l)
  BY <1>1, WellFormed, Zenon
<1>4. At2(i, j) \in Nat /\ At3(i, j, k) \in Nat /\ At4(i, j, k, l) \in Nat
  BY <1>1, EntryStarts, Zenon
<1>0. a \in Nat
  BY Spans
<1>5. CASE tree[i].kind = "absent" \/ tree[i].table[j].kind = "absent"
  BY <1>2, <1>5
<1>6. CASE tree[i].kind = "table" /\ tree[i].table[j].kind = "page"
  <2> DEFINE p == [from |-> At2(i, j), span |-> Page1G, frame |-> tree[i].table[j].frame]
  <2>1. Translate(a) = Frame(tree[i].table[j], Page1G, a)
    BY <1>2, <1>6
  <2>2. IsTranslation(Translate(a), p, a)
    <3>1. IsPage(tree[i].table[j], Page1G)
      BY <1>3, <1>6 DEF WalkShape
    <3> QED BY <1>0, <1>1, <1>4, <2>1, <3>1, FrameIs, Spans, Zenon
  <2>3. LargePage(tree, p)
    BY <1>1, <1>6, Zenon DEF LargePage, Table1
  <2> HIDE DEF p
  <2> QED BY <2>2, <2>3, InPages
<1>7. CASE tree[i].kind = "table" /\ tree[i].table[j].kind = "table"
  <2>1. CASE tree[i].table[j].table[k].kind = "absent"
    BY <1>2, <1>7, <2>1
  <2>2. CASE tree[i].table[j].table[k].kind = "page"
    <3> DEFINE p == [from |-> At3(i, j, k), span |-> Page2M, frame |-> tree[i].table[j].table[k].frame]
    <3>1. Translate(a) = Frame(tree[i].table[j].table[k], Page2M, a)
      BY <1>2, <1>7, <2>2
    <3>2. IsTranslation(Translate(a), p, a)
      <4>1. IsPage(tree[i].table[j].table[k], Page2M)
        BY <1>3, <1>7, <2>2 DEF WalkShape
      <4> QED BY <1>0, <1>1, <1>4, <3>1, <4>1, FrameIs, Spans, Zenon
    <3>3. MiddlePage(tree, p)
      BY <1>1, <1>7, <2>2, Zenon DEF MiddlePage, Table1, Table2
    <3> HIDE DEF p
    <3> QED BY <3>2, <3>3, InPages
  <2>3. CASE tree[i].table[j].table[k].kind = "table"
    <3>1. CASE tree[i].table[j].table[k].table[l].kind = "absent"
      BY <1>2, <1>7, <2>3, <3>1
    <3>2. CASE tree[i].table[j].table[k].table[l].kind = "page"
      <4> DEFINE p == [from |-> At4(i, j, k, l), span |-> Page,
                       frame |-> tree[i].table[j].table[k].table[l].frame]
      <4>1. Translate(a) = Frame(tree[i].table[j].table[k].table[l], Page, a)
        BY <1>2, <1>7, <2>3, <3>2
      <4>2. IsTranslation(Translate(a), p, a)
        <5>1. IsPage(tree[i].table[j].table[k].table[l], Page)
          BY <1>3, <1>7, <2>3, <3>2 DEF WalkShape
        <5> QED BY <1>0, <1>1, <1>4, <4>1, <5>1, FrameIs, Spans, Zenon
      <4>3. SmallPage(tree, p)
        BY <1>1, <1>7, <2>3, <3>2, ZenonT(60) DEF SmallPage, Table1, Table2, Table3
      <4> HIDE DEF p
      <4> QED BY <4>2, <4>3, InPages
    <3> QED BY <1>3, <1>7, <2>3, <3>1, <3>2 DEF WalkShape
  <2> QED BY <1>3, <1>7, <2>1, <2>2, <2>3 DEF WalkShape
<1> QED BY <1>3, <1>5, <1>6, <1>7 DEF WalkShape

\* An address that a page maps is never refused.
LEMMA MappedIsTranslated ==
    ASSUME tree \in Trees, NEW a \in 0 .. Space - 1, NEW q \in Pages, Maps(q, a)
    PROVE  Translate(a) # Failed
<1>1. CASE LargePage(tree, q)
  <2>1. PICK i, j \in {0, 1} :
          /\ tree[i].kind = "table" /\ tree[i].table[j].kind = "page"
          /\ q = [from |-> At2(i, j), span |-> Page1G, frame |-> tree[i].table[j].frame]
    BY <1>1, Zenon DEF LargePage, Table1
  <2>2. q.from = At2(i, j) /\ q.span = Page1G
    BY <2>1
  <2>3. i = Index(a, 2 * Page1G) /\ j = Index(a, Page1G)
    BY <2>2, SameEntry, Zenon DEF Maps
  <2>4. Translate(a) = Frame(tree[i].table[j], Page1G, a)
    BY <2>1, <2>3 DEF Translate
  <2>5. Frame(tree[i].table[j], Page1G, a).size = Page1G /\ Failed.size = 0
    BY DEF Frame, Failed
  <2> QED BY <2>4, <2>5, Spans
<1>2. CASE MiddlePage(tree, q)
  <2>1. PICK i, j, k \in {0, 1} :
          /\ tree[i].kind = "table" /\ tree[i].table[j].kind = "table"
          /\ tree[i].table[j].table[k].kind = "page"
          /\ q = [from |-> At3(i, j, k), span |-> Page2M, frame |-> tree[i].table[j].table[k].frame]
    BY <1>2, Zenon DEF MiddlePage, Table1, Table2
  <2>2. q.from = At3(i, j, k) /\ q.span = Page2M
    BY <2>1
  <2>3. i = Index(a, 2 * Page1G) /\ j = Index(a, Page1G) /\ k = Index(a, Page2M)
    BY <2>2, SameEntry, Zenon DEF Maps
  <2>4. Translate(a) = Frame(tree[i].table[j].table[k], Page2M, a)
    BY <2>1, <2>3 DEF Translate
  <2>5. Frame(tree[i].table[j].table[k], Page2M, a).size = Page2M /\ Failed.size = 0
    BY DEF Frame, Failed
  <2> QED BY <2>4, <2>5, Spans
<1>3. CASE SmallPage(tree, q)
  <2>1. PICK i, j, k, l \in {0, 1} :
          /\ tree[i].kind = "table" /\ tree[i].table[j].kind = "table"
          /\ tree[i].table[j].table[k].kind = "table"
          /\ tree[i].table[j].table[k].table[l].kind = "page"
          /\ q = [from |-> At4(i, j, k, l), span |-> Page,
                  frame |-> tree[i].table[j].table[k].table[l].frame]
    BY <1>3, ZenonT(60) DEF SmallPage, Table1, Table2, Table3
  <2>2. q.from = At4(i, j, k, l) /\ q.span = Page
    BY <2>1
  <2>3. /\ i = Index(a, 2 * Page1G) /\ j = Index(a, Page1G)
        /\ k = Index(a, Page2M) /\ l = Index(a, Page)
    BY <2>2, SameEntry, Zenon DEF Maps
  <2>4. Translate(a) = Frame(tree[i].table[j].table[k].table[l], Page, a)
    BY <2>1, <2>3 DEF Translate
  <2>5. Frame(tree[i].table[j].table[k].table[l], Page, a).size = Page /\ Failed.size = 0
    BY DEF Frame, Failed
  <2> QED BY <2>4, <2>5, Spans
<1> QED BY <1>1, <1>2, <1>3, InPages

\* What was copied lies in the pages that map the request, in order; what is
\* left begins where it ends.
Copied(pages, from, n, bytes) ==
    \A i \in 1 .. n : \E p \in pages :
        Maps(p, from + i - 1) /\ bytes[i] = p.frame + (from + i - 1 - p.from)

Hole == \E a \in address .. address + size - 1 : \A p \in Pages : ~ Maps(p, a)

RequestType ==
    /\ tree \in Trees /\ address \in Nat /\ size \in Nat
    /\ address + size <= Space

WalkInv ==
    /\ RequestType
    /\ output \in Seq(Nat) /\ result \in {"running", "ok", "failed"}
    /\ remote = address + Len(output) /\ remaining = size - Len(output)
    /\ remaining \in Nat
    /\ result = "running" => remaining > 0
    /\ result = "ok" => remaining = 0
    /\ result = "failed" => Hole \/ refused
    /\ Copied(Pages, address, Len(output), output)

LEMMA WalkInvInit == WalkInit => WalkInv
<1> SUFFICES ASSUME WalkInit PROVE WalkInv
  OBVIOUS
<1>1. RequestType
  BY DEF WalkInit, RequestType
<1>2. output = <<>> /\ output \in Seq(Nat) /\ Len(output) = 0
  BY DEF WalkInit
<1>3. Copied(Pages, address, Len(output), output)
  BY <1>2 DEF Copied
<1>4. /\ remote = address + Len(output) /\ remaining = size - Len(output)
      /\ remaining \in Nat /\ remaining > 0
  BY <1>2, WalkConstants DEF WalkInit
<1>5. result = "running"
  BY DEF WalkInit
<1> QED BY <1>1, <1>2, <1>3, <1>4, <1>5 DEF WalkInv

LEMMA CopyKeepsInv == WalkInv /\ CopyChunk => WalkInv'
<1> SUFFICES ASSUME WalkInv, CopyChunk PROVE WalkInv'
  OBVIOUS
<1> DEFINE page == Translate(remote)
           n == Chunk(page)
           bytes == [i \in 1 .. n |-> page.physical + i - 1]
           L == Len(output)
<1>1. /\ result = "running" /\ page.physical # 0
      /\ output' = output \o bytes /\ remote' = remote + n /\ remaining' = remaining - n
      /\ result' = (IF remaining = n THEN "ok" ELSE "running")
      /\ UNCHANGED <<tree, address, size, refused>>
  BY DEF CopyChunk
<1>2. /\ tree \in Trees /\ address \in Nat /\ size \in Nat /\ address + size <= Space
      /\ output \in Seq(Nat) /\ L \in Nat
      /\ remote = address + L /\ remaining = size - L /\ remaining \in Nat /\ remaining > 0
  BY <1>1 DEF WalkInv, RequestType
<1>3. remote \in 0 .. Space - 1 /\ Space \in Nat
  <2>1. Space \in Nat
    BY Spans
  <2> HIDE DEF L
  <2> QED BY <1>2, <2>1
<1>4. PICK p \in Pages : IsTranslation(page, p, remote)
  <2>1. Failed.physical = 0
    BY DEF Failed
  <2> QED BY <1>1, <1>2, <1>3, <2>1, TranslateFindsPage
<1>5. /\ p.from \in Nat /\ p.span \in Nat \ {0} /\ p.frame \in Nat \ {0}
      /\ p.from <= remote /\ remote < p.from + p.span
      /\ page.physical = p.frame + (remote - p.from) /\ page.size = p.span
      /\ remote % p.span = remote - p.from
  BY <1>4 DEF IsTranslation, Maps
<1> HIDE DEF page
<1>6. n = Shorter(remaining, p.span - (remote - p.from))
  BY <1>5, Zenon DEF Chunk
<1>7. n \in Nat /\ n > 0 /\ n <= remaining /\ n <= p.span - (remote - p.from)
  BY <1>2, <1>3, <1>5, <1>6 DEF Shorter
<1> HIDE DEF n
<1>8. bytes \in Seq(Nat) /\ Len(bytes) = n
  <2>1. \A i \in 1 .. n : page.physical + i - 1 \in Nat
    BY <1>3, <1>5, <1>7
  <2> QED BY <1>7, <2>1
<1>9. \A i \in 1 .. n : bytes[i] = page.physical + i - 1
  OBVIOUS
<1> HIDE DEF bytes
<1>10. /\ output' \in Seq(Nat) /\ Len(output') = L + n
       /\ \A i \in 1 .. L + n : output'[i] = IF i <= L THEN output[i] ELSE bytes[i - L]
  BY <1>1, <1>2, <1>8, ConcatProperties
<1>11. Pages' = Pages
  BY <1>1 DEF Pages
<1>12. Copied(Pages', address', Len(output'), output')
  <2> SUFFICES ASSUME NEW i \in 1 .. L + n
               PROVE  \E q \in Pages :
                         /\ Maps(q, address + i - 1)
                         /\ output'[i] = q.frame + (address + i - 1 - q.from)
    BY <1>1, <1>10, <1>11 DEF Copied
  <2>1. CASE i <= L
    <3>1. i \in 1 .. L /\ output'[i] = output[i]
      BY <1>2, <1>10, <2>1
    <3>2. Copied(Pages, address, L, output)
      BY DEF WalkInv
    <3> QED BY <3>1, <3>2 DEF Copied
  <2>2. CASE i > L
    <3> DEFINE k == i - L
               a == address + i - 1
    <3>1. k \in 1 .. n /\ output'[i] = bytes[k]
      BY <1>2, <1>7, <1>10, <2>2
    <3>2. a = remote + k - 1 /\ a \in Nat
      BY <1>2, <1>7, <2>2
    <3> HIDE DEF k, a
    <3>3. output'[i] = page.physical + k - 1
      BY <1>9, <3>1
    <3>4. output'[i] = p.frame + (a - p.from)
      BY <1>3, <1>5, <1>7, <3>1, <3>2, <3>3
    <3>5. p.from <= a /\ a < p.from + p.span
      BY <1>3, <1>5, <1>7, <3>1, <3>2
    <3>6. Maps(p, a)
      BY <3>5 DEF Maps
    <3>7. a = address + i - 1
      BY DEF a
    <3>8. Maps(p, address + i - 1)
      BY <3>6, <3>7, Zenon
    <3>9. output'[i] = p.frame + (address + i - 1 - p.from)
      <4>1. a - p.from = address + i - 1 - p.from
        BY <1>2, <1>5, <3>7
      <4> QED BY <3>4, <4>1, Zenon
    <3> QED BY <3>8, <3>9, Zenon
  <2> QED BY <1>2, <1>7, <2>1, <2>2
<1>13. /\ remote' = address' + Len(output') /\ remaining' = size' - Len(output')
       /\ remaining' \in Nat
  <2>1. /\ remote' = remote + n /\ remaining' = remaining - n
        /\ address' = address /\ size' = size /\ Len(output') = L + n
    BY <1>1, <1>10
  <2> HIDE DEF L
  <2> QED BY <1>2, <1>7, <2>1
<1>14. /\ result' \in {"running", "ok"}
       /\ result' = "running" => remaining' > 0
       /\ result' = "ok" => remaining' = 0
  <2>1. CASE remaining = n
    BY <1>1, <1>2, <1>7, <2>1
  <2>2. CASE remaining # n
    <3>1. result' = "running"
      BY <1>1, <2>2
    <3>2. remaining' > 0
      <4>1. remaining' = remaining - n /\ remaining \in Nat
        BY <1>1, <1>2
      <4> QED BY <1>7, <2>2, <4>1
    <3> QED BY <3>1, <3>2
  <2> QED BY <2>1, <2>2
<1>15. RequestType'
  BY <1>1, <1>2 DEF RequestType
<1> QED BY <1>10, <1>12, <1>13, <1>14, <1>15 DEF WalkInv

LEMMA WalkInvNext == WalkInv /\ [WalkNext]_walk => WalkInv'
<1> SUFFICES ASSUME WalkInv, [WalkNext]_walk PROVE WalkInv'
  OBVIOUS
<1>1. CASE CopyChunk
  BY <1>1, CopyKeepsInv
<1>2. ASSUME UNCHANGED <<tree, address, size, remote, remaining, output>>,
             \/ result' = result /\ refused' = refused
             \/ result' = "failed" /\ (Hole \/ refused')
      PROVE  WalkInv'
  <2>1. RequestType'
    BY <1>2 DEF WalkInv, RequestType
  <2>2. Pages' = Pages
    BY <1>2 DEF Pages
  <2>3. Copied(Pages, address, Len(output), output)'
    BY <1>2, <2>2 DEF WalkInv, Copied
  <2>4. Hole' <=> Hole
    BY <1>2, <2>2 DEF Hole
  <2> QED BY <1>2, <2>1, <2>3, <2>4, Zenon DEF WalkInv
<1>3. CASE GiveUp
  <2>1. /\ UNCHANGED <<tree, address, size, remote, remaining, output>>
        /\ result = "running" /\ result' = "failed" /\ Translate(remote).physical = 0
    BY <1>3 DEF GiveUp, NotMapped
  <2>2. /\ address \in Nat /\ size \in Nat /\ address + size <= Space /\ Len(output) \in Nat
        /\ remote = address + Len(output) /\ remaining = size - Len(output)
        /\ remaining \in Nat /\ remaining > 0 /\ tree \in Trees
    BY <2>1 DEF WalkInv, RequestType
  <2>3. remote \in 0 .. Space - 1 /\ remote \in address .. address + size - 1
    <3>1. Space \in Nat
      BY Spans
    <3> QED BY <2>2, <3>1
  <2>4. \A p \in Pages : ~ IsTranslation(Translate(remote), p, remote)
    <3> SUFFICES ASSUME NEW p \in Pages, IsTranslation(Translate(remote), p, remote)
                 PROVE  FALSE
      OBVIOUS
    <3>1. /\ p.frame \in Nat \ {0} /\ p.from \in Nat /\ p.from <= remote
          /\ Translate(remote).physical = p.frame + (remote - p.from)
      BY DEF IsTranslation, Maps
    <3> QED BY <2>1, <2>3, <3>1
  <2>5. Translate(remote) = Failed
    BY <2>2, <2>3, <2>4, TranslateFindsPage
  <2>6. \A p \in Pages : ~ Maps(p, remote)
    BY <2>2, <2>3, <2>5, MappedIsTranslated
  <2>7. Hole
    BY <2>3, <2>6 DEF Hole
  <2> QED BY <1>2, <2>1, <2>7
<1>4. CASE KernelRefuses
  BY <1>2, <1>4 DEF KernelRefuses
<1>5. CASE UNCHANGED walk
  <2>1. /\ UNCHANGED <<tree, address, size, remote, remaining, output>>
        /\ result' = result /\ refused' = refused
    BY <1>5 DEF walk
  <2> QED BY <1>2, <2>1
<1> QED BY <1>1, <1>3, <1>4, <1>5 DEF WalkNext

LEMMA WalkInvSuffices == WalkInv => ReadInv
<1> SUFFICES ASSUME WalkInv PROVE ReadInv
  OBVIOUS
<1>1. /\ Len(output) \in Nat /\ size \in Nat /\ address \in Nat
      /\ remaining \in Nat /\ remaining = size - Len(output)
      /\ result = "ok" => remaining = 0
  BY DEF WalkInv, RequestType
<1>2. Copied(Pages, address, Len(output), output)
  BY DEF WalkInv
<1>3. ReadIsExact
  BY <1>1, <1>2 DEF ReadIsExact, Copied
<1>4. result = "ok" => ~ Hole
  <2> SUFFICES ASSUME result = "ok", NEW a \in address .. address + size - 1
               PROVE  \E p \in Pages : Maps(p, a)
    BY DEF Hole
  <2> DEFINE i == a - address + 1
  <2>1. i \in 1 .. Len(output) /\ address + i - 1 = a
    BY <1>1
  <2> HIDE DEF i
  <2>2. \E p \in Pages : Maps(p, address + i - 1)
    BY <1>2, <2>1, Zenon DEF Copied
  <2> QED BY <2>1, <2>2, Zenon
<1>5. FailsForHole
  BY <1>4 DEF FailsForHole, WalkInv, Hole
<1> QED BY <1>3, <1>5 DEF ReadInv

(***************************************************************************)
(* For every tree of page tables and every request: what proc_read         *)
(* delivers is byte for byte what the pages of the game map to the         *)
(* requested addresses; it fails only for a range with a hole (or when the *)
(* kernel refuses a read) and never succeeds for one.                      *)
(***************************************************************************)
THEOREM ReadsAreExact == WalkSpec => []ReadInv
<1>1. WalkSpec => []WalkInv
  BY WalkInvInit, WalkInvNext, PTL DEF WalkSpec
<1> QED BY <1>1, WalkInvSuffices, PTL
==============================================================================
