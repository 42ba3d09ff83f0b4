---------------------- MODULE ConcurrencyLimiter_proofs ----------------------
(***************************************************************************)
(* Proofs about ConcurrencyLimiter for every set of callers and every      *)
(* limit: its inductive invariant and that it implements SlotPool.         *)
(***************************************************************************)
EXTENDS ConcurrencyLimiter, SequenceTheorems, FiniteSetTheorems, TLAPS

QueueDistinct == \A i, j \in DOMAIN waiting : waiting[i] = waiting[j] => i = j
QueueSettled == \A c \in Callers :
                    slot[c] = "waiting" <=> \E i \in DOMAIN waiting : waiting[i] = c

(* The limiter's inductive invariant.                                      *)
IInv == TypeOK /\ SlotsAccounted /\ QueuedOnlyWhenFull /\ QueueDistinct /\ QueueSettled
            /\ active <= Limit

LEMMA RemoveAtFacts ==
    ASSUME NEW S, NEW q \in Seq(S), NEW i \in DOMAIN q
    PROVE  /\ RemoveAt(q, i) \in Seq(S)
           /\ Len(RemoveAt(q, i)) = Len(q) - 1
           /\ DOMAIN RemoveAt(q, i) = 1 .. Len(q) - 1
           /\ \A k \in 1 .. Len(q) - 1 :
                RemoveAt(q, i)[k] = IF k < i THEN q[k] ELSE q[k + 1]
<1> DEFINE a == SubSeq(q, 1, i - 1)
           b == SubSeq(q, i + 1, Len(q))
<1>0. Len(q) \in Nat /\ DOMAIN q = 1 .. Len(q) /\ i \in 1 .. Len(q)
  BY LenProperties
<1>1. a \in Seq(S) /\ Len(a) = i - 1 /\ \A k \in 1 .. i - 1 : a[k] = q[k]
  BY <1>0, SubSeqProperties
<1>2. b \in Seq(S) /\ Len(b) = Len(q) - i /\ \A k \in 1 .. Len(q) - i : b[k] = q[i + k]
  BY <1>0, SubSeqProperties
<1> HIDE DEF a, b
<1>3. RemoveAt(q, i) = a \o b
  BY DEF RemoveAt, a, b
<1>4. /\ a \o b \in Seq(S)
      /\ Len(a \o b) = Len(a) + Len(b)
      /\ \A k \in 1 .. Len(a) + Len(b) :
            (a \o b)[k] = IF k <= Len(a) THEN a[k] ELSE b[k - Len(a)]
  BY <1>1, <1>2, ConcatProperties
<1>5. Len(a) + Len(b) = Len(q) - 1
  BY <1>0, <1>1, <1>2
<1>6. DOMAIN (a \o b) = 1 .. Len(q) - 1
  BY <1>4, <1>5, LenProperties
<1>7. ASSUME NEW k \in 1 .. Len(q) - 1
      PROVE  (a \o b)[k] = IF k < i THEN q[k] ELSE q[k + 1]
  <2>1. (a \o b)[k] = IF k <= i - 1 THEN a[k] ELSE b[k - (i - 1)]
    BY <1>1, <1>4, <1>5
  <2>2. CASE k < i
    BY <2>1, <2>2, <1>0, <1>1
  <2>3. CASE k >= i
    <3>1. k - (i - 1) \in 1 .. Len(q) - i /\ i + (k - (i - 1)) = k + 1
      BY <2>3, <1>0
    <3>2. b[k - (i - 1)] = q[k + 1]
      BY <3>1, <1>2
    <3> QED
      BY <2>1, <2>3, <3>2, <1>0
  <2>4. k < i \/ k >= i
    BY <1>0
  <2> QED
    BY <2>2, <2>3, <2>4
<1> QED
  BY <1>3, <1>4, <1>5, <1>6, <1>7
-----------------------------------------------------------------------------
(* The facts about Callers' states that several actions need.              *)
LEMMA HoldersFinite == IsFiniteSet(Holders) /\ Cardinality(Holders) \in Nat
  BY CallersAssumption, FS_Subset, FS_CardinalityType DEF Holders

LEMMA InitIInv == Init => IInv
<1> SUFFICES ASSUME Init PROVE IInv
  OBVIOUS
<1>1. TypeOK
  BY DEF Init, TypeOK, SlotState
<1>2. Holders = {}
  BY DEF Init, Holders
<1>3. SlotsAccounted
  BY <1>2, FS_EmptySet DEF Init, SlotsAccounted
<1>4. DOMAIN waiting = {}
  BY DEF Init
<1> QED
  BY <1>1, <1>3, <1>4, LimitAssumption
     DEF Init, IInv, QueuedOnlyWhenFull, QueueDistinct, QueueSettled

LEMMA GrantNowIInv == ASSUME IInv, NEW c \in Callers, GrantNow(c) PROVE IInv'
<1> USE DEF IInv
<1>1. TypeOK'
  BY DEF TypeOK, GrantNow, SlotState
<1>2. Holders' = Holders \union {c} /\ c \notin Holders
  BY DEF GrantNow, TypeOK, Holders
<1>3. SlotsAccounted'
  BY <1>2, HoldersFinite, FS_AddElement DEF SlotsAccounted, GrantNow
<1>4. waiting = <<>> /\ active' <= Limit
  BY LimitAssumption DEF GrantNow, QueuedOnlyWhenFull, TypeOK
<1>5. QueuedOnlyWhenFull' /\ QueueDistinct'
  BY <1>4 DEF GrantNow, QueuedOnlyWhenFull, QueueDistinct
<1>6. QueueSettled'
  BY DEF GrantNow, QueueSettled, TypeOK
<1> QED
  BY <1>1, <1>3, <1>4, <1>5, <1>6

LEMMA EnqueueIInv == ASSUME IInv, NEW c \in Callers, Enqueue(c) PROVE IInv'
<1> USE DEF IInv
<1>1. TypeOK'
  BY DEF TypeOK, Enqueue, SlotState
<1>2. Holders' = Holders
  BY DEF Enqueue, TypeOK, Holders
<1>3. SlotsAccounted' /\ active' <= Limit
  BY <1>2 DEF SlotsAccounted, Enqueue
<1>4. QueuedOnlyWhenFull'
  BY LimitAssumption DEF Enqueue, QueuedOnlyWhenFull, TypeOK
<1>5. /\ DOMAIN waiting = 1 .. Len(waiting) /\ Len(waiting) \in Nat
      /\ DOMAIN waiting' = 1 .. Len(waiting) + 1
      /\ \A i \in 1 .. Len(waiting) : waiting'[i] = waiting[i]
      /\ waiting'[Len(waiting) + 1] = c
  BY LenProperties, AppendProperties DEF Enqueue, TypeOK
<1>6. \A i \in DOMAIN waiting : waiting[i] # c
  BY DEF QueueSettled, Enqueue
<1>7. QueueDistinct'
  BY <1>5, <1>6 DEF QueueDistinct
<1>8. QueueSettled'
  BY <1>5, <1>6 DEF QueueSettled, Enqueue, TypeOK
<1> QED
  BY <1>1, <1>3, <1>4, <1>7, <1>8

LEMMA TimerFiresIInv == ASSUME IInv, NEW c \in Callers, TimerFires(c) PROVE IInv'
<1> USE DEF IInv
<1>1. PICK i \in DOMAIN waiting : waiting[i] = c /\ waiting' = RemoveAt(waiting, i)
  BY DEF TimerFires
<1>2. slot[c] = "waiting" /\ slot' = [slot EXCEPT ![c] = "refused"] /\ active' = active
  BY DEF TimerFires, Settle
<1>3. /\ waiting' \in Seq(Callers)
      /\ DOMAIN waiting' = 1 .. Len(waiting) - 1
      /\ \A k \in 1 .. Len(waiting) - 1 :
            waiting'[k] = IF k < i THEN waiting[k] ELSE waiting[k + 1]
      /\ DOMAIN waiting = 1 .. Len(waiting) /\ Len(waiting) \in Nat
  BY <1>1, RemoveAtFacts, LenProperties DEF TypeOK
<1>4. TypeOK'
  BY <1>2, <1>3 DEF TypeOK, SlotState
<1>5. Holders' = Holders
  BY <1>2 DEF Holders, TypeOK
<1>6. SlotsAccounted' /\ active' <= Limit
  BY <1>2, <1>5 DEF SlotsAccounted
<1>7. QueuedOnlyWhenFull'
  BY <1>1, <1>2, <1>3 DEF QueuedOnlyWhenFull, TypeOK
<1>8. QueueDistinct'
  <2> DEFINE origin(k) == IF k < i THEN k ELSE k + 1
  <2>1. \A k \in DOMAIN waiting' :
          /\ k \in Nat
          /\ origin(k) \in DOMAIN waiting
          /\ waiting'[k] = waiting[origin(k)]
    BY <1>3
  <2>2. \A j, k \in DOMAIN waiting' : waiting'[j] = waiting'[k] => origin(j) = origin(k)
    BY <2>1 DEF QueueDistinct
  <2>3. \A j, k \in Nat : origin(j) = origin(k) => j = k
    BY <1>3
  <2> HIDE DEF origin
  <2> QED
    BY <2>1, <2>2, <2>3 DEF QueueDistinct
<1>9. \A k \in DOMAIN waiting : k # i => waiting[k] # c
  BY <1>1 DEF QueueDistinct
<1>10. \A x \in Callers :
         (\E k \in DOMAIN waiting' : waiting'[k] = x)
           <=> x # c /\ \E k \in DOMAIN waiting : waiting[k] = x
  <2> TAKE x \in Callers
  <2>1. ASSUME NEW k \in DOMAIN waiting', waiting'[k] = x
        PROVE  x # c /\ \E j \in DOMAIN waiting : waiting[j] = x
    <3>1. CASE k < i
      BY <1>1, <1>3, <1>9, <2>1, <3>1
    <3>2. CASE ~(k < i)
      <4>1. k + 1 \in DOMAIN waiting /\ k + 1 # i /\ waiting[k + 1] = x
        BY <1>1, <1>3, <2>1, <3>2
      <4> QED
        BY <4>1, <1>9
    <3> QED
      BY <3>1, <3>2
  <2>2. ASSUME x # c, NEW j \in DOMAIN waiting, waiting[j] = x
        PROVE  \E k \in DOMAIN waiting' : waiting'[k] = x
    <3>1. CASE j < i
      <4>1. j \in DOMAIN waiting' /\ waiting'[j] = x
        BY <1>1, <1>3, <2>2, <3>1
      <4> QED
        BY <4>1
    <3>2. CASE ~(j < i)
      <4>1. j - 1 \in DOMAIN waiting' /\ waiting'[j - 1] = x
        BY <1>1, <1>3, <2>2, <3>2
      <4> QED
        BY <4>1
    <3> QED
      BY <3>1, <3>2
  <2> QED
    BY <2>1, <2>2
<1>11. QueueSettled'
  BY <1>2, <1>10 DEF QueueSettled, TypeOK
<1> QED
  BY <1>4, <1>6, <1>7, <1>8, <1>11

LEMMA HandOverIInv == ASSUME IInv, NEW c \in Callers, HandOver(c) PROVE IInv'
<1> USE DEF IInv
<1> DEFINE next == Head(waiting)
<1>1. /\ DOMAIN waiting = 1 .. Len(waiting) /\ Len(waiting) \in Nat
      /\ 1 \in DOMAIN waiting /\ next = waiting[1] /\ next \in Callers
  BY LenProperties, HeadTailProperties, EmptySeq DEF HandOver, TypeOK
<1>2. /\ waiting' \in Seq(Callers)
      /\ DOMAIN waiting' = 1 .. Len(waiting) - 1
      /\ \A k \in 1 .. Len(waiting) - 1 : waiting'[k] = waiting[k + 1]
  BY LenProperties, HeadTailProperties DEF HandOver, TypeOK
<1>3. slot[next] = "waiting" /\ next # c
  BY <1>1 DEF QueueSettled, HandOver
<1>4. slot' = [slot EXCEPT ![c] = "idle", ![next] = "held"]
  BY <1>3, <1>1 DEF HandOver, TypeOK
<1> HIDE DEF next
<1>5. TypeOK'
  BY <1>1, <1>2, <1>4 DEF TypeOK, SlotState, HandOver
<1>6. Cardinality(Holders') = Cardinality(Holders)
  <2>1. Holders' = (Holders \ {c}) \union {next}
    BY <1>1, <1>3, <1>4 DEF Holders, TypeOK
  <2>2. c \in Holders /\ next \notin Holders
    BY <1>3 DEF Holders, HandOver
  <2>3. IsFiniteSet(Holders \ {c}) /\ Cardinality(Holders \ {c}) = Cardinality(Holders) - 1
    BY <2>2, HoldersFinite, FS_RemoveElement
  <2>4. Cardinality((Holders \ {c}) \union {next}) = Cardinality(Holders \ {c}) + 1
    BY <2>2, <2>3, FS_AddElement
  <2> QED
    BY <2>1, <2>3, <2>4, HoldersFinite
<1>7. SlotsAccounted' /\ active' <= Limit
  BY <1>6 DEF SlotsAccounted, HandOver
<1>8. QueuedOnlyWhenFull'
  BY DEF QueuedOnlyWhenFull, HandOver
<1>9. QueueDistinct'
  <2>1. \A k \in DOMAIN waiting' :
          k \in Nat /\ k + 1 \in DOMAIN waiting /\ waiting'[k] = waiting[k + 1]
    BY <1>1, <1>2
  <2>2. \A j, k \in DOMAIN waiting' : waiting'[j] = waiting'[k] => j + 1 = k + 1
    BY <2>1 DEF QueueDistinct
  <2> QED
    BY <2>1, <2>2 DEF QueueDistinct
<1>10. \A x \in Callers :
         (\E k \in DOMAIN waiting' : waiting'[k] = x)
           <=> x # next /\ \E k \in DOMAIN waiting : waiting[k] = x
  <2> TAKE x \in Callers
  <2>1. ASSUME NEW k \in DOMAIN waiting', waiting'[k] = x
        PROVE  x # next /\ \E j \in DOMAIN waiting : waiting[j] = x
    <3>1. k + 1 \in DOMAIN waiting /\ waiting[k + 1] = x /\ k + 1 # 1
      BY <1>1, <1>2, <2>1
    <3> QED
      BY <1>1, <3>1 DEF QueueDistinct
  <2>2. ASSUME x # next, NEW j \in DOMAIN waiting, waiting[j] = x
        PROVE  \E k \in DOMAIN waiting' : waiting'[k] = x
    <3>1. j # 1
      BY <1>1, <2>2
    <3>2. j - 1 \in DOMAIN waiting' /\ waiting'[j - 1] = x
      BY <1>1, <1>2, <2>2, <3>1
    <3> QED
      BY <3>2
  <2> QED
    BY <2>1, <2>2
<1>11. QueueSettled'
  BY <1>1, <1>3, <1>4, <1>10 DEF QueueSettled, TypeOK, HandOver
<1> QED
  BY <1>5, <1>7, <1>8, <1>9, <1>11

LEMMA FreeIInv == ASSUME IInv, NEW c \in Callers, Free(c) PROVE IInv'
<1> USE DEF IInv
<1>1. TypeOK'
  BY DEF TypeOK, SlotState, Free
<1>2. Holders' = Holders \ {c} /\ c \in Holders
  BY DEF Holders, TypeOK, Free
<1>3. Cardinality(Holders') = Cardinality(Holders) - 1 /\ Cardinality(Holders') \in Nat
  BY <1>2, HoldersFinite, FS_RemoveElement, FS_CardinalityType
<1>4. SlotsAccounted' /\ active' <= Limit
  BY <1>3, HoldersFinite, LimitAssumption DEF SlotsAccounted, Free, TypeOK
<1>5. QueuedOnlyWhenFull' /\ QueueDistinct' /\ waiting' = <<>>
  BY DEF QueuedOnlyWhenFull, QueueDistinct, Free
<1>6. QueueSettled'
  BY DEF QueueSettled, Free, TypeOK
<1> QED
  BY <1>1, <1>4, <1>5, <1>6

LEMMA NextIInv == IInv /\ [Next]_vars => IInv'
<1> SUFFICES ASSUME IInv, [Next]_vars PROVE IInv'
  OBVIOUS
<1>1. CASE UNCHANGED vars
  BY <1>1 DEF vars, IInv, TypeOK, SlotsAccounted, Holders, QueuedOnlyWhenFull,
              QueueDistinct, QueueSettled
<1>2. CASE Next
  BY <1>2, GrantNowIInv, EnqueueIInv, TimerFiresIInv, HandOverIInv, FreeIInv
     DEF Next, Acquire, Release
<1> QED
  BY <1>1, <1>2

LEMMA Inductive == Spec => []IInv
<1> QED
  BY InitIInv, NextIInv, PTL DEF Spec
-----------------------------------------------------------------------------
(* The variables keep their types.                                         *)
THEOREM TypeCorrect == Spec => []TypeOK
<1>1. IInv => TypeOK
  BY DEF IInv
<1> QED
  BY <1>1, Inductive, PTL

(* No slot is ever lost or granted twice, so the limit bounds the calls in *)
(* flight, for every limit and every number of callers.                    *)
THEOREM SlotsNeverLost == Spec => [](SlotsAccounted /\ AtMostLimit)
<1>1. IInv => SlotsAccounted /\ AtMostLimit
  BY DEF IInv, SlotsAccounted, AtMostLimit
<1> QED
  BY <1>1, Inductive, PTL

(* Nobody waits while a slot is free.                                      *)
THEOREM WorkConserving == Spec => []QueuedOnlyWhenFull
<1>1. IInv => QueuedOnlyWhenFull
  BY DEF IInv
<1> QED
  BY <1>1, Inductive, PTL

(* The queue and the unsettled promises agree.                             *)
THEOREM QueueFaithful == Spec => []QueueMatchesPromises
<1>1. IInv => QueueMatchesPromises
  <2> SUFFICES ASSUME IInv PROVE QueueMatchesPromises
    OBVIOUS
  <2>1. \A i \in DOMAIN waiting : waiting[i] \in Callers
    BY ElementOfSeq, LenProperties DEF IInv, TypeOK
  <2> QED
    BY <2>1 DEF IInv, QueueMatchesPromises, QueueDistinct, QueueSettled, Range
<1> QED
  BY <1>1, Inductive, PTL

LEMMA SameCardinality == \A S : Pool!Cardinality(S) = Cardinality(S)
  BY Zenon DEF Pool!Cardinality, Cardinality

(* The counter, the array and the timers implement the abstract pool.      *)
THEOREM LimiterImplementsSlotPool == Spec => ImplementsSlotPool
<1>1. Init => Pool!Init
  BY DEF Init, Pool!Init, Holders
<1>2. IInv /\ [Next]_vars => [Pool!Next]_(Pool!poolVars)
  <2> SUFFICES ASSUME IInv, [Next]_vars PROVE [Pool!Next]_(Pool!poolVars)
    OBVIOUS
  <2> USE DEF IInv, Pool!poolVars
  <2>1. CASE UNCHANGED vars
    BY <2>1 DEF vars, Holders
  <2>2. ASSUME NEW c \in Callers, GrantNow(c) PROVE Pool!Take(c)
    <3>1. waiting = <<>>
      BY <2>2 DEF GrantNow, QueuedOnlyWhenFull, TypeOK
    <3>2. Holders' = Holders \union {c} /\ c \notin Holders
      BY <2>2 DEF GrantNow, TypeOK, Holders
    <3> QED
      BY <2>2, <3>1, <3>2, SameCardinality DEF GrantNow, Pool!Take, SlotsAccounted
  <2>3. ASSUME NEW c \in Callers, Enqueue(c) PROVE Pool!LineUp(c)
    <3>1. Holders' = Holders /\ c \notin Holders
      BY <2>3 DEF Enqueue, TypeOK, Holders
    <3>2. c \notin Range(waiting)
      BY <2>3 DEF Enqueue, QueueSettled, Range
    <3>3. Cardinality(Holders) = Limit
      BY <2>3, LimitAssumption DEF Enqueue, SlotsAccounted, TypeOK
    <3> QED
      BY <2>3, <3>1, <3>2, <3>3, SameCardinality DEF Enqueue, Pool!LineUp, Pool!Range, Range
  <2>4. ASSUME NEW c \in Callers, TimerFires(c) PROVE Pool!GiveUp(c)
    <3>1. Holders' = Holders
      BY <2>4 DEF TimerFires, Settle, TypeOK, Holders
    <3> QED
      BY <2>4, <3>1 DEF TimerFires, Pool!GiveUp, Pool!RemoveAt, RemoveAt
  <2>5. ASSUME NEW c \in Callers, HandOver(c) PROVE Pool!GiveBack(c)
    <3>1. Head(waiting) \in Callers /\ slot[Head(waiting)] = "waiting"
      <4>1. 1 \in DOMAIN waiting /\ Head(waiting) = waiting[1] /\ Head(waiting) \in Callers
        BY <2>5, LenProperties, HeadTailProperties, EmptySeq DEF HandOver, TypeOK
      <4> QED
        BY <4>1 DEF QueueSettled
    <3>2. slot' = [slot EXCEPT ![c] = "idle", ![Head(waiting)] = "held"]
      BY <2>5, <3>1 DEF HandOver, TypeOK
    <3>3. Holders' = (Holders \ {c}) \union {Head(waiting)} /\ c \in Holders
      BY <2>5, <3>1, <3>2 DEF HandOver, Holders, TypeOK
    <3> QED
      BY <2>5, <3>3 DEF HandOver, Pool!GiveBack
  <2>6. ASSUME NEW c \in Callers, Free(c) PROVE Pool!GiveBack(c)
    <3>1. Holders' = Holders \ {c} /\ c \in Holders
      BY <2>6 DEF Free, Holders, TypeOK
    <3> QED
      BY <2>6, <3>1 DEF Free, Pool!GiveBack
  <2>7. CASE Next
    BY <2>7, <2>2, <2>3, <2>4, <2>5, <2>6 DEF Next, Acquire, Release, Pool!Next
  <2> QED
    BY <2>1, <2>7
<1> QED
  BY <1>1, <1>2, Inductive, PTL DEF Spec, ImplementsSlotPool, Pool!Spec
=============================================================================
