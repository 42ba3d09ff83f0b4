---------------------------- MODULE LockCheck_proofs ----------------------------
(***************************************************************************)
(* The answer to check-lock is right for any directories, chains and twins *)
(* and however many locks come and go while it is found.  The invariant is *)
(* about a walk without an error so far: every query is still on the       *)
(* agenda or its standing locks are found, every search for twins is still *)
(* on the agenda or its targets are.                                       *)
(***************************************************************************)
EXTENDS LockCheck, Ranks, SequenceTheorems, FiniteSetTheorems, TLAPS

Items == {"collect", "twins"} \X DOMAIN Chain

TypeOK ==
    /\ constant \subseteq locks /\ locks \subseteq ever
    /\ agenda \in Seq(Items)
    /\ pos \in Nat \ {0} /\ (agenda # <<>> => pos <= Len(Chain[Query]))
    /\ main \in BOOLEAN /\ errors \in BOOLEAN
    /\ stage \in {"begin", "main", "walk", "done"}

(* Nothing is decided before the end, nothing known before the walk.       *)
Undecided == stage # "done" => verdict = "none"
Unstarted ==
    stage \in {"begin", "main"} => ~main /\ ~errors /\ found = {} /\ active = {} /\ checked = {}

Asks(kind, q) == <<kind, q>> \in Range(agenda)

(* The ancestors that the first item of the agenda has passed.             *)
Passed ==
    agenda # <<>> =>
        \A i \in 1..(pos - 1) :
            /\ Kind = "collect" /\ Chain[Query][i] \in constant => Chain[Query][i] \in active
            /\ Kind = "twins" => Twins[Chain[Query][i]].status = "not-applicable"

Searched(q) == Asks("collect", q) \/ constant \intersect Range(Chain[q]) \subseteq found
TwinsKnown(q) == Asks("twins", q) \/ TwinTargets(q) \subseteq checked

Complete ==
    /\ \A q \in Queries \union checked : Searched(q)
    /\ twinCfg = "read" => \A q \in Queries : TwinsKnown(q)

(* What is asked, found or seen belongs to the query.                      *)
Known == Queries \union UNION {TwinTargets(q) : q \in Queries}
Honest ==
    /\ found \subseteq ever \intersect Covering(Known)
    /\ active \subseteq ever \intersect Covering(Known)
    /\ checked \subseteq Known
    /\ \A q : (Asks("collect", q) => q \in Known) /\ (Asks("twins", q) => q \in Queries)

Walk == stage = "walk" /\ ~errors => Passed /\ Complete /\ Honest
Told == ClearMeansFree /\ ClearMeansTwinsFree /\ LockedMeansSeen
Right == TypeOK /\ Undecided /\ Unstarted /\ Walk /\ Told

--------------------------------------------------------------------------------
(* Sequences and what is in them.                                          *)
LEMMA FirstAndRest ==
  ASSUME NEW S, NEW s \in Seq(S), s # <<>>
  PROVE  /\ Head(s) \in S /\ Tail(s) \in Seq(S)
         /\ Range(s) = {Head(s)} \union Range(Tail(s))
<1>1. Head(s) \in S /\ Tail(s) \in Seq(S) /\ Len(Tail(s)) = Len(s) - 1
      /\ \A i \in 1..Len(Tail(s)) : Tail(s)[i] = s[i + 1]
  BY HeadTailProperties
<1>2. Len(s) \in Nat \ {0} /\ Head(s) = s[1] OBVIOUS
<1>3. Range(s) = {s[i] : i \in 1..Len(s)} BY RangeEquality
<1>4. Range(Tail(s)) = {Tail(s)[i] : i \in 1..Len(Tail(s))} BY <1>1, RangeEquality
<1>5. ASSUME NEW x \in Range(s) PROVE x \in {Head(s)} \union Range(Tail(s))
  <2>1. PICK i \in 1..Len(s) : x = s[i] BY <1>3, <1>5
  <2>2. CASE i = 1 BY <2>1, <2>2, <1>2
  <2>3. CASE i # 1
    <3>1. i - 1 \in 1..Len(Tail(s)) /\ (i - 1) + 1 = i BY <2>1, <2>3, <1>1, <1>2
    <3>2. Tail(s)[i - 1] = x BY <3>1, <2>1, <1>1
    <3> QED BY <3>1, <3>2, <1>4
  <2> QED BY <2>2, <2>3
<1>6. ASSUME NEW x \in {Head(s)} \union Range(Tail(s)) PROVE x \in Range(s)
  <2>1. CASE x = Head(s) BY <2>1, <1>2, <1>3
  <2>2. CASE x \in Range(Tail(s))
    <3>1. PICK i \in 1..Len(Tail(s)) : x = Tail(s)[i] BY <2>2, <1>4
    <3>2. i + 1 \in 1..Len(s) /\ s[i + 1] = x BY <3>1, <1>1, <1>2
    <3> QED BY <3>2, <1>3
  <2> QED BY <1>6, <2>1, <2>2
<1> QED BY <1>1, <1>5, <1>6

LEMMA SeqOfSet ==
  ASSUME NEW S, IsFiniteSet(S)
  PROVE  SetToSeq(S) \in Seq(S) /\ Range(SetToSeq(S)) = S
<1> DEFINE n == Cardinality(S)
           f == SetToSeq(S)
<1>1. n \in Nat /\ ExistsBijection(1..n, S) BY FS_CardinalityType
<1>2. PICK g : g \in [1..n -> S] /\ IsInjective(g)
  BY <1>1 DEF ExistsBijection, Bijection, Injection
<1>3. f \in [1..n -> S] /\ IsInjective(f) BY <1>2 DEF SetToSeq
<1>4. f \in Injection(1..n, S) BY <1>3 DEF Injection
<1>5. IsFiniteSet(1..n) /\ Cardinality(1..n) = n BY <1>1, FS_Interval
<1>6. f \in Surjection(1..n, S) BY <1>4, <1>5, FS_Injection
<1>7. Range(f) = S
  <2> HIDE DEF n, f
  <2> QED BY <1>6 DEF Surjection, Range
<1>8. f \in Seq(S) BY <1>1, <1>3, IsASeq
<1> QED BY <1>7, <1>8

(* Items made of a sequence of queries.                                    *)
LEMMA ItemsOf ==
  ASSUME NEW kind \in {"collect", "twins"}, NEW s \in Seq(DOMAIN Chain)
  PROVE  LET items == [i \in DOMAIN s |-> <<kind, s[i]>>]
         IN  items \in Seq(Items) /\ \A x : x \in Range(items) <=> \E q \in Range(s) : x = <<kind, q>>
<1> DEFINE items == [i \in DOMAIN s |-> <<kind, s[i]>>]
<1>1. Len(s) \in Nat /\ DOMAIN s = 1..Len(s) /\ \A i \in 1..Len(s) : s[i] \in DOMAIN Chain
  BY LenProperties, ElementOfSeq
<1>2. items \in [1..Len(s) -> Items] BY <1>1 DEF Items
<1>3. items \in Seq(Items) BY <1>1, <1>2, IsASeq
<1>4. \A x : x \in Range(items) <=> \E q \in Range(s) : x = <<kind, q>>
  BY DEF Range
<1> QED BY <1>3, <1>4

LEMMA Chains ==
  ASSUME NEW q \in DOMAIN Chain
  PROVE  /\ Len(Chain[q]) \in Nat \ {0}
         /\ Range(Chain[q]) = {Chain[q][i] : i \in 1..Len(Chain[q])}
         /\ \A i \in 1..Len(Chain[q]) : Chain[q][i] \in Dirs
<1>1. Chain[q] \in Seq(Dirs) /\ Chain[q] # <<>> BY LockCheckAssumption
<1> QED BY <1>1, RangeEquality, ElementOfSeq, LenProperties, EmptySeq

LEMMA FirstItem ==
  ASSUME TypeOK, agenda # <<>>
  PROVE  /\ Kind \in {"collect", "twins"} /\ Query \in DOMAIN Chain
         /\ Tail(agenda) \in Seq(Items)
         /\ pos \in 1..Len(Chain[Query]) /\ Here \in Dirs /\ Here \in Range(Chain[Query])
         /\ \A k, q : Asks(k, q) <=> (k = Kind /\ q = Query) \/ <<k, q>> \in Range(Tail(agenda))
<1>1. Head(agenda) \in Items /\ Tail(agenda) \in Seq(Items)
      /\ Range(agenda) = {Head(agenda)} \union Range(Tail(agenda))
  BY FirstAndRest DEF TypeOK
<1>2. Head(agenda) = <<Kind, Query>> /\ Kind \in {"collect", "twins"} /\ Query \in DOMAIN Chain
  BY <1>1 DEF Items, Kind, Query
<1>3. pos \in 1..Len(Chain[Query]) /\ Here \in Dirs /\ Here \in Range(Chain[Query])
  BY <1>2, Chains DEF TypeOK, Here
<1> QED BY <1>1, <1>2, <1>3 DEF Asks

(* The nearest ancestor that has a say decides.                            *)
LEMMA NearestSays ==
  ASSUME NEW q \in DOMAIN Chain, NEW n \in 1..Len(Chain[q]),
         Twins[Chain[q][n]].status # "not-applicable",
         \A i \in 1..(n - 1) : Twins[Chain[q][i]].status = "not-applicable"
  PROVE  TwinTargets(q) = Twins[Chain[q][n]].targets
<1> DEFINE says == {i \in DOMAIN Chain[q] : Twins[Chain[q][i]].status # "not-applicable"}
<1>1. DOMAIN Chain[q] = 1..Len(Chain[q]) /\ Len(Chain[q]) \in Nat
  BY LockCheckAssumption, LenProperties
<1>2. n \in says /\ \A i \in says : n <= i BY <1>1
<1>3. Min(says) = n
  <2> HIDE DEF says
  <2>1. \A i \in says : i \in Int BY <1>1 DEF says
  <2> QED BY <1>2, <2>1 DEF Min
<1> QED BY <1>2, <1>3 DEF TwinTargets

LEMMA NobodySays ==
  ASSUME NEW q \in DOMAIN Chain,
         \A i \in 1..Len(Chain[q]) : Twins[Chain[q][i]].status = "not-applicable"
  PROVE  TwinTargets(q) = {}
<1>1. DOMAIN Chain[q] = 1..Len(Chain[q]) BY LockCheckAssumption, LenProperties
<1> QED BY <1>1 DEF TwinTargets

--------------------------------------------------------------------------------
LEMMA InitRight == Init => Right
<1> SUFFICES ASSUME Init PROVE Right OBVIOUS
<1>1. agenda \in Seq(Items) BY EmptySeq DEF Init
<1>2. /\ constant = locks /\ ever = locks /\ pos = 1 /\ ~main /\ ~errors /\ stage = "begin"
      /\ main \in BOOLEAN /\ errors \in BOOLEAN
      /\ found = {} /\ active = {} /\ checked = {} /\ verdict = "none" /\ agenda = <<>>
  BY DEF Init
<1>3. TypeOK BY <1>1, <1>2 DEF TypeOK
<1>4. Undecided /\ Unstarted BY <1>2 DEF Undecided, Unstarted
<1> QED BY <1>2, <1>3, <1>4 DEF Right, Walk, Told, ClearMeansFree, ClearMeansTwinsFree, LockedMeansSeen

(* Others may only add locks, and take from those that have always stood.  *)
LEMMA WorldKeeps ==
  ASSUME Right, constant' \subseteq constant, ever \subseteq ever',
         constant' \subseteq locks', locks' \subseteq ever',
         UNCHANGED <<stage, main, twinCfg, agenda, pos, active, found, checked, errors, verdict>>
  PROVE  Right'
<1>1. TypeOK' /\ Undecided' /\ Unstarted' BY DEF Right, TypeOK, Undecided, Unstarted, Query
<1>2. Passed => Passed' BY DEF Passed, Kind, Query
<1>3. Complete => Complete'
  BY DEF Complete, Searched, TwinsKnown, Asks, Queries, TwinTargets
<1>4. Honest => Honest'
  BY DEF Honest, Asks, Known, Queries, TwinTargets
<1>5. Walk' BY <1>2, <1>3, <1>4 DEF Right, Walk
<1>6. Told'
  BY DEF Right, Told, ClearMeansFree, ClearMeansTwinsFree, LockedMeansSeen, Queries, TwinTargets
<1> QED BY <1>1, <1>5, <1>6 DEF Right

LEMMA BeginKeeps == ASSUME Right, Begin PROVE Right'
BY DEF Begin, Answer, world, Right, TypeOK, Query, Undecided, Unstarted, Walk, Told, ClearMeansFree,
       ClearMeansTwinsFree, LockedMeansSeen

(* A step of the walk that does not end it.                                *)
LEMMA StepKeeps ==
  ASSUME Right, stage = "walk", NoAnswer, UNCHANGED <<world, main, twinCfg>>, TypeOK',
         ~errors' => ~errors /\ Passed' /\ Complete' /\ Honest'
  PROVE  Right'
<1>1. verdict' = "none" /\ stage' = "walk" BY DEF Right, Undecided, NoAnswer
<1> QED BY <1>1 DEF Right, Undecided, Unstarted, Walk, Told, ClearMeansFree,
                    ClearMeansTwinsFree, LockedMeansSeen

LEMMA ConcludeKeeps == ASSUME Right, Conclude PROVE Right'
<1>1. stage = "walk" /\ agenda = <<>> /\ UNCHANGED <<world, main, twinCfg, agenda, pos, active,
         found, checked, errors>> /\ stage' = "done"
  BY DEF Conclude, Answer
<1>2. TypeOK' /\ Undecided' /\ Unstarted' /\ Walk'
  BY <1>1 DEF Right, TypeOK, world, Undecided, Unstarted, Walk, Query
<1>3. \A k, q : ~Asks(k, q) BY <1>1 DEF Asks, Range
<1>4. ASSUME verdict' = "clear" PROVE Told'
  <2>1. ~errors /\ found = {} BY <1>4 DEF Conclude, Answer
  <2>2. \A q \in Queries \union checked : constant \intersect Range(Chain[q]) = {}
    BY <1>1, <1>3, <2>1 DEF Right, Walk, Complete, Searched
  <2>3. twinCfg = "read" => \A q \in Queries : TwinTargets(q) \subseteq checked
    BY <1>1, <1>3, <2>1 DEF Right, Walk, Complete, TwinsKnown
  <2>4. constant \intersect Covering(Queries) = {} BY <2>2 DEF Covering
  <2>5. twinCfg = "read" => constant \intersect Covering(UNION {TwinTargets(q) : q \in Queries}) = {}
    BY <2>2, <2>3 DEF Covering
  <2> QED BY <1>1, <1>4, <2>4, <2>5
          DEF Told, ClearMeansFree, ClearMeansTwinsFree, LockedMeansSeen, Queries, world
<1>5. ASSUME verdict' = "locked" PROVE Told'
  <2>1. ~errors /\ found # {} BY <1>5 DEF Conclude, Answer
  <2>2. found \subseteq ever \intersect Covering(Known) BY <1>1, <2>1 DEF Right, Walk, Honest
  <2> QED BY <1>1, <1>5, <2>1, <2>2
          DEF Told, ClearMeansFree, ClearMeansTwinsFree, LockedMeansSeen, Known, Queries, world
<1>6. ASSUME verdict' \notin {"clear", "locked"} PROVE Told'
  BY <1>6 DEF Told, ClearMeansFree, ClearMeansTwinsFree, LockedMeansSeen
<1> QED BY <1>2, <1>4, <1>5, <1>6 DEF Right

(* At the head of the next item nothing has been passed.                   *)
LEMMA FreshItem ==
  ASSUME agenda' \in Seq(Items), pos' = 1
  PROVE  Passed' /\ (agenda # <<>> => pos <= Len(Chain[Query]))'
<1> SUFFICES ASSUME agenda' # <<>> PROVE Passed' /\ pos' <= Len(Chain[Query'])
  BY DEF Passed
<1>1. Head(agenda') \in Items BY HeadTailProperties
<1>2. Query' \in DOMAIN Chain BY <1>1 DEF Query, Items
<1>3. Len(Chain[Query']) \in Nat \ {0} BY <1>2, Chains
<1>4. 1..(pos' - 1) = {} OBVIOUS
<1> QED BY <1>3, <1>4 DEF Passed

LEMMA ReadFailsKeeps == ASSUME Right, ReadFails PROVE Right'
<1>1. /\ stage = "walk" /\ agenda # <<>> /\ agenda' = Tail(agenda) /\ pos' = 1 /\ errors' = TRUE
      /\ UNCHANGED <<world, main, twinCfg>> /\ NoAnswer
  BY DEF ReadFails, Proceed
<1>2. TypeOK'
  BY <1>1, FirstItem, FreshItem DEF Right, TypeOK, NoAnswer, world
<1> QED BY <1>1, <1>2, StepKeeps

(* The ancestor read joins those passed.                                   *)
LEMMA ReadDirKeeps == ASSUME Right, ReadDir PROVE Right'
<1>1. /\ stage = "walk" /\ agenda # <<>> /\ Kind = "collect" /\ pos < Len(Chain[Query])
      /\ active' = active \union ({Here} \intersect locks)
      /\ agenda' = agenda /\ pos' = pos + 1
      /\ UNCHANGED <<world, main, twinCfg, found, checked, errors>> /\ NoAnswer
  BY DEF ReadDir, Climb
<1>2. TypeOK' BY <1>1, Chains DEF Right, TypeOK, NoAnswer, world, Query
<1>3. Query \in DOMAIN Chain /\ Asks("collect", Query)
  BY <1>1, FirstItem DEF Right
<1>4. Len(Chain[Query]) \in Nat /\ pos \in 1..Len(Chain[Query])
      /\ \A i \in 1..Len(Chain[Query]) : Chain[Query][i] \in Range(Chain[Query])
  BY <1>1, <1>3, Chains DEF Right, TypeOK
<1>5. ASSUME ~errors PROVE Passed' /\ Complete' /\ Honest'
  <2>1. Passed /\ Complete /\ Honest BY <1>1, <1>5 DEF Right, Walk
  <2>2. Passed'
    <3>1. Kind' = Kind /\ Query' = Query /\ pos' <= Len(Chain[Query])
      BY <1>1, <1>4 DEF Kind, Query
    <3>2. ASSUME NEW i \in 1..pos, Chain[Query][i] \in constant
          PROVE  Chain[Query][i] \in active'
      <4>1. CASE i = pos BY <4>1, <3>2, <1>1 DEF Here, Right, TypeOK
      <4>2. CASE i # pos
        <5>1. i \in 1..(pos - 1) BY <4>2, <1>4
        <5> QED BY <5>1, <3>2, <2>1, <1>1 DEF Passed
      <4> QED BY <4>1, <4>2
    <3>3. 1..(pos' - 1) = 1..pos BY <1>1, <1>4
    <3> QED BY <1>1, <3>1, <3>2, <3>3 DEF Passed, world
  <2>3. Complete'
    BY <2>1, <1>1 DEF Complete, Searched, TwinsKnown, Asks, Queries, world
  <2>4. {Here} \intersect locks \subseteq ever \intersect Covering(Known)
    <3>1. Query \in Known BY <2>1, <1>3 DEF Honest
    <3> QED BY <3>1, <1>4 DEF Covering, Here, Right, TypeOK
  <2>5. Honest'
    BY <2>1, <2>4, <1>1 DEF Honest, Asks, Known, Queries, world
  <2> QED BY <2>2, <2>3, <2>5
<1> QED BY <1>1, <1>2, <1>5, StepKeeps

LEMMA DescribeKeeps == ASSUME Right, Describe PROVE Right'
<1> DEFINE seen == active \union ({Here} \intersect locks)
<1>1. /\ stage = "walk" /\ agenda # <<>> /\ Kind = "collect" /\ pos = Len(Chain[Query])
      /\ active' = {} /\ UNCHANGED <<world, main, twinCfg, checked, errors>>
  BY DEF Describe
<1>2. Query \in DOMAIN Chain /\ Asks("collect", Query) /\ Tail(agenda) \in Seq(Items)
      /\ \A k, q : Asks(k, q) <=> (k = "collect" /\ q = Query) \/ <<k, q>> \in Range(Tail(agenda))
  BY <1>1, FirstItem DEF Right
<1>3. Len(Chain[Query]) \in Nat /\ pos \in 1..Len(Chain[Query])
      /\ Range(Chain[Query]) = {Chain[Query][i] : i \in 1..Len(Chain[Query])}
  BY <1>1, <1>2, Chains DEF Right, TypeOK
<1>4. ASSUME found' = found \union seen, agenda' = Tail(agenda), pos' = 1, NoAnswer
      PROVE  Right'
  <2>1. TypeOK' BY <1>1, <1>2, <1>4, FreshItem DEF Right, TypeOK, NoAnswer, world
  <2>2. ASSUME ~errors PROVE Passed' /\ Complete' /\ Honest'
    <3>1. Passed /\ Complete /\ Honest BY <1>1, <2>2 DEF Right, Walk
    <3>2. Passed' BY <1>2, <1>4, FreshItem
    <3>3. constant \intersect Range(Chain[Query]) \subseteq seen
      <4> SUFFICES ASSUME NEW i \in 1..Len(Chain[Query]), Chain[Query][i] \in constant
                   PROVE  Chain[Query][i] \in seen
        BY <1>3
      <4>1. CASE i = pos BY <4>1 DEF Here, Right, TypeOK
      <4>2. CASE i # pos
        <5>1. i \in 1..(pos - 1) BY <4>2, <1>1, <1>3
        <5> QED BY <5>1, <3>1, <1>1 DEF Passed
      <4> QED BY <4>1, <4>2
    <3>4. \A k, q : Asks(k, q)' <=> <<k, q>> \in Range(Tail(agenda)) BY <1>4 DEF Asks
    <3>5. Complete'
      <4>1. ASSUME NEW q \in Queries \union checked PROVE Searched(q)'
        <5>1. CASE q = Query
          BY <5>1, <1>1, <1>4, <3>3 DEF Searched, world
        <5>2. CASE q # Query
          <6>1. Searched(q) BY <3>1 DEF Complete
          <6> QED BY <6>1, <5>2, <1>1, <1>2, <1>4, <3>4 DEF Searched, world
        <5> QED BY <5>1, <5>2
      <4>2. ASSUME NEW q \in Queries, twinCfg = "read" PROVE TwinsKnown(q)'
        <5>1. TwinsKnown(q) BY <3>1, <4>2 DEF Complete
        <5> QED BY <5>1, <1>1, <1>2, <3>4 DEF TwinsKnown
      <4> QED BY <4>1, <4>2, <1>1 DEF Complete, Queries
    <3>6. {Here} \intersect locks \subseteq ever \intersect Covering(Known)
      <4>1. Query \in Known BY <3>1, <1>2 DEF Honest
      <4> QED BY <4>1, <1>3 DEF Covering, Here, Right, TypeOK
    <3>7. Honest'
      BY <3>1, <3>4, <3>6, <1>1, <1>2, <1>4 DEF Honest, Known, Queries, world
    <3> QED BY <3>2, <3>5, <3>7
  <2> QED BY <1>1, <1>4, <2>1, <2>2, StepKeeps
<1>5. ASSUME Answer("unknown"), UNCHANGED <<found, agenda, pos>>
      PROVE  Right'
  <2>1. TypeOK' /\ stage' = "done" /\ verdict' = "unknown"
    BY <1>1, <1>5 DEF Right, TypeOK, Answer, world, Query
  <2> QED BY <2>1 DEF Right, Undecided, Unstarted, Walk, Told, ClearMeansFree,
                      ClearMeansTwinsFree, LockedMeansSeen
<1> QED BY <1>4, <1>5 DEF Describe, Proceed

--------------------------------------------------------------------------------
(* The search for twins: the next ancestor, the next item, or targets.     *)
LEMMA FindTwinsKeeps == ASSUME Right, FindTwins PROVE Right'
<1>1. /\ stage = "walk" /\ agenda # <<>> /\ Kind = "twins"
      /\ UNCHANGED <<world, main, twinCfg, active, found>> /\ NoAnswer
  BY DEF FindTwins
<1>2. Query \in DOMAIN Chain /\ Asks("twins", Query) /\ Tail(agenda) \in Seq(Items)
      /\ pos \in 1..Len(Chain[Query]) /\ Here \in Dirs
      /\ \A k, q : Asks(k, q) <=> (k = "twins" /\ q = Query) \/ <<k, q>> \in Range(Tail(agenda))
  BY <1>1, FirstItem DEF Right
<1>3. /\ Len(Chain[Query]) \in Nat \ {0}
      /\ \A i \in 1..Len(Chain[Query]) : Chain[Query][i] \in Dirs
  BY <1>2, Chains
<1>4. pos \in Nat \ {0} /\ errors \in BOOLEAN /\ agenda \in Seq(Items) BY DEF Right, TypeOK
<1>5. ASSUME ~errors
      PROVE  /\ Passed /\ Complete /\ Honest /\ pos \in 1..Len(Chain[Query])
             /\ \A i \in 1..(pos - 1) : Twins[Chain[Query][i]].status = "not-applicable"
  <2>1. Passed /\ Complete /\ Honest BY <1>1, <1>5 DEF Right, Walk
  <2> QED BY <2>1, <1>1, <1>2 DEF Passed
<1>6. ASSUME Twins[Here].status = "not-applicable", pos < Len(Chain[Query]),
             pos' = pos + 1, UNCHANGED <<agenda, checked, errors>>
      PROVE  Right'
  <2>1. TypeOK' BY <1>1, <1>3, <1>4, <1>6 DEF Right, TypeOK, NoAnswer, world, Query
  <2>2. ASSUME ~errors PROVE Passed' /\ Complete' /\ Honest'
    <3>1. ASSUME NEW i \in 1..(pos' - 1)
          PROVE  Twins[Chain[Query][i]].status = "not-applicable"
      <4>1. i = pos \/ i \in 1..(pos - 1) BY <1>4, <1>6
      <4> QED BY <4>1, <1>5, <1>6, <2>2 DEF Here
    <3>2. Kind' = Kind /\ Query' = Query /\ pos' <= Len(Chain[Query])
      BY <1>3, <1>4, <1>6 DEF Kind, Query
    <3>3. Passed' BY <3>1, <3>2, <1>1 DEF Passed
    <3>4. Complete'
      BY <1>1, <1>5, <1>6, <2>2 DEF Complete, Searched, TwinsKnown, Asks, Queries, world
    <3>5. Honest' BY <1>1, <1>5, <1>6, <2>2 DEF Honest, Asks, Known, Queries, world
    <3> QED BY <3>3, <3>4, <3>5
  <2> QED BY <1>1, <1>6, <2>1, <2>2, StepKeeps
<1>7. ASSUME Twins[Here].status = "not-applicable", ~(pos < Len(Chain[Query])),
             agenda' = Tail(agenda), pos' = 1, UNCHANGED <<checked, errors>>
      PROVE  Right'
  <2>1. TypeOK' BY <1>1, <1>2, <1>4, <1>7, FreshItem DEF Right, TypeOK, NoAnswer, world
  <2>2. ASSUME ~errors PROVE Passed' /\ Complete' /\ Honest'
    <3>1. \A i \in 1..Len(Chain[Query]) : Twins[Chain[Query][i]].status = "not-applicable"
      <4> TAKE i \in 1..Len(Chain[Query])
      <4>1. i = pos \/ i \in 1..(pos - 1) BY <1>3, <1>4, <1>5, <1>7, <2>2
      <4> QED BY <4>1, <1>5, <1>7, <2>2 DEF Here
    <3>2. TwinTargets(Query) = {} BY <3>1, <1>2, NobodySays
    <3>3. \A k, q : Asks(k, q)' <=> <<k, q>> \in Range(Tail(agenda)) BY <1>7 DEF Asks
    <3>4. Complete'
      <4>1. ASSUME NEW q \in Queries \union checked PROVE Searched(q)'
        <5>1. Searched(q) BY <1>5, <2>2 DEF Complete
        <5> QED BY <5>1, <1>1, <1>2, <3>3 DEF Searched, world
      <4>2. ASSUME NEW q \in Queries, twinCfg = "read" PROVE TwinsKnown(q)'
        <5>1. TwinsKnown(q) BY <1>5, <2>2, <4>2 DEF Complete
        <5> QED BY <5>1, <1>2, <1>7, <3>2, <3>3 DEF TwinsKnown
      <4> QED BY <4>1, <4>2, <1>1, <1>7 DEF Complete, Queries
    <3>5. Honest' BY <1>1, <1>2, <1>5, <1>7, <2>2, <3>3 DEF Honest, Known, Queries, world
    <3>6. Passed' BY <1>2, <1>7, FreshItem
    <3> QED BY <3>4, <3>5, <3>6
  <2> QED BY <1>1, <1>7, <2>1, <2>2, StepKeeps
<1>8. ASSUME Proceed(Tail(agenda)) \/ Climb, errors' = TRUE
      PROVE  Right'
  <2>1. ASSUME Proceed(Tail(agenda)) PROVE TypeOK'
    BY <2>1, <1>1, <1>2, <1>4, <1>8, FreshItem DEF Right, TypeOK, NoAnswer, world, Proceed
  <2>2. ASSUME Climb, pos < Len(Chain[Query]) PROVE TypeOK'
    BY <2>2, <1>1, <1>3, <1>4, <1>8 DEF Right, TypeOK, NoAnswer, world, Climb, Query
  <2>3. TypeOK' BY <1>8, <2>1, <2>2 DEF Climb
  <2> QED BY <1>1, <1>8, <2>3, StepKeeps
<1>9. ASSUME Twins[Here].status = "ok",
             Proceed([i \in DOMAIN SetToSeq(Twins[Here].targets \ checked) |->
                        <<"collect", SetToSeq(Twins[Here].targets \ checked)[i]>>] \o Tail(agenda)),
             checked' = checked \union Twins[Here].targets, errors' = errors
      PROVE  Right'
  <2> DEFINE targets == Twins[Here].targets
             new == SetToSeq(targets \ checked)
             items == [i \in DOMAIN new |-> <<"collect", new[i]>>]
  <2>1. agenda' = items \o Tail(agenda) /\ pos' = 1 BY <1>9 DEF Proceed
  <2>2. Here \in Dirs /\ Here = Chain[Query][pos] BY <1>1, FirstItem DEF Right, Here
  <2>3. IsFiniteSet(targets \ checked) /\ targets \subseteq DOMAIN Chain
    BY <2>2, LockCheckAssumption, FS_Subset
  <2>4. new \in Seq(targets \ checked) /\ Range(new) = targets \ checked BY <2>3, SeqOfSet
  <2>5. new \in Seq(DOMAIN Chain) BY <2>3, <2>4, SeqMonotonic
  <2> HIDE DEF new
  <2>6. items \in Seq(Items) /\ \A x : x \in Range(items) <=> \E q \in targets \ checked : x = <<"collect", q>>
    BY <2>4, <2>5, ItemsOf
  <2>7. agenda' \in Seq(Items) /\ Range(agenda') = Range(items) \union Range(Tail(agenda))
    <3> HIDE DEF items
    <3> QED BY <2>1, <2>6, <1>2, ConcatProperties, RangeConcatenation
  <2> HIDE DEF items, targets
  <2>8. TypeOK' BY <1>1, <1>9, <2>1, <2>7, FreshItem DEF Right, TypeOK, NoAnswer, world
  <2>9. ASSUME ~errors PROVE Passed' /\ Complete' /\ Honest'
    <3>1. Passed' BY <2>1, <2>7, FreshItem
    <3>2. TwinTargets(Query) = targets
      BY <1>2, <1>5, <1>9, <2>2, <2>9, NearestSays DEF targets
    <3>3. \A k, q : Asks(k, q)' <=> (k = "collect" /\ q \in targets \ checked)
                                   \/ <<k, q>> \in Range(Tail(agenda))
      BY <2>6, <2>7 DEF Asks
    <3>4. checked' = checked \union targets BY <1>9 DEF targets
    <3>5. Complete'
      <4>1. ASSUME NEW q \in Queries \union checked PROVE Searched(q)'
        <5>1. Searched(q) BY <1>5, <2>9 DEF Complete
        <5> QED BY <5>1, <1>1, <1>2, <3>3 DEF Searched, world
      <4>2. ASSUME NEW q \in targets \ checked PROVE Searched(q)'
        BY <4>2, <3>3 DEF Searched
      <4>3. ASSUME NEW q \in Queries, twinCfg = "read" PROVE TwinsKnown(q)'
        <5>1. TwinsKnown(q) BY <1>5, <2>9, <4>3 DEF Complete
        <5> QED BY <5>1, <1>2, <3>2, <3>3, <3>4 DEF TwinsKnown
      <4> QED BY <4>1, <4>2, <4>3, <1>1, <3>4 DEF Complete, Queries
    <3>6. targets \subseteq Known BY <3>2, <1>2, <1>5, <2>9 DEF Known, Honest
    <3>7. Honest'
      BY <1>1, <1>2, <1>5, <2>9, <3>3, <3>4, <3>6 DEF Honest, Known, Queries, world
    <3> QED BY <3>1, <3>5, <3>7
  <2> QED BY <1>1, <1>9, <2>8, <2>9, StepKeeps
<1> QED BY <1>6, <1>7, <1>8, <1>9 DEF FindTwins, Climb, Proceed

--------------------------------------------------------------------------------
(* The walk begins with everything that is to be searched on its agenda.   *)
LEMMA PlanAsks ==
  ASSUME NEW queries \in Seq(DOMAIN Chain), NEW twins \in BOOLEAN
  PROVE  /\ Plan(queries, twins) \in Seq(Items)
         /\ \A k, q : <<k, q>> \in Range(Plan(queries, twins)) <=>
              q \in Range(queries) /\ (k = "collect" \/ (twins /\ k = "twins"))
<1> DEFINE items(kind) == [i \in DOMAIN queries |-> <<kind, queries[i]>>]
<1>1. /\ items("collect") \in Seq(Items)
      /\ \A x : x \in Range(items("collect")) <=> \E q \in Range(queries) : x = <<"collect", q>>
  BY ItemsOf
<1>2. /\ items("twins") \in Seq(Items)
      /\ \A x : x \in Range(items("twins")) <=> \E q \in Range(queries) : x = <<"twins", q>>
  BY ItemsOf
<1>3. Plan(queries, twins) = items("collect") \o (IF twins THEN items("twins") ELSE <<>>)
  BY DEF Plan
<1> HIDE DEF items
<1>4. <<>> \in Seq(Items) /\ Range(<<>>) = {} BY EmptySeq DEF Range
<1>5. CASE twins
  BY <1>1, <1>2, <1>3, <1>5, ConcatProperties, RangeConcatenation
<1>6. CASE ~twins
  <2>1. Plan(queries, twins) \in Seq(Items)
        /\ Range(Plan(queries, twins)) = Range(items("collect")) \union {}
    BY <1>1, <1>3, <1>4, <1>6, ConcatProperties, RangeConcatenation
  <2> QED BY <1>1, <1>6, <2>1
<1> QED BY <1>5, <1>6

LEMMA MapMainKeeps == ASSUME Right, MapMain PROVE Right'
<1> DEFINE queries == IF main' THEN <<"target", "main">> ELSE <<"target">>
<1>1. /\ stage = "main" /\ stage' = "walk" /\ main' \in BOOLEAN /\ errors' \in BOOLEAN
      /\ agenda' = Plan(queries, twinCfg' = "read") /\ pos' = 1
      /\ UNCHANGED <<world, active, found, checked, verdict>>
  <2>1. errors \in BOOLEAN BY DEF Right, TypeOK
  <2> QED BY <2>1 DEF MapMain, Proceed
<1>2. found' = {} /\ active' = {} /\ checked' = {} /\ verdict' = "none"
  BY <1>1 DEF Right, Unstarted, Undecided
<1>3. queries \in Seq(DOMAIN Chain) /\ Range(queries) = Queries'
  <2>1. "target" \in DOMAIN Chain /\ "main" \in DOMAIN Chain BY LockCheckAssumption
  <2>2. CASE main' BY <2>1, <2>2 DEF Queries, Range
  <2>3. CASE ~main' BY <2>1, <2>3 DEF Queries, Range
  <2> QED BY <2>2, <2>3
<1> HIDE DEF queries
<1>4. /\ agenda' \in Seq(Items)
      /\ \A k, q : Asks(k, q)' <=> q \in Queries' /\ (k = "collect" \/ (twinCfg' = "read" /\ k = "twins"))
  BY <1>1, <1>3, PlanAsks DEF Asks
<1>5. Passed' /\ (agenda # <<>> => pos <= Len(Chain[Query]))' BY <1>1, <1>4, FreshItem
<1>6. TypeOK' BY <1>1, <1>4, <1>5 DEF Right, TypeOK, world
<1>7. Complete' BY <1>2, <1>4 DEF Complete, Searched, TwinsKnown
<1>8. Honest' BY <1>2, <1>4 DEF Honest, Known
<1> QED BY <1>1, <1>2, <1>5, <1>6, <1>7, <1>8
        DEF Right, Undecided, Unstarted, Walk, Told, ClearMeansFree, ClearMeansTwinsFree, LockedMeansSeen

(* Every step of the walk, and every lock placed or released beside it,    *)
(* keeps the invariant.                                                    *)
THEOREM WalkIsRight == ASSUME Right, [Next]_vars PROVE Right'
<1>1. ASSUME NEW d \in Dirs, PlaceLock(d) PROVE Right'
  BY <1>1, WorldKeeps DEF PlaceLock, Right, TypeOK
<1>2. ASSUME NEW d \in Dirs, ReleaseLock(d) PROVE Right'
  BY <1>2, WorldKeeps DEF ReleaseLock, Right, TypeOK
<1>3. CASE Step
  BY <1>3, BeginKeeps, MapMainKeeps, ReadDirKeeps, ReadFailsKeeps, DescribeKeeps, FindTwinsKeeps,
     ConcludeKeeps DEF Step
<1>4. CASE UNCHANGED vars
  BY <1>4, WorldKeeps DEF vars, world, Right, TypeOK
<1> QED BY <1>1, <1>2, <1>3, <1>4 DEF Next

THEOREM AlwaysRight == Spec => []Right
BY InitRight, WalkIsRight, PTL DEF Spec

(* "clear" is only said when no lock stood over the path, on its own tree  *)
(* or the main clone's, during the whole query                             *)
(* (src/scripts/controlroom_bridge.py:233).                                *)
THEOREM ClearIsFree == Spec => []ClearMeansFree
<1>1. Right => ClearMeansFree BY DEF Right, Told
<1> QED BY <1>1, AlwaysRight, PTL

(* Nor on any twin of it, when the twin configuration was read.            *)
THEOREM ClearIsTwinsFree == Spec => []ClearMeansTwinsFree
<1>1. Right => ClearMeansTwinsFree BY DEF Right, Told
<1> QED BY <1>1, AlwaysRight, PTL

(* "locked" is only said when a lock was there.                            *)
THEOREM LockedIsSeen == Spec => []LockedMeansSeen
<1>1. Right => LockedMeansSeen BY DEF Right, Told
<1> QED BY <1>1, AlwaysRight, PTL

--------------------------------------------------------------------------------
(* How far a check is from its end: the stages ahead, the searches on the  *)
(* agenda (by their places, counted from its end), its length, the         *)
(* ancestors of its first item that have not been read.                    *)
Ahead == CASE stage = "begin" -> 3 [] stage = "main" -> 2 [] stage = "walk" -> 1 [] stage = "done" -> 0
Searches(items) == {k \in 1..Len(items) : items[Len(items) + 1 - k][1] = "twins"}
AncestorsLeft == IF agenda = <<>> THEN 0 ELSE Len(Chain[Query]) - pos
Rank == <<Ahead, Cardinality(Searches(agenda)), Len(agenda), AncestorsLeft, 0>>

(* Every step of the check brings its end nearer, whatever targets the     *)
(* search for twins adds; the locks others place and release do not put    *)
(* it off.                                                                 *)
CheckComesToAnEnd == [][IF Step THEN Lower(Rank', Rank) ELSE Rank' = Rank]_vars

(* A rank that is smaller at its first difference is lower.                *)
LEMMA LowerAt ==
    ASSUME NEW r, NEW s
    PROVE  /\ r[1] < s[1] => Lower(r, s)
           /\ r[1] = s[1] /\ r[2] < s[2] => Lower(r, s)
           /\ r[1] = s[1] /\ r[2] = s[2] /\ r[3] < s[3] => Lower(r, s)
           /\ r[1] = s[1] /\ r[2] = s[2] /\ r[3] = s[3] /\ r[4] < s[4] => Lower(r, s)
           /\ r[1] = s[1] /\ r[2] = s[2] /\ r[3] = s[3] /\ r[4] = s[4] /\ r[5] < s[5] => Lower(r, s)
<1>1. \A i \in 1..5 : r[i] < s[i] /\ (\A j \in 1..(i - 1) : r[j] = s[j]) => Lower(r, s)
  BY DEF Lower
<1>2. /\ \A j \in 1..(2 - 1) : j = 1
      /\ \A j \in 1..(3 - 1) : j = 1 \/ j = 2
      /\ \A j \in 1..(4 - 1) : j = 1 \/ j = 2 \/ j = 3
      /\ \A j \in 1..(5 - 1) : j = 1 \/ j = 2 \/ j = 3 \/ j = 4
      /\ 1..(1 - 1) = {}
  OBVIOUS
<1>3. 1 \in 1..5 /\ 2 \in 1..5 /\ 3 \in 1..5 /\ 4 \in 1..5 /\ 5 \in 1..5
  OBVIOUS
<1> QED
  BY <1>1, <1>2, <1>3, Zenon

(* The searches can be counted.                                            *)
LEMMA SearchesCounted ==
  ASSUME NEW s \in Seq(Items)
  PROVE  IsFiniteSet(Searches(s)) /\ Cardinality(Searches(s)) \in Nat
<1>1. Len(s) \in Nat BY LenProperties
<1>2. IsFiniteSet(1..Len(s)) BY <1>1, FS_Interval
<1>3. Searches(s) \subseteq 1..Len(s) BY DEF Searches
<1> QED BY <1>2, <1>3, FS_Subset, FS_CardinalityType

(* The first item gone, the others keep their places.                      *)
LEMMA TailSearches ==
  ASSUME NEW s \in Seq(Items), s # <<>>
  PROVE  /\ Searches(Tail(s)) = IF Head(s)[1] = "twins" THEN Searches(s) \ {Len(s)} ELSE Searches(s)
         /\ Head(s)[1] = "twins" => Len(s) \in Searches(s)
         /\ Len(s) \in Nat \ {0} /\ Len(Tail(s)) = Len(s) - 1
<1> PICK n : n = Len(s) OBVIOUS
<1> PICK rest : rest = Tail(s) OBVIOUS
<1>1. n \in Nat \ {0} /\ Head(s) = s[1] BY LenProperties, EmptySeq
<1>2. Len(rest) = n - 1 /\ \A i \in 1..(n - 1) : rest[i] = s[i + 1]
  BY HeadTailProperties
<1>3. \A k \in 1..(n - 1) : rest[(n - 1) + 1 - k] = s[n + 1 - k]
  <2> TAKE k \in 1..(n - 1)
  <2>1. n - k \in 1..(n - 1) /\ (n - 1) + 1 - k = n - k /\ (n - k) + 1 = n + 1 - k BY <1>1
  <2> QED BY <1>2, <2>1
<1>4. Searches(rest) = {k \in 1..(n - 1) : s[n + 1 - k][1] = "twins"}
  BY <1>2, <1>3 DEF Searches
<1>5. Searches(s) = {k \in 1..n : s[n + 1 - k][1] = "twins"} BY DEF Searches
<1>6. 1..(n - 1) = (1..n) \ {n} /\ n \in 1..n /\ n + 1 - n = 1 BY <1>1
<1>7. Searches(rest) = Searches(s) \ {n} BY <1>4, <1>5, <1>6
<1>8. n \in Searches(s) <=> Head(s)[1] = "twins" BY <1>1, <1>5, <1>6
<1> QED BY <1>1, <1>2, <1>7, <1>8

(* Items put in front that are no searches leave the searches in place.    *)
LEMMA AddedSearches ==
  ASSUME NEW a \in Seq(Items), NEW s \in Seq(Items), \A x \in Range(a) : x[1] = "collect"
  PROVE  Searches(a \o s) = Searches(s)
<1> PICK m : m = Len(a) OBVIOUS
<1> PICK n : n = Len(s) OBVIOUS
<1> PICK all : all = a \o s OBVIOUS
<1>1. m \in Nat /\ n \in Nat BY LenProperties
<1>2. Len(all) = m + n /\ \A i \in 1..(m + n) : all[i] = IF i <= m THEN a[i] ELSE s[i - m]
  BY ConcatProperties
<1>3. \A i \in 1..m : a[i][1] = "collect"
  BY RangeEquality
<1>4. ASSUME NEW k \in 1..(m + n)
      PROVE  all[m + n + 1 - k][1] = "twins" <=> k \in 1..n /\ s[n + 1 - k][1] = "twins"
  <2>1. CASE k <= n
    <3>1. /\ m + n + 1 - k \in 1..(m + n) /\ ~(m + n + 1 - k <= m)
          /\ (m + n + 1 - k) - m = n + 1 - k /\ k \in 1..n
      BY <1>1, <2>1
    <3>2. all[m + n + 1 - k] = s[n + 1 - k] BY <1>2, <3>1
    <3> QED BY <3>1, <3>2
  <2>2. CASE ~(k <= n)
    <3>1. m + n + 1 - k \in 1..(m + n) /\ m + n + 1 - k \in 1..m /\ m + n + 1 - k <= m /\ k \notin 1..n
      BY <1>1, <2>2
    <3>2. all[m + n + 1 - k] = a[m + n + 1 - k] BY <1>2, <3>1
    <3>3. a[m + n + 1 - k][1] = "collect" BY <1>3, <3>1
    <3> QED BY <3>1, <3>2, <3>3
  <2> QED BY <2>1, <2>2
<1>5. Searches(all) = {k \in 1..(m + n) : all[m + n + 1 - k][1] = "twins"}
      /\ Searches(s) = {k \in 1..n : s[n + 1 - k][1] = "twins"}
  BY <1>2 DEF Searches
<1>6. 1..n \subseteq 1..(m + n) BY <1>1
<1> QED BY <1>4, <1>5, <1>6

(* The rank is one.                                                        *)
LEMMA RankTypes == ASSUME Right PROVE Rank \in Ranks
<1>1. TypeOK BY DEF Right
<1>2. Ahead \in Nat BY <1>1 DEF Ahead, TypeOK
<1>3. Cardinality(Searches(agenda)) \in Nat /\ Len(agenda) \in Nat
  BY <1>1, SearchesCounted, LenProperties DEF TypeOK
<1>4. ASSUME agenda # <<>> PROVE Len(Chain[Query]) - pos \in Nat
  <2>1. Query \in DOMAIN Chain /\ pos \in 1..Len(Chain[Query]) BY <1>1, <1>4, FirstItem
  <2>2. Len(Chain[Query]) \in Nat BY <2>1, Chains
  <2> QED BY <2>1, <2>2
<1>5. AncestorsLeft \in Nat BY <1>4 DEF AncestorsLeft
<1> QED BY <1>2, <1>3, <1>5 DEF Rank, Ranks

(* One step of the check.                                                  *)
LEMMA StepIsNearer == ASSUME Right, Step PROVE Lower(Rank', Rank)
<1>r. PICK r, s : r = Rank' /\ s = Rank OBVIOUS
<1>1. /\ s[1] = Ahead /\ s[2] = Cardinality(Searches(agenda)) /\ s[3] = Len(agenda)
      /\ s[4] = AncestorsLeft
  BY <1>r DEF Rank
<1>2. /\ r[1] = Ahead' /\ r[2] = Cardinality(Searches(agenda')) /\ r[3] = Len(agenda')
      /\ r[4] = AncestorsLeft'
  BY <1>r DEF Rank
<1>3. TypeOK BY DEF Right
<1>4. ASSUME Ahead' < Ahead PROVE Lower(Rank', Rank)
  BY <1>1, <1>2, <1>4, <1>r, LowerAt
<1>5. CASE Begin
  <2>1. stage = "begin" /\ stage' \in {"done", "main"} BY <1>5 DEF Begin, Answer
  <2> QED BY <1>4, <2>1 DEF Ahead
<1>6. CASE MapMain
  <2>1. stage = "main" /\ stage' = "walk" BY <1>6 DEF MapMain
  <2> QED BY <1>4, <2>1 DEF Ahead
<1>7. CASE stage = "walk" /\ stage' = "done"
  BY <1>4, <1>7 DEF Ahead
<1>8. ASSUME stage' = stage, agenda # <<>>, agenda' = agenda, pos < Len(Chain[Query]), pos' = pos + 1
      PROVE  Lower(Rank', Rank)
  <2>1. Len(Chain[Query]) \in Nat /\ pos \in Nat
    BY <1>3, <1>8, FirstItem, Chains DEF TypeOK
  <2>2. PICK len, here : len = Len(Chain[Query]) /\ here = pos OBVIOUS
  <2>3. AncestorsLeft = len - here /\ AncestorsLeft' = len - (here + 1)
    BY <1>8, <2>2 DEF AncestorsLeft, Query
  <2>4. AncestorsLeft' < AncestorsLeft BY <2>1, <2>2, <2>3
  <2> QED BY <1>1, <1>2, <1>8, <1>r, <2>4, LowerAt DEF Ahead
<1>9. ASSUME stage' = stage, agenda # <<>>, agenda' = Tail(agenda), Kind = "collect"
      PROVE  Lower(Rank', Rank)
  <2>1. /\ Searches(agenda') = Searches(agenda)
        /\ Len(agenda) \in Nat \ {0} /\ Len(agenda') = Len(agenda) - 1
    BY <1>3, <1>9, TailSearches DEF TypeOK, Kind
  <2>2. r[3] < s[3] BY <1>1, <1>2, <2>1
  <2> QED BY <1>1, <1>2, <1>9, <1>r, <2>1, <2>2, LowerAt DEF Ahead
<1>10. ASSUME stage' = stage, agenda # <<>>, Searches(agenda') = Searches(Tail(agenda)), Kind = "twins"
       PROVE  Lower(Rank', Rank)
  <2>1. Searches(agenda') = Searches(agenda) \ {Len(agenda)} /\ Len(agenda) \in Searches(agenda)
    BY <1>3, <1>10, TailSearches DEF TypeOK, Kind
  <2>2. IsFiniteSet(Searches(agenda)) /\ Cardinality(Searches(agenda)) \in Nat
    BY <1>3, SearchesCounted DEF TypeOK
  <2>3. Cardinality(Searches(agenda) \ {Len(agenda)}) = Cardinality(Searches(agenda)) - 1
    BY <2>1, <2>2, FS_RemoveElement
  <2>4. r[2] < s[2] BY <1>1, <1>2, <2>1, <2>2, <2>3
  <2> QED BY <1>1, <1>2, <1>10, <1>r, <2>4, LowerAt DEF Ahead
<1>11. CASE ReadDir
  BY <1>8, <1>11 DEF ReadDir, Climb, NoAnswer
<1>12. CASE ReadFails
  BY <1>9, <1>12 DEF ReadFails, Proceed, NoAnswer
<1>13. CASE Describe
  BY <1>7, <1>9, <1>13 DEF Describe, Proceed, NoAnswer, Answer
<1>14. CASE FindTwins
  <2>1. stage' = stage /\ agenda # <<>> /\ Kind = "twins" BY <1>14 DEF FindTwins, NoAnswer
  <2>2. CASE Climb
    BY <1>8, <1>10, <2>1, <2>2 DEF Climb, Proceed
  <2>3. CASE Proceed(Tail(agenda))
    BY <1>10, <2>1, <2>3 DEF Proceed
  <2>4. CASE Proceed([i \in DOMAIN SetToSeq(Twins[Here].targets \ checked) |->
                        <<"collect", SetToSeq(Twins[Here].targets \ checked)[i]>>] \o Tail(agenda))
    <3> DEFINE new == SetToSeq(Twins[Here].targets \ checked)
               items == [i \in DOMAIN new |-> <<"collect", new[i]>>]
    <3>1. agenda' = items \o Tail(agenda) BY <2>4 DEF Proceed
    <3>2. Here \in Dirs /\ Tail(agenda) \in Seq(Items) BY <1>3, <2>1, FirstItem
    <3>3. IsFiniteSet(Twins[Here].targets \ checked) /\ Twins[Here].targets \ checked \subseteq DOMAIN Chain
      BY <3>2, LockCheckAssumption, FS_Subset
    <3>4. new \in Seq(DOMAIN Chain) BY <3>3, SeqOfSet, SeqMonotonic
    <3> HIDE DEF new
    <3>5. items \in Seq(Items) /\ \A x : x \in Range(items) <=> \E q \in Range(new) : x = <<"collect", q>>
      BY <3>4, ItemsOf
    <3>6. \A x \in Range(items) : x[1] = "collect" BY <3>5
    <3> HIDE DEF items
    <3>7. Searches(agenda') = Searches(Tail(agenda)) BY <3>1, <3>2, <3>5, <3>6, AddedSearches
    <3> QED BY <1>10, <2>1, <3>7
  <2> QED BY <1>14, <2>2, <2>3, <2>4 DEF FindTwins
<1>15. CASE Conclude
  BY <1>7, <1>15 DEF Conclude, Answer
<1> QED BY <1>5, <1>6, <1>11, <1>12, <1>13, <1>14, <1>15 DEF Step

(* A check takes finitely many steps, whatever the directories, chains and *)
(* twins, and however many locks come and go meanwhile                     *)
(* (src/scripts/controlroom_bridge.py:225).                                *)
THEOREM ChecksComeToAnEnd == Spec => [](Rank \in Ranks) /\ CheckComesToAnEnd
<1>1. ASSUME [Next]_vars, ~Step PROVE Rank' = Rank
  <2>1. UNCHANGED <<stage, agenda, pos>> BY <1>1 DEF Next, PlaceLock, ReleaseLock, vars
  <2> QED BY <2>1 DEF Rank, Ahead, AncestorsLeft, Query
<1>2. Right /\ [Next]_vars => [IF Step THEN Lower(Rank', Rank) ELSE Rank' = Rank]_vars
  BY <1>1, StepIsNearer
<1> QED BY <1>2, RankTypes, AlwaysRight, PTL DEF Spec, CheckComesToAnEnd
================================================================================
