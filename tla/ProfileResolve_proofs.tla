------------------------- MODULE ProfileResolve_proofs -------------------------
(***************************************************************************)
(* Proofs about ProfileResolve for every set of profiles, whatever their   *)
(* files hold, and for any number of rewrites meanwhile.                   *)
(***************************************************************************)
EXTENDS ProfileResolve, Ranks, SequenceTheorems, FiniteSetTheorems, TLAPS

Shapes == [extends : Seq(Profiles), ok : BOOLEAN,
           main : SUBSET Servers, extra : SUBSET Servers, removed : SUBSET Servers]
Maps == [Servers -> {<<>>} \union (Profiles \X {"main", "extra"})]
Calls == [name : Profiles, file : Shapes, next : Nat, base : Maps]

TypeOK ==
    /\ files \in [Profiles -> Shapes]
    /\ name \in Profiles /\ called \in Profiles
    /\ stage \in {"begin", "call", "loop", "done"}
    /\ stack \in Seq(Calls)
    /\ cache \in [Profiles -> Seq(Maps)]
    /\ sources \in Seq(Profiles)
    /\ seen \in [Profiles -> Seq(Shapes)]

-----------------------------------------------------------------------------
(* The invariant, with the state it is about as parameters.                *)

(* What a profile extends, as it was read.                                 *)
Bases(read, p) ==
    IF read[p] = <<>> THEN {} ELSE {read[p][1].extends[k] : k \in DOMAIN read[p][1].extends}

Names(calls) == {calls[i].name : i \in DOMAIN calls}
Settled(known) == {p \in Profiles : known[p] # <<>>}

(* The loop of a call has merged all bases but the last `unmerged` of      *)
(* those it has turned to.                                                 *)
Merging(call, unmerged, known) ==
    /\ call.next \in 1..(Len(call.file.extends) + 1)
    /\ unmerged < call.next
    /\ \A k \in 1..(call.next - 1 - unmerged) : known[call.file.extends[k]] # <<>>

(* Each open call is for another profile, has its file in the version read *)
(* and, but for the innermost, waits for the base it turned to last.       *)
Chained(calls, read, known) ==
    /\ \A i \in DOMAIN calls : read[calls[i].name] = <<calls[i].file>>
    /\ \A i, j \in DOMAIN calls : calls[i].name = calls[j].name => i = j
    /\ \A i \in 1..(Len(calls) - 1) :
         /\ Merging(calls[i], 1, known)
         /\ calls[i + 1].name = calls[i].file.extends[calls[i].next - 1]

(* What is in the cache rests on the cache alone and not on itself.        *)
Founded(read, known) ==
    /\ \A p \in Settled(known) : Bases(read, p) \subseteq Settled(known)
    /\ \A P \in SUBSET Settled(known) : P # {} => \E p \in P : Bases(read, p) \intersect P = {}

(* The sources are the profiles under way and those in the cache.          *)
Listed(calls, read, known, list) ==
    /\ \A p \in Profiles :
         (\E i \in DOMAIN list : list[i] = p) <=> p \in Names(calls) \union Settled(known)
    /\ \A i, j \in DOMAIN list : list[i] = list[j] => i = j
    /\ \A i \in DOMAIN list : i > 1 => \E j \in 1..(i - 1) : list[i] \in Bases(read, list[j])

Start ==
    /\ stack = <<>> /\ sources = <<>> /\ called = name
    /\ \A p \in Profiles : cache[p] = <<>>

Walk ==
    /\ result = <<>>
    /\ stage = "begin" => Start
    /\ stage = "call" /\ stack = <<>> => Start
    /\ stage = "loop" => stack # <<>> /\ Merging(Top, 0, cache)
    /\ stage = "call" /\ stack # <<>> =>
         Merging(Top, 1, cache) /\ called = Top.file.extends[Top.next - 1]
    /\ stack # <<>> => stack[1].name = name /\ sources # <<>> /\ sources[1] = name
    /\ Chained(stack, seen, cache)
    /\ Names(stack) \intersect Settled(cache) = {}
    /\ Founded(seen, cache)
    /\ Listed(stack, seen, cache, sources)

Told == SourcesComplete /\ CyclesReported

IInv == TypeOK /\ (stage # "done" => Walk) /\ (stage = "done" => Told)

LEMMA BasesRead ==
    ASSUME NEW read, NEW p, NEW file, read[p] = <<file>>
    PROVE  /\ \A k \in DOMAIN file.extends : file.extends[k] \in Bases(read, p)
           /\ \A b \in Bases(read, p) : \E k \in DOMAIN file.extends : b = file.extends[k]
<1>1. read[p] # <<>> /\ read[p][1] = file
  OBVIOUS
<1> QED
  BY <1>1 DEF Bases

LEMMA ExtendsIsBases == ASSUME NEW p PROVE Extends(p) = Bases(seen, p)
  BY DEF Extends, File, Unreadable, Bases, Range

-----------------------------------------------------------------------------
LEMMA InitIInv == Init => IInv
<1> SUFFICES ASSUME Init PROVE IInv
  OBVIOUS
<1>1. TypeOK
  <2>1. files \in [Profiles -> Shapes]
    BY ResolveAssumption DEF Init, Shapes
  <2> QED
    BY <2>1, EmptySeq DEF Init, TypeOK
<1>2. Start /\ result = <<>> /\ stage = "begin"
  BY DEF Init, Start
<1>3. Walk
  <2>1. Chained(stack, seen, cache)
    BY <1>2 DEF Chained, Start
  <2>2. Settled(cache) = {} /\ Names(stack) = {}
    BY <1>2 DEF Settled, Names, Start
  <2>3. Founded(seen, cache)
    BY <2>2 DEF Founded
  <2>4. Listed(stack, seen, cache, sources)
    BY <1>2, <2>2 DEF Listed, Start
  <2> QED
    BY <1>2, <2>1, <2>2, <2>3, <2>4 DEF Walk, Start
<1> QED
  BY <1>1, <1>2, <1>3 DEF IInv

LEMMA EditIInv == ASSUME IInv, Edit PROVE IInv'
<1>1. stage # "done" /\ UNCHANGED <<request, stage, called, stack, cache, sources, seen, result>>
  BY DEF Edit
<1>2. files' \in [Profiles -> Shapes]
  BY ResolveAssumption DEF IInv, TypeOK, Edit, Shapes
<1>3. TypeOK'
  BY <1>1, <1>2 DEF IInv, TypeOK, request
<1>4. Walk'
  BY <1>1 DEF IInv, Walk, Start, Top, request
<1> QED
  BY <1>1, <1>3, <1>4 DEF IInv

(* An error is no answer and no chain.                                     *)
LEMMA ErrorTold == ASSUME result = <<"error">> PROVE Told
  BY DEF Told, SourcesComplete, CyclesReported, Succeeded

LEMMA BeginIInv == ASSUME IInv, Begin PROVE IInv'
<1>1. stage = "begin" /\ Walk /\ Start
      /\ UNCHANGED <<edits, request, called, stack, cache, sources, seen>>
  BY DEF IInv, Begin, Walk
<1>2. CASE Conclude(<<"error">>) /\ UNCHANGED files
  <2>1. Told'
    BY <1>2, ErrorTold DEF Conclude, Told, SourcesComplete, CyclesReported, Succeeded
  <2> QED
    BY <1>1, <1>2, <2>1 DEF IInv, TypeOK, Conclude, request
<1>3. CASE /\ stage' = "call" /\ UNCHANGED result
           /\ files' = [files EXCEPT ![name] = WithoutMain(@, disabled)]
  <2>1. files' \in [Profiles -> Shapes]
    BY <1>3 DEF IInv, TypeOK, Shapes, WithoutMain
  <2>2. TypeOK'
    BY <1>1, <1>3, <2>1 DEF IInv, TypeOK, request
  <2>3. Walk'
    BY <1>1, <1>3 DEF Walk, Start, Top, request
  <2> QED
    BY <1>3, <2>2, <2>3 DEF IInv
<1> QED
  BY <1>2, <1>3 DEF Begin

(* Each profile of the chain is read as extending the next one.            *)
LEMMA CycleIInv == ASSUME IInv, Cycle PROVE IInv'
<1>0. TypeOK
  BY DEF IInv
<1> PICK chain : chain = [i \in DOMAIN stack |-> stack[i].name] \o <<called>>
  OBVIOUS
<1>1. stage = "call" /\ called \in Names(stack) /\ stage' = "done" /\ result' = <<"cycle", chain>>
      /\ UNCHANGED <<disk, request, called, stack, cache, sources, seen>>
  BY DEF Cycle, Conclude, Open, Names
<1> PICK n \in Nat : n = Len(stack) /\ DOMAIN stack = 1..n
  BY <1>0, LenProperties DEF TypeOK
<1>2. stack # <<>> /\ n >= 1
  BY <1>0, <1>1, EmptySeq DEF Names, TypeOK
<1>6. \A i \in 1..n : stack[i] \in Calls
  BY <1>0, ElementOfSeq DEF TypeOK
<1>4. Len(chain) = n + 1 /\ chain[n + 1] = called /\ \A i \in 1..n : chain[i] = stack[i].name
  <2>1. [i \in 1..n |-> stack[i].name] \in Seq(Profiles) /\ Len([i \in 1..n |-> stack[i].name]) = n
    BY <1>6, IsASeq DEF Calls
  <2> QED
    BY <1>0, <2>1 DEF TypeOK
<1>5. Walk /\ Merging(stack[n], 1, cache) /\ called = stack[n].file.extends[stack[n].next - 1]
  BY <1>1, <1>2 DEF Walk, IInv, Top
<1>7. \A i \in 1..n : chain[i + 1] = stack[i].file.extends[stack[i].next - 1]
                      /\ stack[i].next - 1 \in DOMAIN stack[i].file.extends
  <2> SUFFICES ASSUME NEW i \in 1..n
               PROVE  chain[i + 1] = stack[i].file.extends[stack[i].next - 1]
                      /\ stack[i].next - 1 \in DOMAIN stack[i].file.extends
    OBVIOUS
  <2>1. Merging(stack[i], 1, cache) /\ chain[i + 1] = stack[i].file.extends[stack[i].next - 1]
    <3>1. CASE i = n
      BY <1>4, <1>5, <3>1
    <3>2. CASE i # n
      <4>1. i \in 1..(n - 1) /\ i + 1 \in 1..n
        BY <1>2, <3>2
      <4>2. Merging(stack[i], 1, cache) /\ stack[i + 1].name = stack[i].file.extends[stack[i].next - 1]
        BY <1>5, <4>1 DEF Walk, Chained
      <4> QED
        BY <1>4, <4>1, <4>2
    <3> QED
      BY <3>1, <3>2
  <2>2. stack[i].next \in Nat /\ stack[i].file.extends \in Seq(Profiles)
    BY <1>6 DEF Calls, Shapes
  <2> QED
    BY <2>1, <2>2, LenProperties DEF Merging
<1>8. \A i \in 1..n : chain[i + 1] \in Bases(seen, chain[i])
  <2> SUFFICES ASSUME NEW i \in 1..n PROVE chain[i + 1] \in Bases(seen, chain[i])
    OBVIOUS
  <2>1. seen[chain[i]] = <<stack[i].file>>
    BY <1>2, <1>4, <1>5 DEF Walk, Chained
  <2>2. \A k \in DOMAIN stack[i].file.extends : stack[i].file.extends[k] \in Bases(seen, chain[i])
    BY <2>1, BasesRead
  <2> QED
    BY <1>7, <2>2
<1>9. \A i \in 1..n : chain[i + 1] \in Extends(chain[i])'
  <2>1. \A p : Extends(p)' = Extends(p)
    BY <1>1 DEF Extends, File
  <2> QED
    BY <1>8, <2>1, ExtendsIsBases, Zenon
<1>10. chain[1] = name' /\ chain[Len(chain)] \in {chain[i] : i \in 1..n}
  <2>1. 1 \in 1..n /\ stack[1].name = name /\ name' = name
    BY <1>1, <1>2, <1>5 DEF Walk, request
  <2>2. PICK i \in 1..n : stack[i].name = called
    BY <1>1, <1>2 DEF Names
  <2> QED
    BY <1>4, <2>1, <2>2
<1>11. Told'
  <2>1. result'[1] = "cycle" /\ result'[2] = chain /\ result' # <<>> /\ ~Succeeded'
    BY <1>1 DEF Succeeded
  <2>2. Len(chain) - 1 = n
    BY <1>2, <1>4
  <2> QED
    BY <1>9, <1>10, <2>1, <2>2 DEF Told, SourcesComplete, CyclesReported
<1> QED
  BY <1>0, <1>1, <1>11 DEF IInv, TypeOK, disk, request

-----------------------------------------------------------------------------
(* Lists of calls that differ in what has been merged and in how far the   *)
(* innermost has come.                                                     *)
Alike(calls, others) ==
    /\ calls \in Seq(Calls) /\ others \in Seq(Calls) /\ Len(calls) = Len(others)
    /\ \A i \in 1..Len(calls) :
         calls[i].name = others[i].name /\ calls[i].file = others[i].file
    /\ \A i \in 1..(Len(calls) - 1) : calls[i].next = others[i].next

LEMMA AlikeNames == ASSUME NEW calls, NEW others, Alike(calls, others)
                    PROVE  Names(others) = Names(calls)
<1>1. DOMAIN calls = 1..Len(calls) /\ DOMAIN others = 1..Len(calls)
  BY LenProperties DEF Alike
<1> QED
  BY <1>1 DEF Alike, Names

LEMMA AlikeChained ==
    ASSUME NEW calls, NEW others, Alike(calls, others), NEW read, NEW known,
           Chained(calls, read, known)
    PROVE  Chained(others, read, known)
<1> PICK n \in Nat : n = Len(calls) /\ n = Len(others) /\ DOMAIN calls = 1..n /\ DOMAIN others = 1..n
  BY LenProperties DEF Alike
<1>1. \A i \in 1..(n - 1) : i \in 1..n /\ i + 1 \in 1..n
  OBVIOUS
<1>2. \A i \in 1..n : read[others[i].name] = <<others[i].file>>
  BY DEF Alike, Chained
<1>3. \A i, j \in 1..n : others[i].name = others[j].name => i = j
  BY DEF Alike, Chained
<1>4. ASSUME NEW i \in 1..(n - 1)
      PROVE  Merging(others[i], 1, known) /\ others[i + 1].name = others[i].file.extends[others[i].next - 1]
  <2>1. others[i].file = calls[i].file /\ others[i].next = calls[i].next
        /\ others[i + 1].name = calls[i + 1].name
    BY <1>1 DEF Alike
  <2> QED
    BY <2>1 DEF Chained, Merging
<1> QED
  BY <1>2, <1>3, <1>4 DEF Chained

LEMMA MoreMerging ==
    ASSUME NEW call \in Calls, NEW unmerged \in Nat, NEW known, NEW after,
           Merging(call, unmerged, known), Settled(known) \subseteq Settled(after)
    PROVE  Merging(call, unmerged, after)
<1>1. call.next \in Nat /\ call.file.extends \in Seq(Profiles)
  BY DEF Calls, Shapes
<1>2. ASSUME NEW k \in 1..(call.next - 1 - unmerged) PROVE after[call.file.extends[k]] # <<>>
  <2>1. k \in 1..Len(call.file.extends) /\ known[call.file.extends[k]] # <<>>
    BY <1>1, LenProperties DEF Merging
  <2> QED
    BY <1>1, <2>1, ElementOfSeq DEF Settled
<1> QED
  BY <1>2 DEF Merging

(* What is merged into a call stays merged when the innermost call ends.   *)
LEMMA FrontChained ==
    ASSUME NEW calls \in Seq(Calls), calls # <<>>, NEW read, NEW known, NEW after,
           Chained(calls, read, known), Settled(known) \subseteq Settled(after)
    PROVE  /\ Front(calls) \in Seq(Calls) /\ Len(Front(calls)) = Len(calls) - 1
           /\ \A i \in 1..(Len(calls) - 1) : Front(calls)[i] = calls[i]
           /\ Chained(Front(calls), read, after)
           /\ Names(Front(calls)) = Names(calls) \ {calls[Len(calls)].name}
<1> PICK n \in Nat : n = Len(calls) /\ DOMAIN calls = 1..n /\ n >= 1
  BY LenProperties, EmptySeq
<1>1. \A i \in 1..n : calls[i] \in Calls
  BY ElementOfSeq
<1>2. Front(calls) \in Seq(Calls) /\ Len(Front(calls)) = n - 1
      /\ \A i \in 1..(n - 1) : Front(calls)[i] = calls[i]
  <2>1. 1 \in Int /\ n - 1 \in Int /\ \A i \in 1..(n - 1) : calls[i] \in Calls
    BY <1>1
  <2> QED
    BY <2>1, SubSeqProperties, SMTT(30) DEF Front
<1>3. DOMAIN Front(calls) = 1..(n - 1)
  BY <1>2, LenProperties
<1>4. \A i \in 1..(n - 2) : i \in 1..(n - 1) /\ i + 1 \in 1..(n - 1)
  OBVIOUS
<1>5. ASSUME NEW i \in 1..(n - 2)
      PROVE  Merging(Front(calls)[i], 1, after)
             /\ Front(calls)[i + 1].name = Front(calls)[i].file.extends[Front(calls)[i].next - 1]
  <2>1. i \in 1..(n - 1) /\ calls[i] \in Calls /\ Front(calls)[i] = calls[i] /\ Front(calls)[i + 1] = calls[i + 1]
    BY <1>1, <1>2, <1>4
  <2>2. Merging(calls[i], 1, known) /\ calls[i + 1].name = calls[i].file.extends[calls[i].next - 1]
    BY <2>1 DEF Chained
  <2> QED
    BY <2>1, <2>2, MoreMerging
<1>6. Chained(Front(calls), read, after)
  <2>1. \A i \in 1..(n - 1) : i \in 1..n
    OBVIOUS
  <2>2. \A i \in 1..(n - 1) : read[Front(calls)[i].name] = <<Front(calls)[i].file>>
    BY <1>2, <2>1 DEF Chained
  <2>3. \A i, j \in 1..(n - 1) : Front(calls)[i].name = Front(calls)[j].name => i = j
    BY <1>2, <2>1 DEF Chained
  <2>4. Len(Front(calls)) - 1 = n - 2
    BY <1>2
  <2> QED
    BY <1>3, <1>5, <2>2, <2>3, <2>4 DEF Chained
<1>7. Names(Front(calls)) = Names(calls) \ {calls[n].name}
  <2>1. \A i \in 1..(n - 1) : i \in 1..n /\ i # n
    OBVIOUS
  <2>2. \A i \in 1..n : i # n => i \in 1..(n - 1)
    OBVIOUS
  <2>3. ASSUME NEW p \in Names(Front(calls)) PROVE p \in Names(calls) \ {calls[n].name}
    <3>1. PICK i \in 1..(n - 1) : p = calls[i].name
      BY <1>2, <1>3 DEF Names
    <3>2. i \in 1..n /\ n \in 1..n /\ i # n
      BY <2>1
    <3> QED
      BY <3>1, <3>2 DEF Names, Chained
  <2>4. ASSUME NEW p \in Names(calls), p # calls[n].name PROVE p \in Names(Front(calls))
    <3>1. PICK i \in 1..n : p = calls[i].name
      BY DEF Names
    <3>2. i \in 1..(n - 1) /\ Front(calls)[i] = calls[i]
      BY <1>2, <2>2, <2>4, <3>1
    <3> QED
      BY <1>3, <3>1, <3>2 DEF Names
  <2> QED
    BY <2>3, <2>4
<1> QED
  BY <1>2, <1>6, <1>7

(* A profile all bases of which are in the cache can go there.             *)
LEMMA FoundedGrows ==
    ASSUME NEW read, NEW known, NEW after, NEW p \in Profiles,
           Founded(read, known), p \notin Settled(known),
           Settled(after) = Settled(known) \union {p}, Bases(read, p) \subseteq Settled(known)
    PROVE  Founded(read, after)
<1>1. \A q \in Settled(after) : Bases(read, q) \subseteq Settled(after)
  BY DEF Founded
<1>2. ASSUME NEW P \in SUBSET Settled(after), P # {}
      PROVE  \E q \in P : Bases(read, q) \intersect P = {}
  <2> DEFINE Q == P \ {p}
  <2>1. Q \in SUBSET Settled(known)
    OBVIOUS
  <2>2. CASE Q = {}
    BY <1>2, <2>2
  <2>3. CASE Q # {}
    <3>1. PICK q \in Q : Bases(read, q) \intersect Q = {}
      BY <2>1, <2>3 DEF Founded
    <3>2. p \notin Bases(read, q)
      BY <2>1 DEF Founded
    <3> QED
      BY <3>1, <3>2
  <2> QED
    BY <2>2, <2>3
<1> QED
  BY <1>1, <1>2 DEF Founded

LEMMA MergeType == ASSUME NEW base \in Maps, NEW servers \in Maps
                   PROVE  Merge(base, servers) \in Maps
  BY DEF Merge, Maps

(* A caller takes over what the call it waited for returns.                *)
LEMMA MergedAlike ==
    ASSUME NEW calls \in Seq(Calls), calls # <<>>, NEW servers \in Maps
    PROVE  LET merged == [calls EXCEPT ![Len(calls)].base = Merge(@, servers)]
           IN  Alike(calls, merged) /\ merged[Len(calls)].next = calls[Len(calls)].next
<1> PICK n \in Nat : n = Len(calls) /\ DOMAIN calls = 1..n /\ n \in 1..n
  BY LenProperties, EmptySeq
<1> PICK call \in Calls : call = calls[n]
  BY ElementOfSeq
<1> DEFINE last == [call EXCEPT !.base = Merge(@, servers)]
<1>1. last \in Calls /\ last.name = call.name /\ last.file = call.file /\ last.next = call.next
  BY MergeType DEF Calls
<1> PICK merged : merged = [calls EXCEPT ![n].base = Merge(@, servers)]
  OBVIOUS
<1>2. merged = [calls EXCEPT ![n] = last]
  OBVIOUS
<1> HIDE DEF last
<1>3. merged \in Seq(Calls) /\ Len(merged) = n /\ \A j \in 1..n : merged[j] = IF j = n THEN last ELSE calls[j]
  BY <1>1, <1>2, ExceptSeq
<1> QED
  BY <1>1, <1>3 DEF Alike

-----------------------------------------------------------------------------
LEMMA CachedIInv == ASSUME IInv, Cached PROVE IInv'
<1>0. TypeOK /\ Walk /\ stage = "call" /\ called \in Profiles /\ cache[called] # <<>>
      /\ UNCHANGED <<disk, request, called, cache, sources, seen>>
  BY DEF IInv, TypeOK, Cached
<1>1. stack # <<>>
  BY <1>0 DEF Walk, Start
<1> PICK servers \in Maps : servers = cache[called][1]
  <2>1. cache[called] \in Seq(Maps) /\ Len(cache[called]) \in Nat \ {0}
    BY <1>0, EmptySeq DEF TypeOK
  <2> QED
    BY <2>1, ElementOfSeq
<1>2. stage' = "loop" /\ result' = result
      /\ stack' = [stack EXCEPT ![Len(stack)].base = Merge(@, servers)]
  BY <1>1 DEF Cached, Return
<1>3. Alike(stack, stack') /\ stack'[Len(stack)].next = stack[Len(stack)].next
  BY <1>0, <1>1, <1>2, MergedAlike DEF TypeOK
<1> PICK n \in Nat : n = Len(stack) /\ n = Len(stack') /\ n \in 1..n
  BY <1>1, <1>3, LenProperties, EmptySeq DEF Alike
<1>4. TypeOK'
  BY <1>0, <1>2, <1>3 DEF TypeOK, Alike, disk, request
<1>5. Chained(stack', seen', cache')
  BY <1>0, <1>3, AlikeChained DEF Walk
<1>6. Names(stack') = Names(stack)
  BY <1>3, AlikeNames
<1>7. stack[n] \in Calls /\ stack'[n].file = stack[n].file /\ stack'[n].next = stack[n].next
      /\ stack'[1].name = stack[1].name
  <2>1. n \in 1..Len(stack) /\ 1 \in 1..Len(stack) /\ stack \in Seq(Calls)
    BY <1>0 DEF TypeOK
  <2>2. stack[n] \in Calls
    BY <2>1, ElementOfSeq
  <2>3. stack'[n].file = stack[n].file /\ stack'[1].name = stack[1].name
    BY <1>3, <2>1 DEF Alike
  <2> QED
    BY <1>3, <2>2, <2>3
<1>8. Merging(stack'[n], 0, cache')
  <2>1. Merging(stack[n], 1, cache) /\ cache[stack[n].file.extends[stack[n].next - 1]] # <<>>
    BY <1>0, <1>1 DEF Walk, Top
  <2>2. stack[n].next \in Nat
    BY <1>7 DEF Calls
  <2>3. \A k \in 1..(stack[n].next - 1) : k \in 1..(stack[n].next - 2) \/ k = stack[n].next - 1
    BY <2>2
  <2> QED
    BY <1>0, <1>7, <2>1, <2>2, <2>3 DEF Merging
<1>9. stack' # <<>>
  BY <1>3, EmptySeq DEF Alike
<1>10. Walk'
  <2>1. Founded(seen', cache') /\ Names(stack') \intersect Settled(cache') = {}
        /\ Listed(stack', seen', cache', sources')
    BY <1>0, <1>6 DEF Walk, Listed
  <2> QED
    BY <1>0, <1>1, <1>2, <1>5, <1>7, <1>8, <1>9, <2>1 DEF Walk, Top, request
<1> QED
  BY <1>2, <1>4, <1>10 DEF IInv

LEMMA NextBaseIInv == ASSUME IInv, NextBase PROVE IInv'
<1>0. TypeOK /\ Walk /\ stage = "loop" /\ stage' = "call" /\ stack # <<>>
      /\ UNCHANGED <<disk, request, cache, sources, seen, result>>
  BY DEF IInv, NextBase, Walk
<1> PICK n \in Nat : n = Len(stack) /\ n \in 1..n /\ stack[n] \in Calls
  BY <1>0, LenProperties, EmptySeq, ElementOfSeq DEF TypeOK
<1> PICK call \in Calls : call = stack[n]
  OBVIOUS
<1>1. call.next <= Len(call.file.extends) /\ called' = call.file.extends[call.next]
      /\ stack' = [stack EXCEPT ![n].next = @ + 1] /\ Merging(call, 0, cache)
  BY <1>0 DEF NextBase, Top, Walk
<1>2. call.next \in Nat /\ call.next >= 1 /\ call.file.extends \in Seq(Profiles)
  BY <1>1 DEF Calls, Shapes, Merging
<1> DEFINE last == [call EXCEPT !.next = @ + 1]
<1>3. last \in Calls /\ last.name = call.name /\ last.file = call.file /\ last.next = call.next + 1
  BY DEF Calls
<1>4. stack' = [stack EXCEPT ![n] = last]
  BY <1>1
<1> HIDE DEF last
<1>5. stack' \in Seq(Calls) /\ Len(stack') = n /\ \A j \in 1..n : stack'[j] = IF j = n THEN last ELSE stack[j]
  BY <1>0, <1>3, <1>4, ExceptSeq DEF TypeOK
<1>6. Alike(stack, stack') /\ stack'[n] = last /\ stack' # <<>>
  <2>1. n \in 1..n /\ \A j \in 1..(n - 1) : j \in 1..n /\ j # n
    OBVIOUS
  <2>2. \A j \in 1..n : stack'[j].name = stack[j].name /\ stack'[j].file = stack[j].file
    BY <1>3, <1>5
  <2>3. stack' # <<>>
    BY <1>5, <2>1, EmptySeq
  <2> QED
    BY <1>0, <1>5, <2>1, <2>2, <2>3 DEF Alike, TypeOK
<1>7. called' \in Profiles
  BY <1>1, <1>2, ElementOfSeq, LenProperties
<1>8. TypeOK'
  BY <1>0, <1>5, <1>7 DEF TypeOK, disk, request
<1>9. Chained(stack', seen', cache') /\ Names(stack') = Names(stack)
  BY <1>0, <1>6, AlikeChained, AlikeNames DEF Walk
<1>10. Merging(last, 1, cache') /\ called' = last.file.extends[last.next - 1]
  BY <1>0, <1>1, <1>2, <1>3 DEF Merging
<1>11. stack'[1].name = stack[1].name
  BY <1>5, <1>3
<1>12. Founded(seen', cache') /\ Names(stack') \intersect Settled(cache') = {}
       /\ Listed(stack', seen', cache', sources')
  BY <1>0, <1>9 DEF Walk, Listed
<1>13. Walk'
  BY <1>0, <1>5, <1>6, <1>9, <1>10, <1>11, <1>12 DEF Walk, Top, request
<1> QED
  BY <1>0, <1>8, <1>13 DEF IInv

(* A profile is read once: it is neither under way nor in the cache.       *)
LEMMA ReadIInv == ASSUME IInv, Read PROVE IInv'
<1>0. TypeOK /\ Walk /\ stage = "call" /\ called \in Profiles
      /\ UNCHANGED <<disk, request, called, cache>>
  BY DEF IInv, TypeOK, Read
<1>1. called \notin Names(stack) /\ called \notin Settled(cache)
  BY DEF Read, Open, Names, Settled
<1> PICK file \in Shapes : file = files[called]
  BY <1>0 DEF TypeOK
<1>2. seen' = [seen EXCEPT ![called] = <<file>>] /\ seen' \in [Profiles -> Seq(Shapes)]
  BY <1>0 DEF Read, TypeOK
<1>3. CASE ~file.ok /\ Conclude(<<"error">>) /\ UNCHANGED <<stack, sources>>
  <2>1. Told'
    BY <1>3 DEF Conclude, Told, SourcesComplete, CyclesReported, Succeeded
  <2> QED
    BY <1>0, <1>2, <1>3, <2>1 DEF IInv, TypeOK, Conclude, disk, request
<1> DEFINE call == [name |-> called, file |-> file, next |-> 1, base |-> Nothing]
<1>4. CASE /\ sources' = IF Contains(sources, called) THEN sources ELSE Append(sources, called)
           /\ stack' = Append(stack, call)
           /\ stage' = "loop" /\ UNCHANGED result
  <2>1. call \in Calls /\ call.name = called /\ call.file = file /\ call.next = 1
    BY <1>0 DEF Calls, Maps, Nothing
  <2> PICK n \in Nat : n = Len(stack) /\ DOMAIN stack = 1..n
    BY <1>0, LenProperties DEF TypeOK
  <2> PICK m \in Nat : m = Len(sources) /\ DOMAIN sources = 1..m
    BY <1>0, LenProperties DEF TypeOK
  <2>2. stack' \in Seq(Calls) /\ Len(stack') = n + 1 /\ stack'[n + 1] = call /\ stack' # <<>>
        /\ DOMAIN stack' = 1..(n + 1) /\ \A i \in 1..n : stack'[i] = stack[i]
    <3> HIDE DEF call
    <3>1. stack \in Seq(Calls) /\ stack' = Append(stack, call)
      BY <1>0, <1>4 DEF TypeOK
    <3>2. stack' \in Seq(Calls) /\ Len(stack') = n + 1 /\ stack'[n + 1] = call /\ stack' # <<>>
          /\ \A i \in 1..n : stack'[i] = stack[i]
      BY <2>1, <3>1, AppendProperties
    <3>3. DOMAIN stack' = 1..Len(stack')
      BY <3>2, LenProperties
    <3> QED
      BY <3>2, <3>3
  <2>3. \A i \in 1..m : sources[i] # called
    BY <1>0, <1>1 DEF Walk, Listed
  <2>4. sources' = Append(sources, called)
    BY <1>4, <2>3 DEF Contains
  <2>5. sources' \in Seq(Profiles) /\ Len(sources') = m + 1 /\ sources'[m + 1] = called /\ sources' # <<>>
        /\ DOMAIN sources' = 1..(m + 1) /\ \A i \in 1..m : sources'[i] = sources[i]
    <3>1. sources \in Seq(Profiles)
      BY <1>0 DEF TypeOK
    <3>2. sources' \in Seq(Profiles) /\ Len(sources') = m + 1 /\ sources'[m + 1] = called /\ sources' # <<>>
          /\ \A i \in 1..m : sources'[i] = sources[i]
      BY <1>0, <2>4, <3>1, AppendProperties
    <3>3. DOMAIN sources' = 1..Len(sources')
      BY <3>2, LenProperties
    <3> QED
      BY <3>2, <3>3
  <2> HIDE DEF call
  <2>6. TypeOK'
    BY <1>0, <1>2, <1>4, <2>2, <2>5 DEF TypeOK, disk, request
  <2>7. \A p \in Profiles : p # called => seen'[p] = seen[p] /\ Bases(seen', p) = Bases(seen, p)
    BY <1>0, <1>2 DEF TypeOK, Bases
  <2>8. seen'[called] = <<file>>
    BY <1>0, <1>2 DEF TypeOK
  <2>9. \A i \in 1..n : stack[i] \in Calls /\ stack[i].name \in Profiles /\ stack[i].name # called
    <3>1. \A i \in 1..n : stack[i] \in Calls
      BY <1>0, ElementOfSeq DEF TypeOK
    <3> QED
      BY <1>1, <3>1 DEF Calls, Names
  <2>10. \A i \in 1..(n + 1) : i \in 1..n \/ i = n + 1
    OBVIOUS
  <2>11. Chained(stack', seen', cache')
    <3>1. \A i \in 1..(n + 1) : seen'[stack'[i].name] = <<stack'[i].file>>
      <4>1. \A i \in 1..n : seen[stack[i].name] = <<stack[i].file>>
        BY <1>0 DEF Walk, Chained
      <4>2. \A i \in 1..n : seen'[stack'[i].name] = <<stack'[i].file>>
        BY <2>2, <2>7, <2>9, <4>1
      <4> QED
        BY <2>1, <2>2, <2>8, <2>10, <4>2
    <3>2. \A i, j \in 1..(n + 1) : stack'[i].name = stack'[j].name => i = j
      <4>1. \A i, j \in 1..n : stack[i].name = stack[j].name => i = j
        BY <1>0 DEF Walk, Chained
      <4> QED
        BY <2>1, <2>2, <2>9, <2>10, <4>1
    <3>3. ASSUME NEW i \in 1..n
          PROVE  Merging(stack[i], 1, cache) /\ stack'[i + 1].name = stack[i].file.extends[stack[i].next - 1]
      <4>1. CASE i = n
        <5>1. stack # <<>>
          BY <1>0, <4>1, EmptySeq
        <5> QED
          BY <1>0, <2>1, <2>2, <4>1, <5>1 DEF Walk, Top
      <4>2. CASE i # n
        <5>1. i \in 1..(n - 1) /\ i + 1 \in 1..n
          BY <4>2
        <5> QED
          BY <1>0, <2>2, <5>1 DEF Walk, Chained
      <4> QED
        BY <4>1, <4>2
    <3>4. \A i \in 1..(Len(stack') - 1) : i \in 1..n
      BY <2>2
    <3> QED
      BY <1>0, <2>2, <3>1, <3>2, <3>3, <3>4 DEF Chained
  <2>12. Names(stack') = Names(stack) \union {called}
    <3>1. \A i \in 1..n : i \in 1..(n + 1)
      OBVIOUS
    <3>2. n + 1 \in 1..(n + 1)
      OBVIOUS
    <3> QED
      BY <2>1, <2>2, <2>10, <3>1, <3>2 DEF Names
  <2>13. Merging(call, 0, cache')
    <3>1. Len(file.extends) \in Nat
      BY LenProperties DEF Shapes
    <3> QED
      BY <2>1, <3>1 DEF Merging
  <2>14. stack'[1].name = name /\ sources'[1] = name
    <3>1. CASE stack = <<>>
      <4>1. n = 0 /\ m = 0 /\ called = name
        BY <1>0, <3>1, EmptySeq DEF Walk, Start
      <4> QED
        BY <2>1, <2>2, <2>5, <4>1
    <3>2. CASE stack # <<>>
      <4>1. n \in Nat \ {0} /\ m \in Nat \ {0} /\ stack[1].name = name /\ sources[1] = name
        BY <1>0, <3>2, EmptySeq DEF Walk, TypeOK
      <4> QED
        BY <2>2, <2>5, <4>1
    <3> QED
      BY <3>1, <3>2
  <2>15. Founded(seen', cache')
    <3>1. \A p \in Settled(cache) : p \in Profiles /\ p # called
      BY <1>1 DEF Settled
    <3> QED
      BY <1>0, <2>7, <3>1 DEF Walk, Founded
  <2>16. Listed(stack', seen', cache', sources')
    <3>0. \A i \in 1..(m + 1) : i \in 1..m \/ i = m + 1
      OBVIOUS
    <3>00. \A i \in 1..m : i \in 1..(m + 1) /\ sources[i] \in Profiles /\ sources[i] # called
      BY <1>0, <2>3, ElementOfSeq DEF TypeOK
    <3>1. ASSUME NEW p \in Profiles
          PROVE  (\E i \in 1..(m + 1) : sources'[i] = p) <=> p \in Names(stack') \union Settled(cache')
      <4>1. (\E i \in 1..m : sources[i] = p) <=> p \in Names(stack) \union Settled(cache)
        BY <1>0 DEF Walk, Listed
      <4>2. (\E i \in 1..(m + 1) : sources'[i] = p) <=> p = called \/ \E i \in 1..m : sources[i] = p
        BY <2>5, <3>0, <3>00
      <4> QED
        BY <1>0, <2>12, <4>1, <4>2
    <3>2. \A i, j \in 1..(m + 1) : sources'[i] = sources'[j] => i = j
      <4>1. \A i, j \in 1..m : sources[i] = sources[j] => i = j
        BY <1>0 DEF Walk, Listed
      <4> QED
        BY <2>5, <3>0, <3>00, <4>1
    <3>3. ASSUME NEW i \in 1..(m + 1), i > 1
          PROVE  \E j \in 1..(i - 1) : sources'[i] \in Bases(seen', sources'[j])
      <4>1. CASE i \in 1..m
        <5>1. PICK j \in 1..(i - 1) : sources[i] \in Bases(seen, sources[j])
          BY <1>0, <3>3, <4>1 DEF Walk, Listed
        <5>2. j \in 1..m
          BY <4>1
        <5> QED
          BY <2>5, <2>7, <3>00, <4>1, <5>1, <5>2
      <4>2. CASE i = m + 1
        <5>1. stack # <<>>
          BY <1>0, <3>3, <4>2, EmptySeq DEF Walk, Start
        <5>2. n \in 1..n /\ Merging(stack[n], 1, cache) /\ called = stack[n].file.extends[stack[n].next - 1]
          BY <1>0, <5>1, EmptySeq DEF Walk, Top, TypeOK
        <5>3. stack[n].next - 1 \in DOMAIN stack[n].file.extends
          BY <2>9, <5>2, LenProperties DEF Merging, Calls, Shapes
        <5>4. seen[stack[n].name] = <<stack[n].file>>
          BY <1>0, <5>2 DEF Walk, Chained
        <5>5. called \in Bases(seen, stack[n].name)
          BY <5>2, <5>3, <5>4, BasesRead
        <5>6. PICK j \in 1..m : sources[j] = stack[n].name
          BY <1>0, <2>9, <5>2 DEF Walk, Listed, Names
        <5>7. j \in 1..(i - 1) /\ sources'[j] = stack[n].name
          BY <2>5, <4>2, <5>6
        <5> QED
          BY <2>5, <2>7, <2>9, <4>2, <5>2, <5>5, <5>7
      <4> QED
        BY <3>0, <4>1, <4>2
    <3> QED
      BY <2>5, <3>1, <3>2, <3>3 DEF Listed
  <2>17. Names(stack') \intersect Settled(cache') = {}
    BY <1>0, <1>1, <2>12 DEF Walk
  <2>18. Walk'
    <3>1. stack'[Len(stack')] = call
      BY <2>2
    <3> QED
      BY <1>0, <1>4, <2>2, <2>5, <2>11, <2>13, <2>14, <2>15, <2>16, <2>17, <3>1 DEF Walk, Top, request
  <2> QED
    BY <1>4, <2>6, <2>18 DEF IInv
<1> QED
  BY <1>3, <1>4 DEF Read

(* The innermost call goes into the cache: all its bases are there.        *)
LEMMA FinishIInv == ASSUME IInv, Finish PROVE IInv'
<1>0. TypeOK /\ Walk /\ stage = "loop" /\ stack # <<>>
      /\ UNCHANGED <<disk, request, called, sources, seen>>
  BY DEF IInv, Finish, Walk
<1> PICK n \in Nat : n = Len(stack) /\ DOMAIN stack = 1..n /\ n \in 1..n
  BY <1>0, LenProperties, EmptySeq DEF TypeOK
<1> PICK top \in Calls : top = stack[n]
  BY <1>0, ElementOfSeq DEF TypeOK
<1> PICK servers \in Maps : /\ cache' = [cache EXCEPT ![top.name] = <<servers>>]
                            /\ Return(servers, Front(stack))
  <2> DEFINE kept == [s \in Servers |-> IF s \in top.file.removed THEN <<>> ELSE top.base[s]]
  <2>1. kept \in Maps
    BY DEF Maps, Calls
  <2>2. Own(top.name, top.file) \in Maps
    BY DEF Own, Maps, Calls
  <2>3. Merge(kept, Own(top.name, top.file)) \in Maps
    BY <2>1, <2>2, MergeType
  <2> QED
    BY <2>3 DEF Finish, Top
<1>1. top.next > Len(top.file.extends) /\ Merging(top, 0, cache)
  BY <1>0 DEF Finish, Top, Walk
<1>2. top.name \in Profiles /\ top.next \in Nat /\ top.file.extends \in Seq(Profiles)
  BY DEF Calls, Shapes
<1>3. top.name \in Names(stack) /\ top.name \notin Settled(cache)
  BY <1>0 DEF Walk, Names
<1>4. cache' \in [Profiles -> Seq(Maps)] /\ Settled(cache') = Settled(cache) \union {top.name}
  <2>1. <<servers>> \in Seq(Maps) /\ <<servers>> # <<>>
    OBVIOUS
  <2>2. cache'[top.name] # <<>> /\ \A p \in Profiles : p # top.name => cache'[p] = cache[p]
    BY <1>0, <1>2, <2>1 DEF TypeOK
  <2> QED
    BY <1>0, <1>2, <2>1, <2>2 DEF TypeOK, Settled
<1>5. Bases(seen, top.name) \subseteq Settled(cache)
  <2> SUFFICES ASSUME NEW b \in Bases(seen, top.name) PROVE b \in Settled(cache)
    OBVIOUS
  <2>1. seen[top.name] = <<top.file>>
    BY <1>0 DEF Walk, Chained
  <2>2. PICK k \in DOMAIN top.file.extends : b = top.file.extends[k]
    BY <2>1, BasesRead
  <2>3. Len(top.file.extends) \in Nat /\ k \in 1..Len(top.file.extends)
    BY <1>2, LenProperties
  <2>4. cache[b] # <<>>
    BY <1>1, <1>2, <2>2, <2>3 DEF Merging
  <2> QED
    BY <1>2, <2>2, <2>3, <2>4, ElementOfSeq DEF Settled
<1>6. Founded(seen, cache')
  BY <1>0, <1>2, <1>3, <1>4, <1>5, FoundedGrows DEF Walk
<1>7. /\ Front(stack) \in Seq(Calls) /\ Len(Front(stack)) = n - 1
      /\ \A i \in 1..(n - 1) : Front(stack)[i] = stack[i]
      /\ Chained(Front(stack), seen, cache')
      /\ Names(Front(stack)) = Names(stack) \ {top.name}
  BY <1>0, <1>4, FrontChained DEF Walk, TypeOK
<1>8. Names(Front(stack)) \intersect Settled(cache') = {}
      /\ Names(Front(stack)) \union Settled(cache') = Names(stack) \union Settled(cache)
  BY <1>0, <1>3, <1>4, <1>7 DEF Walk
<1>9. Listed(Front(stack), seen, cache', sources)
  BY <1>0, <1>8 DEF Walk, Listed
<1>10. CASE Front(stack) = <<>> /\ Conclude(<<"ok", servers>>) /\ stack' = Front(stack)
  <2> PICK list \in Seq(Profiles) : list = sources /\ list = sources'
    BY <1>0 DEF TypeOK
  <2>1. \A p : Extends(p)' = Bases(seen, p)
    <3>1. \A p : Extends(p)' = Extends(p)
      BY <1>0 DEF Extends, File
    <3> QED
      BY <3>1, ExtendsIsBases
  <2>2. \A p : p \in Settled(cache') <=> \E i \in DOMAIN list : list[i] = p
    <3>1. Names(Front(stack)) = {}
      BY <1>10 DEF Names
    <3>2. \A i \in DOMAIN list : list[i] \in Profiles
      BY LenProperties, ElementOfSeq
    <3> QED
      BY <1>9, <3>1, <3>2 DEF Listed, Settled
  <2>3. Range(list) = Settled(cache')
    BY <2>2 DEF Range
  <2>4. IsInjective(list)
    BY <1>9 DEF Listed, IsInjective
  <2>5. Head(list) = name
    BY <1>0 DEF Walk
  <2>6. ASSUME NEW i \in DOMAIN list
        PROVE  /\ Bases(seen, list[i]) \subseteq Range(list)
               /\ i > 1 => \E j \in 1..(i - 1) : list[i] \in Bases(seen, list[j])
    <3>1. list[i] \in Settled(cache')
      BY <2>2
    <3>2. \A p \in Settled(cache') : Bases(seen, p) \subseteq Settled(cache')
      BY <1>6 DEF Founded
    <3>4. Bases(seen, list[i]) \subseteq Range(list)
      BY <2>3, <3>1, <3>2
    <3>3. i > 1 => \E j \in 1..(i - 1) : list[i] \in Bases(seen, list[j])
      BY <1>9 DEF Listed
    <3> QED
      BY <3>4, <3>3
  <2>7. \A P \in (SUBSET Range(list)) \ {{}} : \E p \in P : Bases(seen, p) \intersect P = {}
    BY <1>6, <2>3 DEF Founded
  <2>8. result' # <<>> /\ result'[1] = "ok" /\ name' = name
    BY <1>0, <1>10 DEF Conclude, request
  <2>9. SourcesComplete'
    BY <2>1, <2>4, <2>5, <2>6, <2>8 DEF SourcesComplete
  <2>10. CyclesReported'
    BY <2>1, <2>7, <2>8 DEF CyclesReported
  <2>11. TypeOK'
    BY <1>0, <1>4, <1>7, <1>10 DEF TypeOK, Conclude, disk, request
  <2> QED
    BY <1>10, <2>9, <2>10, <2>11 DEF IInv, Told, Conclude
<1>11. CASE /\ Front(stack) # <<>> /\ stage' = "loop" /\ UNCHANGED result
            /\ stack' = [Front(stack) EXCEPT ![Len(Front(stack))].base = Merge(@, servers)]
  <2> PICK calls \in Seq(Calls) : calls = Front(stack)
    BY <1>7
  <2>1. Alike(calls, stack') /\ stack'[n - 1].next = calls[n - 1].next
    BY <1>7, <1>11, MergedAlike
  <2>2. n - 1 \in 1..(n - 1) /\ 1 \in 1..(n - 1) /\ n - 1 \in 1..n
    BY <1>7, <1>11, EmptySeq
  <2>3. Chained(stack', seen', cache') /\ Names(stack') = Names(calls)
    BY <1>0, <1>7, <2>1, AlikeChained, AlikeNames
  <2>4. stack' \in Seq(Calls) /\ Len(stack') = n - 1 /\ stack' # <<>>
        /\ stack'[1].name = stack[1].name /\ stack'[n - 1].file = stack[n - 1].file
        /\ stack'[n - 1].next = stack[n - 1].next
    BY <1>7, <2>1, <2>2, EmptySeq DEF Alike
  <2>5. Merging(stack'[n - 1], 0, cache')
    <3> PICK caller \in Calls : caller = stack[n - 1]
      BY <1>0, <2>2, ElementOfSeq DEF TypeOK
    <3>1. Merging(caller, 1, cache) /\ top.name = caller.file.extends[caller.next - 1]
      BY <1>0, <2>2 DEF Walk, Chained
    <3>2. Merging(caller, 1, cache')
      BY <1>4, <3>1, MoreMerging
    <3>3. cache'[caller.file.extends[caller.next - 1]] # <<>>
      BY <1>4, <3>1 DEF Settled
    <3>4. caller.next \in Nat
      BY DEF Calls
    <3>5. \A k \in 1..(caller.next - 1) : k \in 1..(caller.next - 2) \/ k = caller.next - 1
      BY <3>4
    <3> QED
      BY <2>4, <3>2, <3>3, <3>4, <3>5 DEF Merging
  <2>6. TypeOK'
    BY <1>0, <1>4, <1>11, <2>4 DEF TypeOK, disk, request
  <2>7. Founded(seen', cache') /\ Names(stack') \intersect Settled(cache') = {}
        /\ Listed(stack', seen', cache', sources')
    BY <1>0, <1>6, <1>8, <1>9, <2>3 DEF Listed
  <2>8. Walk'
    BY <1>0, <1>11, <2>3, <2>4, <2>5, <2>7 DEF Walk, Top, request
  <2> QED
    BY <1>11, <2>6, <2>8 DEF IInv
<1> QED
  BY <1>10, <1>11 DEF Return

LEMMA StutterIInv == ASSUME IInv, UNCHANGED vars PROVE IInv'
<1>0. UNCHANGED <<files, name, called, stage, stack, cache, sources, seen, result>>
  BY DEF vars, disk, request
<1>1. TypeOK'
  BY <1>0 DEF IInv, TypeOK
<1>2. (stage # "done" => Walk)'
  BY <1>0 DEF IInv, Walk, Start, Top
<1>3. (stage = "done" => Told)'
  BY <1>0 DEF IInv, Told, SourcesComplete, CyclesReported, Succeeded, Extends, File
<1> QED
  BY <1>1, <1>2, <1>3 DEF IInv

(* No step breaks the invariant.                                           *)
THEOREM WalkIsInductive == Spec => []IInv
<1>1. IInv /\ [Next]_vars => IInv'
  BY EditIInv, BeginIInv, CycleIInv, CachedIInv, ReadIInv, NextBaseIInv, FinishIInv, StutterIInv
     DEF Next, Step
<1> QED
  BY InitIInv, <1>1, PTL DEF Spec

LEMMA ToldAlways == IInv => SourcesComplete /\ CyclesReported
<1>1. Walk => ~Succeeded /\ result = <<>>
  BY DEF Walk, Succeeded
<1>2. result = <<>> => SourcesComplete /\ CyclesReported
  BY DEF SourcesComplete, CyclesReported, Succeeded
<1> QED
  BY <1>1, <1>2 DEF IInv, Told

(* sourceFiles names what the answer depends on, whatever the files hold   *)
(* and however they are rewritten meanwhile.                               *)
THEOREM SourcesAreComplete == Spec => []SourcesComplete
<1> QED
  BY WalkIsInductive, ToldAlways, PTL

(* A reported cycle is one, and no answer is given for profiles that       *)
(* inherit from each other in a circle.                                    *)
THEOREM CyclesAreReported == Spec => []CyclesReported
<1> QED
  BY WalkIsInductive, ToldAlways, PTL

-----------------------------------------------------------------------------
(* What the last of the first m bases that has a server says of it.        *)
Given(known, bases, m, s) ==
    LET giving == {k \in 1..m : known[bases[k]][1][s] # <<>>}
    IN  IF giving = {} THEN <<>> ELSE known[bases[Max(giving)]][1][s]

(* What a profile makes of what it is given.                               *)
Made(p, file, given, s) ==
    IF s \in file.extra THEN <<p, "extra">>
    ELSE IF s \in file.main THEN <<p, "main">>
    ELSE IF s \in file.removed THEN <<>> ELSE given

(* What is in the cache was made of what is in the cache of the bases.     *)
Faithful(read, known) ==
    \A p \in Settled(known) :
        /\ read[p] # <<>>
        /\ \A s \in Servers :
             known[p][1][s] =
               Made(p, read[p][1], Given(known, read[p][1].extends, Len(read[p][1].extends), s), s)

(* The loop of a call has gathered what the merged bases say.              *)
Gathered(call, unmerged, known) ==
    \A s \in Servers : call.base[s] = Given(known, call.file.extends, call.next - 1 - unmerged, s)

(* While the walk goes on.                                                 *)
Inherits ==
    /\ Faithful(seen, cache)
    /\ \A i \in 1..(Len(stack) - 1) : Gathered(stack[i], 1, cache)
    /\ stage = "loop" => Gathered(Top, 0, cache)
    /\ stage = "call" /\ stack # <<>> => Gathered(Top, 1, cache)

(* When it has ended with an answer.                                       *)
Concluded ==
    /\ Founded(seen, cache) /\ Faithful(seen, cache)
    /\ name \in Settled(cache) /\ result[2] = cache[name][1]

IInherit == IInv /\ (stage # "done" => Inherits) /\ (Succeeded => Concluded)

-----------------------------------------------------------------------------
(* A non-empty set of numbers has a least one.                             *)
LEMMA LeastNumber ==
    ASSUME NEW T \in SUBSET Nat, T # {}
    PROVE  \E t \in T : \A y \in T : t <= y
<1> DEFINE R == {ss \in Nat \X Nat : ss[1] < ss[2]}
<1>1. IsWellFoundedOn(R, Nat)
  BY NatLessThanWellFounded, Zenon DEF OpToRel
<1>2. \A y, z \in Nat : y < z => <<y, z>> \in R
  OBVIOUS
<1> HIDE DEF R
<1>3. PICK t \in T : \A y \in T : <<y, t>> \notin R
  BY <1>1, WFMin
<1>4. \A y \in T : ~(y < t)
  BY <1>2, <1>3
<1> QED
  BY <1>4

(* A non-empty set of places has a last one.                               *)
LEMMA LastPlace ==
    ASSUME NEW m \in Nat, NEW S \in SUBSET (1..m), S # {}
    PROVE  Max(S) \in S /\ \A y \in S : y <= Max(S)
<1> DEFINE T == {m - x : x \in S}
<1>1. T \in SUBSET Nat /\ T # {}
  <2>1. \A x \in S : m - x \in Nat
    OBVIOUS
  <2> QED
    BY <2>1
<1>2. PICK t \in T : \A y \in T : t <= y
  BY <1>1, LeastNumber
<1>3. PICK x \in S : t = m - x
  OBVIOUS
<1>4. \A y \in S : x >= y
  <2> TAKE y \in S
  <2>1. m - y \in T
    OBVIOUS
  <2>2. m - x <= m - y
    BY <1>2, <1>3, <2>1
  <2>3. x \in Nat /\ y \in Nat
    OBVIOUS
  <2> QED
    BY <2>2, <2>3
<1> QED
  BY <1>4 DEF Max

(* They hold the same of the first m bases.                                *)
SameOf(known, after, bases, m) == \A k \in 1..m : after[bases[k]] = known[bases[k]]

(* What is given depends on the bases alone.                               *)
LEMMA GivenSame ==
    ASSUME NEW known, NEW after, NEW bases, NEW m \in Nat, NEW s, SameOf(known, after, bases, m)
    PROVE  Given(after, bases, m, s) = Given(known, bases, m, s)
<1>0. \A k \in 1..m : after[bases[k]] = known[bases[k]]
  BY DEF SameOf
<1> PICK giving : giving = {k \in 1..m : known[bases[k]][1][s] # <<>>}
  OBVIOUS
<1>1. giving = {k \in 1..m : after[bases[k]][1][s] # <<>>}
  BY <1>0
<1>2. giving # {} => Max(giving) \in 1..m
  BY LastPlace
<1> QED
  BY <1>0, <1>1, <1>2 DEF Given

(* What the first m + 1 bases give is what the last of them gives, if it   *)
(* has the server, and what the first m give otherwise.                    *)
OneMore(known, bases, m, last, s) ==
    Given(known, bases, last, s) =
      IF known[bases[last]][1][s] # <<>> THEN known[bases[last]][1][s]
      ELSE Given(known, bases, m, s)

(* One base more.                                                          *)
LEMMA GivenNext ==
    ASSUME NEW known, NEW bases, NEW m \in Nat, NEW s
    PROVE  OneMore(known, bases, m, m + 1, s)
<1> PICK giving : giving = {k \in 1..m : known[bases[k]][1][s] # <<>>}
  OBVIOUS
<1> PICK more : more = {k \in 1..(m + 1) : known[bases[k]][1][s] # <<>>}
  OBVIOUS
<1>1. \A k : k \in 1..(m + 1) <=> k \in 1..m \/ k = m + 1
  OBVIOUS
<1>2. CASE known[bases[m + 1]][1][s] # <<>>
  <2>1. more # {} /\ m + 1 \in more
    BY <1>1, <1>2
  <2>2. Max(more) \in more /\ m + 1 <= Max(more)
    <3>1. m + 1 \in Nat /\ more \in SUBSET (1..(m + 1))
      OBVIOUS
    <3> QED
      BY <2>1, <3>1, LastPlace
  <2>3. Max(more) = m + 1
    BY <2>2
  <2> QED
    BY <1>2, <2>1, <2>3 DEF OneMore, Given
<1>3. CASE known[bases[m + 1]][1][s] = <<>>
  <2>1. more = giving
    BY <1>1, <1>3
  <2> QED
    BY <1>3, <2>1 DEF OneMore, Given
<1> QED
  BY <1>2, <1>3

(* No bases give nothing.                                                  *)
LEMMA GivenNone == ASSUME NEW known, NEW bases, NEW s PROVE Given(known, bases, 0, s) = <<>>
<1>1. 1..0 = {}
  OBVIOUS
<1> QED
  BY <1>1 DEF Given

-----------------------------------------------------------------------------
(* The steps.  What a call has gathered stays so while what it has merged  *)
(* stays in the cache as it is.                                            *)
LEMMA GatheredSame ==
    ASSUME NEW call \in Calls, NEW unmerged \in Nat, NEW known, NEW after,
           Merging(call, unmerged, known), Gathered(call, unmerged, known),
           \A p \in Settled(known) : after[p] = known[p]
    PROVE  Gathered(call, unmerged, after)
<1> PICK m : m = call.next - 1 - unmerged
  OBVIOUS
<1>1. m \in Nat /\ m <= Len(call.file.extends) /\ call.file.extends \in Seq(Profiles)
  BY DEF Merging, Calls, Shapes
<1>2. \A k \in 1..m : after[call.file.extends[k]] = known[call.file.extends[k]]
  <2> SUFFICES ASSUME NEW k \in 1..m PROVE call.file.extends[k] \in Settled(known)
    OBVIOUS
  <2>1. k \in 1..Len(call.file.extends)
    BY <1>1, LenProperties
  <2>2. call.file.extends[k] \in Profiles
    BY <1>1, <2>1, ElementOfSeq
  <2> QED
    BY <2>2 DEF Merging, Settled
<1>3. PICK bases : bases = call.file.extends
  OBVIOUS
<1>4. SameOf(known, after, bases, m)
  BY <1>2, <1>3 DEF SameOf
<1>5. ASSUME NEW s \in Servers PROVE Given(after, bases, m, s) = Given(known, bases, m, s)
  BY <1>1, <1>4, GivenSame
<1> QED
  BY <1>3, <1>5 DEF Gathered

(* The call has turned to a base of which the cache holds these servers.   *)
TurnedTo(call, servers, known) ==
    /\ Merging(call, 1, known) /\ Gathered(call, 1, known)
    /\ servers = known[call.file.extends[call.next - 1]][1]

(* The innermost call has gathered what that base says too.                *)
TakenOver(calls, merged, known) ==
    /\ Gathered(merged[Len(calls)], 0, known)
    /\ \A i \in 1..(Len(calls) - 1) : merged[i] = calls[i]

(* A caller that takes over what the cache holds of the base it turned to  *)
(* has gathered one base more.                                             *)
LEMMA TakeOver ==
    ASSUME NEW calls \in Seq(Calls), calls # <<>>, NEW known, NEW servers \in Maps,
           TurnedTo(calls[Len(calls)], servers, known)
    PROVE  TakenOver(calls, [calls EXCEPT ![Len(calls)].base = Merge(@, servers)], known)
<1> PICK merged : merged = [calls EXCEPT ![Len(calls)].base = Merge(@, servers)]
  OBVIOUS
<1> PICK n \in Nat : n = Len(calls) /\ DOMAIN calls = 1..n /\ n \in 1..n
  BY LenProperties, EmptySeq
<1> PICK call \in Calls : call = calls[n]
  BY ElementOfSeq
<1>1. /\ merged[n] = [call EXCEPT !.base = Merge(@, servers)]
      /\ \A i \in 1..n : i # n => merged[i] = calls[i]
  OBVIOUS
<1>2. /\ merged[n].file = call.file /\ merged[n].next = call.next
      /\ merged[n].base = Merge(call.base, servers)
  BY <1>1 DEF Calls
<1> PICK m, bases : m = call.next - 2 /\ bases = call.file.extends
  OBVIOUS
<1> PICK last : last = call.next - 1
  OBVIOUS
<1>3. m \in Nat /\ last = m + 1 /\ m = call.next - 1 - 1 /\ last = call.next - 1 - 0
  BY DEF TurnedTo, Merging, Calls
<1>4. ASSUME NEW s \in Servers PROVE merged[n].base[s] = Given(known, bases, last, s)
  <2>1. call.base[s] = Given(known, bases, m, s)
    BY <1>3 DEF TurnedTo, Gathered
  <2>2. servers = known[bases[last]][1]
    BY DEF TurnedTo
  <2>3. merged[n].base[s] = IF servers[s] # <<>> THEN servers[s] ELSE call.base[s]
    <3>1. PICK after : after = Merge(call.base, servers)
      OBVIOUS
    <3>2. after[s] = IF servers[s] # <<>> THEN servers[s] ELSE call.base[s]
      BY <3>1 DEF Merge
    <3> QED
      BY <1>2, <3>1, <3>2
  <2>4. OneMore(known, bases, m, last, s)
    BY <1>3, GivenNext
  <2> QED
    BY <2>1, <2>2, <2>3, <2>4 DEF OneMore
<1>5. Gathered(merged[n], 0, known)
  BY <1>2, <1>3, <1>4 DEF Gathered
<1>6. \A i \in 1..(n - 1) : i \in 1..n /\ i # n
  OBVIOUS
<1> QED
  BY <1>1, <1>5, <1>6 DEF TakenOver

(* Nothing is in the cache at first.                                       *)
LEMMA InitInherit == Init => IInherit
<1> SUFFICES ASSUME Init PROVE IInherit
  OBVIOUS
<1>1. stack = <<>> /\ stage = "begin" /\ result = <<>> /\ Settled(cache) = {}
  BY DEF Init, Settled
<1> QED
  BY <1>1, InitIInv DEF IInherit, Inherits, Faithful, Succeeded

(* Nothing is gathered, and nothing answered, when the walk begins.        *)
LEMMA BeginInherit == ASSUME IInherit, IInv', Begin PROVE IInherit'
<1>1. stage = "begin" /\ stage' \in {"done", "call"} /\ ~Succeeded' /\ Start
      /\ UNCHANGED <<stack, cache, seen>>
  BY DEF Begin, Conclude, IInherit, IInv, Walk, Succeeded
<1>2. stack' = <<>> /\ Faithful(seen', cache')
  BY <1>1 DEF Start, IInherit, Inherits
<1> QED
  BY <1>1, <1>2 DEF IInherit, Inherits

(* A cycle is no answer.                                                   *)
LEMMA CycleInherit == ASSUME IInherit, IInv', Cycle PROVE IInherit'
<1>1. stage' = "done" /\ ~Succeeded'
  BY DEF Cycle, Conclude, Succeeded
<1> QED
  BY <1>1 DEF IInherit

(* The invariant is about these variables only.                            *)
LEMMA SameInherit ==
    ASSUME IInherit, IInv', UNCHANGED <<name, stage, stack, cache, seen, result>>
    PROVE  IInherit'
  BY DEF IInherit, Inherits, Concluded, Succeeded, Top

(* The caller takes over what the cache holds.                             *)
LEMMA CachedInherit == ASSUME IInherit, IInv', Cached PROVE IInherit'
<1>0. TypeOK /\ Walk /\ Inherits /\ stage = "call" /\ called \in Profiles /\ cache[called] # <<>>
      /\ UNCHANGED <<disk, request, called, cache, sources, seen>>
  BY DEF IInherit, IInv, TypeOK, Cached
<1>1. stack # <<>>
  BY <1>0 DEF Walk, Start
<1> PICK servers \in Maps : servers = cache[called][1]
  <2>1. cache[called] \in Seq(Maps) /\ Len(cache[called]) \in Nat \ {0}
    BY <1>0, EmptySeq DEF TypeOK
  <2> QED
    BY <2>1, ElementOfSeq
<1>2. stage' = "loop" /\ result' = result
      /\ stack' = [stack EXCEPT ![Len(stack)].base = Merge(@, servers)]
  BY <1>1 DEF Cached, Return
<1>3. Merging(Top, 1, cache) /\ called = Top.file.extends[Top.next - 1] /\ Gathered(Top, 1, cache)
      /\ ~Succeeded
  BY <1>0, <1>1 DEF Walk, Inherits, Succeeded
<1>4. /\ Gathered(stack'[Len(stack)], 0, cache)
      /\ \A i \in 1..(Len(stack) - 1) : stack'[i] = stack[i]
  <2>1. stack \in Seq(Calls) /\ servers = cache[stack[Len(stack)].file.extends[stack[Len(stack)].next - 1]][1]
    BY <1>0, <1>3 DEF TypeOK, Top
  <2>2. Merging(stack[Len(stack)], 1, cache) /\ Gathered(stack[Len(stack)], 1, cache)
    BY <1>3 DEF Top
  <2>3. TurnedTo(stack[Len(stack)], servers, cache)
    BY <2>1, <2>2 DEF TurnedTo
  <2>4. TakenOver(stack, stack', cache)
    BY <1>1, <1>2, <2>1, <2>3, TakeOver
  <2> QED
    BY <2>4 DEF TakenOver
<1>5. Len(stack') = Len(stack)
  BY <1>0, <1>1, <1>2, MergedAlike DEF TypeOK, Alike
<1>6. Inherits'
  BY <1>0, <1>2, <1>4, <1>5 DEF Inherits, Top
<1> QED
  BY <1>2, <1>3, <1>6 DEF IInherit, Succeeded

(* A base turned to is not merged yet.                                     *)
LEMMA NextBaseInherit == ASSUME IInherit, IInv', NextBase PROVE IInherit'
<1>0. TypeOK /\ Walk /\ Inherits /\ stage = "loop" /\ stage' = "call" /\ stack # <<>>
      /\ UNCHANGED <<disk, request, cache, sources, seen, result>>
  BY DEF IInherit, IInv, NextBase, Walk
<1> PICK n \in Nat : n = Len(stack) /\ DOMAIN stack = 1..n /\ n \in 1..n /\ stack[n] \in Calls
  BY <1>0, LenProperties, EmptySeq, ElementOfSeq DEF TypeOK
<1> PICK call \in Calls : call = stack[n]
  OBVIOUS
<1>1. stack' = [stack EXCEPT ![n].next = @ + 1] /\ Gathered(call, 0, cache)
  BY <1>0 DEF NextBase, Top, Inherits
<1>2. Len(stack') = n
  <2>1. stack' \in Seq(Calls) /\ DOMAIN stack' = 1..n
    BY <1>1 DEF IInv, TypeOK
  <2> QED
    BY <2>1, LenProperties
<1>3. /\ stack'[n].file = call.file /\ stack'[n].base = call.base /\ stack'[n].next = call.next + 1
      /\ \A i \in 1..n : i # n => stack'[i] = stack[i]
  BY <1>1 DEF Calls
<1>4. \A next : next = call.next + 1 => next - 1 - 1 = call.next - 1 - 0
  BY DEF Calls
<1>5. Gathered(stack'[n], 1, cache)
  <2>1. PICK last : last = stack'[n]
    OBVIOUS
  <2>2. last.file = call.file /\ last.base = call.base /\ last.next - 1 - 1 = call.next - 1 - 0
    BY <1>3, <1>4, <2>1
  <2>3. Gathered(last, 1, cache)
    BY <1>1, <2>2 DEF Gathered
  <2> QED
    BY <2>1, <2>3
<1>6. \A i \in 1..(n - 1) : i \in 1..n /\ i # n
  OBVIOUS
<1>7. Inherits'
  BY <1>0, <1>2, <1>3, <1>5, <1>6 DEF Inherits, Top
<1>8. ~Succeeded'
  BY <1>0 DEF Walk, Succeeded
<1> QED
  BY <1>0, <1>7, <1>8 DEF IInherit

(* A call begins with nothing.                                             *)
LEMMA ReadInherit == ASSUME IInherit, IInv', Read PROVE IInherit'
<1>0. TypeOK /\ Walk /\ Inherits /\ stage = "call" /\ called \in Profiles
      /\ UNCHANGED <<disk, request, called, cache>>
  BY DEF IInherit, IInv, TypeOK, Read
<1>1. called \notin Settled(cache)
  BY DEF Read, Settled
<1> PICK file \in Shapes : file = files[called]
  BY <1>0 DEF TypeOK
<1>2. seen' = [seen EXCEPT ![called] = <<file>>]
  BY DEF Read
<1>3. Faithful(seen', cache')
  <2>1. \A p \in Settled(cache) : seen'[p] = seen[p]
    BY <1>0, <1>1, <1>2 DEF TypeOK, Settled
  <2> QED
    BY <1>0, <2>1 DEF Faithful, Inherits
<1>4. CASE ~file.ok /\ Conclude(<<"error">>) /\ UNCHANGED <<stack, sources>>
  BY <1>4 DEF IInherit, Conclude, Succeeded
<1> DEFINE call == [name |-> called, file |-> file, next |-> 1, base |-> Nothing]
<1>5. CASE stack' = Append(stack, call) /\ stage' = "loop" /\ UNCHANGED result
  <2>1. call \in Calls /\ call.file = file /\ call.next = 1 /\ call.base = Nothing
    BY <1>0 DEF Calls, Maps, Nothing
  <2> PICK n \in Nat : n = Len(stack)
    BY <1>0, LenProperties DEF TypeOK
  <2> HIDE DEF call
  <2>2. Len(stack') = n + 1 /\ stack'[n + 1] = call /\ \A i \in 1..n : stack'[i] = stack[i]
    <3>1. stack \in Seq(Calls) /\ stack' = Append(stack, call)
      BY <1>0, <1>5 DEF TypeOK
    <3> QED
      BY <2>1, <3>1, AppendProperties
  <2>3. Gathered(call, 0, cache')
    <3>1. call.next - 1 - 0 = 0 /\ \A s \in Servers : call.base[s] = <<>>
      BY <2>1 DEF Nothing
    <3> QED
      BY <3>1, GivenNone DEF Gathered
  <2>4. ASSUME NEW i \in 1..n PROVE Gathered(stack'[i], 1, cache')
    <3>1. CASE i = n
      <4>1. stack # <<>>
        BY <3>1, EmptySeq
      <4> QED
        BY <1>0, <2>2, <3>1, <4>1 DEF Inherits, Top
    <3>2. CASE i # n
      <4>1. i \in 1..(n - 1)
        BY <3>2
      <4> QED
        BY <1>0, <2>2, <4>1 DEF Inherits
    <3> QED
      BY <3>1, <3>2
  <2>5. \A i \in 1..(Len(stack') - 1) : i \in 1..n
    BY <2>2
  <2>6. Inherits'
    BY <1>3, <1>5, <2>2, <2>3, <2>4, <2>5 DEF Inherits, Top
  <2>7. ~Succeeded'
    BY <1>0, <1>5 DEF Walk, Succeeded
  <2> QED
    BY <1>5, <2>6, <2>7 DEF IInherit
<1> QED
  BY <1>4, <1>5 DEF Read

(* A call whose loop is over has merged all its bases.                     *)
LEMMA GatheredBases ==
    ASSUME NEW top \in Calls, NEW read, NEW known, read[top.name] = <<top.file>>,
           Merging(top, 0, known), top.next - 1 - 0 = Len(top.file.extends)
    PROVE  Bases(read, top.name) \subseteq Settled(known)
<1> SUFFICES ASSUME NEW b \in Bases(read, top.name) PROVE b \in Settled(known)
  OBVIOUS
<1>1. PICK k \in DOMAIN top.file.extends : b = top.file.extends[k]
  BY BasesRead
<1>2. top.file.extends \in Seq(Profiles)
  BY DEF Calls, Shapes
<1>3. Len(top.file.extends) \in Nat /\ k \in 1..Len(top.file.extends)
  BY <1>2, LenProperties
<1>4. known[b] # <<>>
  BY <1>1, <1>3 DEF Merging
<1> QED
  BY <1>1, <1>2, <1>3, <1>4, ElementOfSeq DEF Settled

(* The innermost call has gathered what all its bases say; what it makes   *)
(* of that goes into the cache, and to the caller or into the answer.      *)
LEMMA FinishInherit == ASSUME IInherit, IInv', Finish PROVE IInherit'
<1>0. TypeOK /\ Walk /\ Inherits /\ stage = "loop" /\ stack # <<>>
      /\ UNCHANGED <<disk, request, called, sources, seen>>
  BY DEF IInherit, IInv, Finish, Walk
<1> PICK n \in Nat : n = Len(stack) /\ DOMAIN stack = 1..n /\ n \in 1..n
  BY <1>0, LenProperties, EmptySeq DEF TypeOK
<1> PICK top \in Calls : top = stack[n]
  BY <1>0, ElementOfSeq DEF TypeOK
<1>1. PICK kept, servers :
        /\ kept = [s \in Servers |-> IF s \in top.file.removed THEN <<>> ELSE top.base[s]]
        /\ servers = Merge(kept, Own(top.name, top.file))
        /\ cache' = [cache EXCEPT ![top.name] = <<servers>>]
        /\ Return(servers, Front(stack))
  BY DEF Finish, Top
<1>2. servers \in Maps
  <2>1. kept \in Maps
    BY <1>1 DEF Maps, Calls
  <2>2. Own(top.name, top.file) \in Maps
    BY DEF Own, Maps, Calls
  <2> QED
    BY <1>1, <2>1, <2>2, MergeType
<1>3. /\ top.next > Len(top.file.extends) /\ Merging(top, 0, cache) /\ Gathered(top, 0, cache)
      /\ seen[top.name] = <<top.file>> /\ top.name \in Profiles /\ top.name \notin Settled(cache)
  <2>1. top.name \in Names(stack)
    BY DEF Names
  <2> QED
    BY <1>0, <2>1 DEF Finish, Top, Walk, Inherits, Chained, Calls
<1>4. top.next \in Nat /\ top.file.extends \in Seq(Profiles) /\ Len(top.file.extends) \in Nat
      /\ top.next - 1 - 0 = Len(top.file.extends)
  <2>1. top.next \in Nat /\ top.file.extends \in Seq(Profiles)
    BY DEF Calls, Shapes
  <2>2. Len(top.file.extends) \in Nat
    BY <2>1, LenProperties
  <2>3. PICK next, len : next = top.next /\ len = Len(top.file.extends)
    OBVIOUS
  <2>4. next \in 1..(len + 1) /\ next > len
    BY <1>3, <2>3 DEF Merging
  <2>5. next - 1 - 0 = len
    BY <2>1, <2>2, <2>3, <2>4
  <2> QED
    BY <2>1, <2>2, <2>3, <2>5
<1>5. /\ cache'[top.name] = <<servers>> /\ \A p \in Settled(cache) : cache'[p] = cache[p]
      /\ Settled(cache') = Settled(cache) \union {top.name}
  BY <1>0, <1>1, <1>3 DEF TypeOK, Settled
<1>6. ASSUME NEW s \in Servers
      PROVE  servers[s] = Made(top.name, top.file,
                               Given(cache', top.file.extends, Len(top.file.extends), s), s)
  <2>1. Gathered(top, 0, cache')
    BY <1>3, <1>5, GatheredSame
  <2>2. top.base[s] = Given(cache', top.file.extends, Len(top.file.extends), s)
    BY <1>4, <2>1 DEF Gathered
  <2>3. servers[s] = Made(top.name, top.file, top.base[s], s)
    BY <1>1 DEF Merge, Own, Made
  <2> QED
    BY <2>2, <2>3
<1>7. Faithful(seen, cache')
  <2> SUFFICES ASSUME NEW p \in Settled(cache')
               PROVE  /\ seen[p] # <<>>
                      /\ \A s \in Servers :
                           cache'[p][1][s] =
                             Made(p, seen[p][1],
                                  Given(cache', seen[p][1].extends, Len(seen[p][1].extends), s), s)
    BY DEF Faithful
  <2>1. CASE p = top.name
    <3>1. cache'[p][1] = servers /\ seen[p][1] = top.file /\ seen[p] # <<>>
      BY <1>3, <1>5, <2>1
    <3> QED
      BY <1>6, <2>1, <3>1
  <2>2. CASE p # top.name
    <3>1. p \in Settled(cache) /\ p \in Profiles /\ cache'[p] = cache[p]
      BY <1>5, <2>2 DEF Settled
    <3>2. /\ seen[p] # <<>>
          /\ \A s \in Servers :
               cache[p][1][s] = Made(p, seen[p][1],
                                     Given(cache, seen[p][1].extends, Len(seen[p][1].extends), s), s)
      BY <1>0, <3>1 DEF Inherits, Faithful
    <3>3. PICK bases, m : bases = seen[p][1].extends /\ m = Len(seen[p][1].extends)
      OBVIOUS
    <3>4. m \in Nat /\ DOMAIN bases = 1..m
      <4>1. seen[p] \in Seq(Shapes)
        BY <1>0, <3>1 DEF TypeOK
      <4>2. Len(seen[p]) \in Nat \ {0}
        BY <3>2, <4>1, EmptySeq
      <4>3. seen[p][1] \in Shapes
        BY <4>1, <4>2, ElementOfSeq
      <4> QED
        BY <3>3, <4>3, LenProperties DEF Shapes
    <3>5. SameOf(cache, cache', bases, m)
      <4>1. Bases(seen, p) \subseteq Settled(cache)
        BY <1>0, <3>1 DEF Walk, Founded
      <4>2. \A k \in 1..m : bases[k] \in Bases(seen, p)
        BY <3>2, <3>3, <3>4 DEF Bases
      <4> QED
        BY <1>5, <4>1, <4>2 DEF SameOf
    <3>6. ASSUME NEW s \in Servers PROVE Given(cache', bases, m, s) = Given(cache, bases, m, s)
      BY <3>4, <3>5, GivenSame
    <3> QED
      BY <3>1, <3>2, <3>3, <3>6
  <2> QED
    BY <2>1, <2>2
<1>8. ASSUME NEW i \in 1..(n - 1) PROVE Gathered(stack[i], 1, cache')
  <2>1. stack[i] \in Calls
    BY <1>0, ElementOfSeq DEF TypeOK
  <2>2. Merging(stack[i], 1, cache) /\ Gathered(stack[i], 1, cache)
    BY <1>0 DEF Walk, Chained, Inherits
  <2> QED
    BY <1>5, <2>1, <2>2, GatheredSame
<1>9. /\ Front(stack) \in Seq(Calls) /\ Len(Front(stack)) = n - 1
      /\ \A i \in 1..(n - 1) : Front(stack)[i] = stack[i]
  BY <1>0, <1>5, FrontChained DEF Walk, TypeOK
<1>10. CASE Front(stack) = <<>> /\ Conclude(<<"ok", servers>>)
  <2>1. n = 1 /\ top.name = name
    <3>1. Len(Front(stack)) = 0
      BY <1>10, EmptySeq
    <3>2. \A m \in Nat : m - 1 = 0 => m = 1
      BY SMT
    <3>3. n = 1
      BY <1>9, <3>1, <3>2, Zenon
    <3> QED
      BY <1>0, <3>3 DEF Walk
  <2>2. Founded(seen, cache')
    <3>1. Bases(seen, top.name) \subseteq Settled(cache)
      BY <1>3, <1>4, GatheredBases
    <3> QED
      BY <1>0, <1>3, <1>5, <3>1, FoundedGrows DEF Walk
  <2>3. Concluded'
    BY <1>0, <1>5, <1>7, <1>10, <2>1, <2>2 DEF Concluded, Conclude, request
  <2> QED
    BY <1>10, <2>3 DEF IInherit, Conclude
<1>11. CASE /\ Front(stack) # <<>> /\ stage' = "loop" /\ UNCHANGED result
            /\ stack' = [Front(stack) EXCEPT ![Len(Front(stack))].base = Merge(@, servers)]
  <2>1. PICK calls \in Seq(Calls) : calls = Front(stack)
    BY <1>9
  <2>2. n - 1 \in 1..(n - 1) /\ n - 1 \in 1..n /\ Len(calls) = n - 1 /\ calls # <<>>
    BY <1>9, <1>11, <2>1, EmptySeq
  <2>3. PICK caller \in Calls : caller = stack[n - 1] /\ caller = calls[n - 1]
    BY <1>0, <1>9, <2>1, <2>2, ElementOfSeq DEF TypeOK
  <2>4. Merging(caller, 1, cache) /\ top.name = caller.file.extends[caller.next - 1]
    <3>1. PICK i \in 1..(n - 1) : i = n - 1
      BY <2>2
    <3>2. i + 1 = n
      BY <3>1
    <3>3. Merging(stack[i], 1, cache) /\ stack[i + 1].name = stack[i].file.extends[stack[i].next - 1]
      BY <1>0 DEF Walk, Chained
    <3> QED
      BY <2>3, <3>1, <3>2, <3>3
  <2>5. Merging(caller, 1, cache')
    BY <1>5, <2>4, MoreMerging
  <2>6. Gathered(caller, 1, cache')
    BY <1>8, <2>2, <2>3
  <2>7. servers = cache'[caller.file.extends[caller.next - 1]][1]
    BY <1>5, <2>4
  <2>8. PICK merged : merged = [calls EXCEPT ![Len(calls)].base = Merge(@, servers)]
    OBVIOUS
  <2>9. TurnedTo(calls[Len(calls)], servers, cache')
    BY <2>2, <2>3, <2>5, <2>6, <2>7 DEF TurnedTo
  <2>10. /\ Gathered(merged[Len(calls)], 0, cache')
         /\ \A i \in 1..(Len(calls) - 1) : merged[i] = calls[i]
    <3>1. TakenOver(calls, [calls EXCEPT ![Len(calls)].base = Merge(@, servers)], cache')
      BY <1>2, <2>2, <2>9, TakeOver
    <3> QED
      BY <2>8, <3>1 DEF TakenOver
  <2>11. stack' = merged /\ Len(stack') = n - 1
    <3>1. Len(merged) = Len(calls)
      BY <1>2, <2>2, <2>8, MergedAlike DEF Alike
    <3> QED
      BY <1>11, <2>1, <2>2, <2>8, <3>1
  <2>12. \A i \in 1..(n - 2) : Gathered(stack'[i], 1, cache')
    <3>1. \A i \in 1..(n - 2) : i \in 1..(n - 1) /\ i \in 1..(Len(calls) - 1)
      BY <2>2
    <3> QED
      BY <1>8, <1>9, <2>1, <2>10, <2>11, <3>1
  <2>13. Inherits'
    <3>1. Len(stack') - 1 = n - 2
      BY <2>11
    <3> QED
      BY <1>0, <1>7, <1>11, <2>2, <2>8, <2>10, <2>11, <2>12, <3>1 DEF Inherits, Top
  <2>14. ~Succeeded'
    BY <1>0, <1>11 DEF Walk, Succeeded
  <2> QED
    BY <1>11, <2>13, <2>14 DEF IInherit
<1> QED
  BY <1>1, <1>10, <1>11 DEF Return

(* What others write is not what was read.                                 *)
LEMMA EditInherit == ASSUME IInherit, IInv', Edit PROVE IInherit'
  BY SameInherit DEF Edit, request

(* No step breaks the inheritance of what is in the cache.                 *)
THEOREM InheritanceIsInductive == Spec => []IInherit
<1>1. IInherit => IInv
  BY DEF IInherit
<1>2. IInherit /\ UNCHANGED vars => UNCHANGED <<name, stage, stack, cache, seen, result>>
  BY DEF vars, request
<1>3. IInherit /\ IInv' /\ [Next]_vars => IInherit'
  BY <1>2, EditInherit, BeginInherit, CycleInherit, CachedInherit, ReadInherit, NextBaseInherit,
     FinishInherit, SameInherit DEF Next, Step
<1> QED
  BY InitInherit, <1>3, WalkIsInductive, PTL DEF Spec

-----------------------------------------------------------------------------
(* What Origins is from the empty inheritance on, along the given number   *)
(* of steps.                                                               *)
Stepwise(g, m) ==
    g = [n \in 0..m |-> IF n = 0 THEN [p \in Profiles |-> Nothing] ELSE Inherited(g[n - 1])]

(* There is such a function for every number of steps.                     *)
LEMMA StepwiseExists == ASSUME NEW m \in Nat PROVE \E g : Stepwise(g, m)
<1> DEFINE None == [p \in Profiles |-> Nothing]
           T == {k \in Nat : ~ \E g : Stepwise(g, k)}
<1> SUFFICES ASSUME T # {} PROVE FALSE
  OBVIOUS
<1>1. PICK t \in T : \A y \in T : t <= y
  BY LeastNumber
<1>2. t \in Nat /\ ~ \E g : Stepwise(g, t)
  OBVIOUS
<1>3. t # 0
  <2>1. PICK g : g = [n \in 0..0 |-> None]
    OBVIOUS
  <2>2. Stepwise(g, 0)
    BY <2>1 DEF Stepwise
  <2> QED
    BY <1>2, <2>2
<1>4. t - 1 \in Nat /\ t - 1 \notin T
  BY <1>1, <1>2, <1>3
<1>5. PICK g : Stepwise(g, t - 1)
  BY <1>4
<1>6. PICK h : h = [n \in 0..t |-> IF n = 0 THEN None ELSE Inherited(g[n - 1])]
  OBVIOUS
<1>7. \A n \in 0..(t - 1) : g[n] = h[n]
  BY <1>2, <1>5, <1>6 DEF Stepwise
<1>8. \A n \in 0..t : n # 0 => n - 1 \in 0..(t - 1)
  BY <1>2
<1>9. Stepwise(h, t)
  BY <1>6, <1>7, <1>8 DEF Stepwise
<1> QED
  BY <1>2, <1>9

(* Origins is what its definition says: a function there is satisfies it.  *)
LEMMA OriginsStepwise ==
    /\ Cardinality(Profiles) \in Nat
    /\ Stepwise(Origins, Cardinality(Profiles))
<1>1. Cardinality(Profiles) \in Nat
  BY ResolveAssumption, FS_CardinalityType
<1>2. \E g : Stepwise(g, Cardinality(Profiles))
  BY <1>1, StepwiseExists
<1> QED
  BY <1>1, <1>2 DEF Stepwise, Origins

-----------------------------------------------------------------------------
(* The origins of these profiles are what the cache holds of them.         *)
Agree(origins, P) == \A b \in P : origins[b] = cache[b][1]

(* Inheritance from origins that agree with the cache on the bases of a    *)
(* profile agrees with the cache on the profile.                           *)
LEMMA InheritedIsMade ==
    ASSUME TypeOK, Faithful(seen, cache), NEW p \in Settled(cache),
           NEW origins, Agree(origins, Bases(seen, p))
    PROVE  Inherited(origins)[p] = cache[p][1]
<1>1. p \in Profiles /\ seen[p] # <<>> /\ cache[p] # <<>>
  BY DEF Faithful, Settled
<1>2. PICK file \in Shapes : file = seen[p][1] /\ File(p) = file
  <2>1. seen[p] \in Seq(Shapes) /\ Len(seen[p]) \in Nat \ {0}
    BY <1>1, EmptySeq DEF TypeOK
  <2> QED
    BY <1>1, <2>1, ElementOfSeq DEF File
<1>3. PICK servers \in Maps : servers = cache[p][1]
  <2>1. cache[p] \in Seq(Maps) /\ Len(cache[p]) \in Nat \ {0}
    BY <1>1, EmptySeq DEF TypeOK
  <2> QED
    BY <2>1, ElementOfSeq
<1>4. PICK bases, len : bases = file.extends /\ len = Len(bases) /\ DOMAIN bases = 1..len
  BY LenProperties DEF Shapes
<1>5. \A k \in 1..len : origins[bases[k]] = cache[bases[k]][1]
  <2>1. \A k \in 1..len : bases[k] \in Bases(seen, p)
    BY <1>1, <1>2, <1>4 DEF Bases
  <2> QED
    BY <2>1 DEF Agree
<1>6. ASSUME NEW s \in Servers PROVE Inherited(origins)[p][s] = servers[s]
  <2>1. servers[s] = Made(p, file, Given(cache, bases, len, s), s)
    BY <1>2, <1>3, <1>4 DEF Faithful
  <2>2. PICK giving : giving = {k \in 1..len : cache[bases[k]][1][s] # <<>>}
    OBVIOUS
  <2>3. giving = {k \in DOMAIN bases : origins[bases[k]][s] # <<>>}
    BY <1>4, <1>5, <2>2
  <2>4. giving # {} => Max(giving) \in 1..len
    <3>1. len \in Nat
      BY <1>4, LenProperties DEF Shapes
    <3> QED
      BY <2>2, <3>1, LastPlace
  <2>5. Given(cache, bases, len, s) = IF giving = {} THEN <<>> ELSE origins[bases[Max(giving)]][s]
    BY <1>5, <2>2, <2>4 DEF Given
  <2>6. Inherited(origins)[p][s] =
          CASE s \in file.extra -> <<p, "extra">>
            [] s \in file.main \ file.extra -> <<p, "main">>
            [] s \notin file.main \union file.extra ->
                 IF s \in file.removed \/ giving = {} THEN <<>>
                 ELSE origins[bases[Max(giving)]][s]
    BY <1>1, <1>2, <1>4, <2>3 DEF Inherited
  <2> QED
    BY <2>1, <2>5, <2>6 DEF Made
<1>7. Inherited(origins)[p] = [s \in Servers |-> Inherited(origins)[p][s]]
  BY <1>1 DEF Inherited
<1>8. servers = [s \in Servers |-> servers[s]]
  BY DEF Maps
<1> QED
  BY <1>3, <1>6, <1>7, <1>8

(* The profiles on which all origins from n steps on agree with the cache. *)
Reached(n) ==
    {p \in Settled(cache) : \A m \in n..Cardinality(Profiles) : Origins[m][p] = cache[p][1]}

(* With each step they are one more at least, or all.                      *)
LEMMA OneMoreReached ==
    ASSUME TypeOK, Faithful(seen, cache), Founded(seen, cache),
           NEW n \in 1..Cardinality(Profiles), Reached(n - 1) # Settled(cache)
    PROVE  /\ Reached(n - 1) \subseteq Reached(n)
           /\ Reached(n) \ Reached(n - 1) # {}
<1> PICK N : N = Cardinality(Profiles)
  OBVIOUS
<1>1. N \in Nat /\ n \in Nat /\ \A m \in n..N : m \in (n - 1)..N /\ m - 1 \in (n - 1)..N /\ m \in 1..N
  BY OriginsStepwise
<1>2. Reached(n - 1) \subseteq Reached(n)
  BY <1>1 DEF Reached
<1>3. Reached(n - 1) \subseteq Settled(cache)
  BY DEF Reached
<1>4. PICK p \in Settled(cache) \ Reached(n - 1) :
        Bases(seen, p) \intersect (Settled(cache) \ Reached(n - 1)) = {}
  <2>1. PICK P : P = Settled(cache) \ Reached(n - 1)
    OBVIOUS
  <2>2. P \in SUBSET Settled(cache) /\ P # {}
    BY <1>3, <2>1
  <2>3. \E p \in P : Bases(seen, p) \intersect P = {}
    BY <2>2 DEF Founded
  <2> QED
    BY <2>1, <2>3
<1>5. Bases(seen, p) \subseteq Reached(n - 1)
  BY <1>4 DEF Founded
<1>6. ASSUME NEW m \in n..N PROVE Origins[m][p] = cache[p][1]
  <2>1. PICK origins : origins = Origins[m - 1]
    OBVIOUS
  <2>2. Agree(origins, Bases(seen, p))
    BY <1>1, <1>5, <2>1 DEF Agree, Reached
  <2>3. Inherited(origins)[p] = cache[p][1]
    BY <1>4, <2>2, InheritedIsMade
  <2>4. Origins[m] = Inherited(Origins[m - 1])
    BY <1>1, OriginsStepwise DEF Stepwise
  <2> QED
    BY <2>1, <2>3, <2>4
<1>7. p \in Reached(n)
  BY <1>4, <1>6 DEF Reached
<1> QED
  BY <1>2, <1>4, <1>7

(* So along chains of as many profiles as there are, all are reached.      *)
LEMMA AllReached ==
    ASSUME TypeOK, Faithful(seen, cache), Founded(seen, cache)
    PROVE  Reached(Cardinality(Profiles)) = Settled(cache)
<1> DEFINE N == Cardinality(Profiles)
           Few(n) == Reached(n) # Settled(cache) /\ ~(Cardinality(Reached(n)) >= n)
           T == {n \in 0..N : Few(n)}
<1>1. N \in Nat
  BY OriginsStepwise
<1>2. \A n : IsFiniteSet(Reached(n)) /\ Reached(n) \subseteq Profiles /\ Cardinality(Reached(n)) \in Nat
  <2>1. \A n : Reached(n) \subseteq Profiles
    BY DEF Reached, Settled
  <2> QED
    BY <2>1, ResolveAssumption, FS_Subset, FS_CardinalityType
<1>3. T = {}
  <2> SUFFICES ASSUME T # {} PROVE FALSE
    OBVIOUS
  <2>1. T \in SUBSET Nat
    BY <1>1
  <2>2. PICK n \in T : \A y \in T : n <= y
    BY <2>1, LeastNumber
  <2>3. n \in Nat /\ n \in 0..N /\ Few(n)
    BY <2>1
  <2>4. n # 0
    BY <1>2, <2>3
  <2>5. n - 1 \in 0..N /\ n \in 1..N /\ n - 1 \in Nat /\ n - 1 \notin T
    BY <1>1, <2>2, <2>3, <2>4
  <2>6. ~Few(n - 1)
    BY <2>5
  <2>7. CASE Reached(n - 1) = Settled(cache)
    <3>1. \A m \in n..N : m \in (n - 1)..N
      BY <1>1, <2>3
    <3>2. Reached(n) = Settled(cache)
      BY <2>7, <3>1 DEF Reached
    <3> QED
      BY <2>3, <3>2
  <2>8. CASE Reached(n - 1) # Settled(cache) /\ Cardinality(Reached(n - 1)) >= n - 1
    <3>1. /\ Reached(n - 1) \subseteq Reached(n)
          /\ Reached(n) \ Reached(n - 1) # {}
      BY <2>5, <2>8, OneMoreReached
    <3>2. PICK few, more : few = Reached(n - 1) /\ more = Reached(n)
      OBVIOUS
    <3>3. IsFiniteSet(more) /\ few \subseteq more /\ few # more /\ Cardinality(few) >= n - 1
          /\ Cardinality(more) \in Nat /\ Cardinality(few) \in Nat
      BY <1>2, <2>8, <3>1, <3>2
    <3>4. Cardinality(few) <= Cardinality(more) /\ Cardinality(few) # Cardinality(more)
      BY <3>3, FS_Subset
    <3>5. Cardinality(more) >= n
      BY <2>3, <3>3, <3>4
    <3> QED
      BY <2>3, <3>2, <3>5
  <2> QED
    BY <2>6, <2>7, <2>8
<1>4. ~Few(N)
  BY <1>1, <1>3
<1>5. CASE Cardinality(Reached(N)) >= N
  <2>1. PICK all : all = Reached(N)
    OBVIOUS
  <2>2. all \subseteq Profiles /\ Cardinality(all) \in Nat
    BY <1>2, <2>1
  <2>3. Cardinality(all) <= N
    BY <2>2, ResolveAssumption, FS_Subset
  <2>4. Cardinality(all) = N
    BY <1>1, <1>5, <2>1, <2>2, <2>3
  <2>5. all = Profiles
    BY <2>2, <2>4, ResolveAssumption, FS_Subset
  <2> QED
    BY <2>1, <2>5 DEF Reached, Settled
<1> QED
  BY <1>4, <1>5

(* Whatever the profiles extend, and however they are rewritten meanwhile, *)
(* the answer is the inheritance of the files as they were read            *)
(* (README.md:702).                                                        *)
THEOREM ProfilesResolvedAsRead == Spec => []ResolvedAsRead
<1>1. IInherit => ResolvedAsRead
  <2> SUFFICES ASSUME IInherit, Succeeded PROVE result[2] = Origins[Cardinality(Profiles)][name]
    BY DEF ResolvedAsRead
  <2>1. TypeOK /\ Concluded
    BY DEF IInherit, IInv
  <2>2. name \in Reached(Cardinality(Profiles))
    BY <2>1, AllReached DEF Concluded
  <2>3. Cardinality(Profiles) \in Cardinality(Profiles)..Cardinality(Profiles)
    BY OriginsStepwise
  <2>4. Origins[Cardinality(Profiles)][name] = cache[name][1]
    BY <2>2, <2>3 DEF Reached
  <2> QED
    BY <2>1, <2>4 DEF Concluded
<1> QED
  BY <1>1, InheritanceIsInductive, PTL

-----------------------------------------------------------------------------
(* The ranks of T that have the least number at some place.                *)
Lowest(T, i, m, U) ==
    /\ U \in SUBSET T /\ U # {}
    /\ \A r \in T : m <= r[i] /\ (r \in U <=> r[i] = m)

(* There are some.                                                         *)
LEMMA LowestThere ==
    ASSUME NEW T \in SUBSET Ranks, T # {}, NEW i \in 1..5
    PROVE  \E m, U : Lowest(T, i, m, U)
<1>1. \A r \in T : r[i] \in Nat
  BY DEF Ranks
<1> DEFINE N == {r[i] : r \in T}
<1>2. N \in SUBSET Nat /\ N # {}
  BY <1>1
<1>3. PICK m \in N : \A n \in N : m <= n
  BY <1>2, LeastNumber
<1>4. PICK U : U = {r \in T : r[i] = m}
  OBVIOUS
<1>5. Lowest(T, i, m, U)
  BY <1>2, <1>3, <1>4 DEF Lowest
<1> QED
  BY <1>5

(* No rank can be lowered for ever: among any ranks there is one to which  *)
(* none of them is lower.                                                  *)
LEMMA RanksAreFounded ==
    ASSUME NEW T \in SUBSET Ranks, T # {}
    PROVE  \E r \in T : \A s \in T : ~Lower(s, r)
<1>1. PICK m1, T1 : Lowest(T, 1, m1, T1)
  BY LowestThere
<1>2. T1 \in SUBSET Ranks /\ T1 # {}
  BY <1>1 DEF Lowest
<1>3. PICK m2, T2 : Lowest(T1, 2, m2, T2)
  BY <1>2, LowestThere
<1>4. T2 \in SUBSET Ranks /\ T2 # {}
  BY <1>2, <1>3 DEF Lowest
<1>5. PICK m3, T3 : Lowest(T2, 3, m3, T3)
  BY <1>4, LowestThere
<1>6. T3 \in SUBSET Ranks /\ T3 # {}
  BY <1>4, <1>5 DEF Lowest
<1>7. PICK m4, T4 : Lowest(T3, 4, m4, T4)
  BY <1>6, LowestThere
<1>8. T4 \in SUBSET Ranks /\ T4 # {}
  BY <1>6, <1>7 DEF Lowest
<1>9. PICK m5, T5 : Lowest(T4, 5, m5, T5)
  BY <1>8, LowestThere
<1>10. T5 \in SUBSET Ranks /\ T5 # {}
  BY <1>8, <1>9 DEF Lowest
<1>11. PICK r : r \in T5
  BY <1>10
<1>12. /\ r \in T4 /\ r \in T3 /\ r \in T2 /\ r \in T1 /\ r \in T
       /\ r[1] = m1 /\ r[2] = m2 /\ r[3] = m3 /\ r[4] = m4 /\ r[5] = m5
  BY <1>1, <1>3, <1>5, <1>7, <1>9, <1>11 DEF Lowest
<1>13. ASSUME NEW s \in T, NEW i \in 1..5, s[i] < r[i], \A j \in 1..(i - 1) : s[j] = r[j]
       PROVE  FALSE
  <2>1. r \in Ranks /\ s \in Ranks
    BY <1>12
  <2>2. \A k \in 1..5 : r[k] \in Nat /\ s[k] \in Nat
    BY <2>1 DEF Ranks
  <2>3. ~(r[i] <= s[i])
    BY <1>13, <2>2
  <2>4. CASE i = 1
    BY <1>1, <1>12, <2>3, <2>4 DEF Lowest
  <2>5. CASE i = 2
    <3>1. s[1] = r[1]
      BY <1>13, <2>5
    <3>2. s \in T1
      BY <1>1, <1>12, <3>1 DEF Lowest
    <3> QED
      BY <1>3, <1>12, <2>3, <2>5, <3>2 DEF Lowest
  <2>6. CASE i = 3
    <3>1. s[1] = r[1] /\ s[2] = r[2]
      BY <1>13, <2>6
    <3>2. s \in T2
      BY <1>1, <1>3, <1>12, <3>1 DEF Lowest
    <3> QED
      BY <1>5, <1>12, <2>3, <2>6, <3>2 DEF Lowest
  <2>7. CASE i = 4
    <3>1. s[1] = r[1] /\ s[2] = r[2] /\ s[3] = r[3]
      BY <1>13, <2>7
    <3>2. s \in T3
      BY <1>1, <1>3, <1>5, <1>12, <3>1 DEF Lowest
    <3> QED
      BY <1>7, <1>12, <2>3, <2>7, <3>2 DEF Lowest
  <2>8. CASE i = 5
    <3>1. s[1] = r[1] /\ s[2] = r[2] /\ s[3] = r[3] /\ s[4] = r[4]
      BY <1>13, <2>8
    <3>2. s \in T4
      BY <1>1, <1>3, <1>5, <1>7, <1>12, <3>1 DEF Lowest
    <3> QED
      BY <1>9, <1>12, <2>3, <2>8, <3>2 DEF Lowest
  <2> QED
    BY <2>4, <2>5, <2>6, <2>7, <2>8
<1> QED
  BY <1>12, <1>13 DEF Lower

-----------------------------------------------------------------------------
(* How far a walk is from its end: the profiles it has not read, the calls *)
(* that are open, the bases the innermost has not turned to, a call still  *)
(* to be answered.                                                         *)
Unread == {p \in Profiles : seen[p] = <<>>}
Phase == IF stage = "begin" THEN 2 ELSE IF stage = "done" THEN 0 ELSE 1
BasesLeft == IF stack = <<>> \/ stage = "done" THEN 0 ELSE Len(Top.file.extends) + 1 - Top.next
ToAnswer == IF stage = "call" THEN 1 ELSE 0
Rank == <<Phase, Cardinality(Unread), Len(stack), BasesLeft, ToAnswer>>

(* Every step of the resolution brings its end nearer, whatever the        *)
(* profiles extend; what others write does not put it off.                 *)
WalkComesToAnEnd == [][IF Step THEN Lower(Rank', Rank) ELSE Rank' = Rank]_vars

(* What has been read stays as it was read: no file is read twice.         *)
FilesReadOnce == [][\A p \in Profiles : seen[p] # <<>> => seen'[p] = seen[p]]_vars

(* What was read is open or in the cache.                                  *)
ReadOnce ==
    stage # "done" => \A p \in Profiles : seen[p] # <<>> => p \in Names(stack) \union Settled(cache)

Remembers == IInv /\ ReadOnce

(* Nothing is read at the start.                                           *)
LEMMA InitRemembers == Init => Remembers
  BY InitIInv DEF Init, Remembers, ReadOnce

(* A call that returns leaves its profile in the cache.                    *)
LEMMA StepRemembers == Remembers /\ IInv' /\ [Next]_vars => Remembers'
<1> SUFFICES ASSUME Remembers, IInv', [Next]_vars, stage' # "done", NEW p \in Profiles, seen'[p] # <<>>
             PROVE  p \in Names(stack') \union Settled(cache')
  BY DEF Remembers, ReadOnce
<1>0. TypeOK /\ TypeOK'
  BY DEF Remembers, IInv
<1>1. CASE UNCHANGED <<stage, stack, cache, seen>>
  BY <1>1 DEF Remembers, ReadOnce
<1>2. CASE Begin
  BY <1>2 DEF Begin, Remembers, ReadOnce
<1>3. CASE Cycle
  BY <1>3 DEF Cycle, Conclude
<1>4. CASE Cached
  <2>1. stage # "done" /\ UNCHANGED <<cache, seen>>
    BY <1>4 DEF Cached
  <2>2. p \in Names(stack) \union Settled(cache)
    BY <2>1 DEF Remembers, ReadOnce
  <2>3. Names(stack') = Names(stack)
    <3>1. PICK servers \in Maps : Return(servers, stack)
      <4>1. called \in Profiles /\ cache[called] \in Seq(Maps) /\ cache[called] # <<>>
        BY <1>0, <1>4 DEF Cached, TypeOK
      <4>2. cache[called][1] \in Maps
        <5>1. Len(cache[called]) \in Nat \ {0}
          BY <4>1, EmptySeq
        <5> QED
          BY <4>1, <5>1, ElementOfSeq
      <4> QED
        BY <1>4, <4>2 DEF Cached
    <3>2. CASE stack = <<>>
      BY <3>1, <3>2 DEF Return
    <3>3. CASE stack # <<>>
      <4>1. stack' = [stack EXCEPT ![Len(stack)].base = Merge(@, servers)]
        BY <3>1, <3>3 DEF Return
      <4>2. Alike(stack, stack')
        BY <1>0, <3>3, <4>1, MergedAlike DEF TypeOK
      <4> QED
        BY <4>2, AlikeNames
    <3> QED
      BY <3>2, <3>3
  <2> QED
    BY <2>1, <2>2, <2>3
<1>5. CASE Read
  <2>1. /\ stage # "done" /\ cache' = cache /\ called \in Profiles
        /\ \A q \in Profiles : q # called => seen'[q] = seen[q]
    BY <1>0, <1>5 DEF Read, TypeOK
  <2>2. stack' = Append(stack, [name |-> called, file |-> files[called], next |-> 1, base |-> Nothing])
    BY <1>5 DEF Read, Conclude
  <2>3. Names(stack') = Names(stack) \union {called}
    <3> PICK call : call = [name |-> called, file |-> files[called], next |-> 1, base |-> Nothing]
      OBVIOUS
    <3>1. call \in Calls /\ call.name = called
      BY <1>0 DEF TypeOK, Calls, Maps, Nothing
    <3> PICK n \in Nat : n = Len(stack) /\ DOMAIN stack = 1..n
      BY <1>0, LenProperties DEF TypeOK
    <3>2. /\ stack' \in Seq(Calls) /\ Len(stack') = n + 1 /\ stack'[n + 1] = call
          /\ \A i \in 1..n : stack'[i] = stack[i]
      BY <1>0, <2>2, <3>1, AppendProperties DEF TypeOK
    <3>3. DOMAIN stack' = 1..(n + 1) /\ \A i \in 1..(n + 1) : i \in 1..n \/ i = n + 1
      BY <3>2, LenProperties
    <3>4. \A i \in 1..n : i \in 1..(n + 1)
      OBVIOUS
    <3> QED
      BY <3>1, <3>2, <3>3, <3>4 DEF Names
  <2> QED
    BY <2>1, <2>3 DEF Remembers, ReadOnce
<1>6. CASE NextBase
  <2>1. stage # "done" /\ stack # <<>> /\ UNCHANGED <<cache, seen>>
        /\ stack' = [stack EXCEPT ![Len(stack)].next = @ + 1]
    BY <1>6 DEF NextBase, Remembers, IInv, Walk
  <2>2. p \in Names(stack) \union Settled(cache)
    BY <2>1 DEF Remembers, ReadOnce
  <2>3. Names(stack') = Names(stack)
    <3> PICK n \in Nat : n = Len(stack) /\ DOMAIN stack = 1..n
      BY <1>0, LenProperties DEF TypeOK
    <3>1. \A i \in 1..n : stack[i] \in Calls
      BY <1>0, ElementOfSeq DEF TypeOK
    <3>2. DOMAIN stack' = 1..n /\ \A i \in 1..n : stack'[i].name = stack[i].name
      BY <2>1, <3>1 DEF Calls
    <3> QED
      BY <3>2 DEF Names
  <2> QED
    BY <2>1, <2>2, <2>3
<1>7. CASE Finish
  <2>1. stage # "done" /\ seen' = seen /\ stack # <<>> /\ Walk
    BY <1>7 DEF Finish, Remembers, IInv, Walk
  <2>2. p \in Names(stack) \union Settled(cache)
    BY <2>1 DEF Remembers, ReadOnce
  <2> PICK n \in Nat : n = Len(stack) /\ DOMAIN stack = 1..n /\ n \in 1..n
    BY <1>0, <2>1, LenProperties, EmptySeq DEF TypeOK
  <2>3. PICK servers : /\ cache' = [cache EXCEPT ![Top.name] = <<servers>>]
                       /\ Return(servers, Front(stack))
    BY <1>7 DEF Finish
  <2>4. Settled(cache) \union {Top.name} \subseteq Settled(cache')
    <3>1. stack[n] \in Calls
      BY <1>0, ElementOfSeq DEF TypeOK
    <3>2. Top.name \in Profiles
      BY <3>1 DEF Top, Calls
    <3> QED
      BY <1>0, <2>3, <3>2 DEF TypeOK, Settled
  <2>5. Names(stack) \ {Top.name} \subseteq Names(stack')
    <3> PICK calls : calls = Front(stack)
      OBVIOUS
    <3>1. /\ calls \in Seq(Calls) /\ Names(calls) = Names(stack) \ {Top.name}
      BY <1>0, <2>1, <2>4, FrontChained DEF TypeOK, Walk, Top
    <3>2. stack' \in {calls, [calls EXCEPT ![Len(calls)].base = Merge(@, servers)]}
      BY <2>3 DEF Return
    <3>3. Names([calls EXCEPT ![Len(calls)].base = Merge(@, servers)]) = Names(calls)
      <4>1. \A i \in DOMAIN calls : calls[i] \in Calls
        BY <3>1, LenProperties, ElementOfSeq
      <4>2. PICK merged : merged = [calls EXCEPT ![Len(calls)].base = Merge(@, servers)]
        OBVIOUS
      <4>3. DOMAIN merged = DOMAIN calls /\ \A i \in DOMAIN calls : merged[i].name = calls[i].name
        BY <4>1, <4>2 DEF Calls
      <4> QED
        BY <4>2, <4>3 DEF Names
    <3> QED
      BY <3>1, <3>2, <3>3
  <2> QED
    BY <2>1, <2>2, <2>4, <2>5
<1>8. CASE Edit
  BY <1>1, <1>8 DEF Edit
<1>9. CASE UNCHANGED vars
  BY <1>1, <1>9 DEF vars
<1> QED
  BY <1>2, <1>3, <1>4, <1>5, <1>6, <1>7, <1>8, <1>9 DEF Next, Step

(* So a profile that was read is never opened again.                       *)
LEMMA AlwaysRemembers == Spec => []Remembers
<1>1. Remembers => IInv
  BY DEF Remembers
<1> QED
  BY InitRemembers, StepRemembers, WalkIsInductive, PTL DEF Spec

(* No file is read twice: each is in one version for the whole walk        *)
(* (src/src/profiles.ts:294).                                              *)
THEOREM FilesAreReadOnce == Spec => FilesReadOnce
<1>1. ASSUME Remembers, [Next]_vars, NEW p \in Profiles, seen[p] # <<>> PROVE seen'[p] = seen[p]
  <2>1. CASE Read
    <3>1. stage # "done" /\ called \notin Names(stack) /\ called \notin Settled(cache)
          /\ seen' = [seen EXCEPT ![called] = <<files[called]>>]
      BY <2>1 DEF Read, Open, Names, Settled
    <3>2. p \in Names(stack) \union Settled(cache)
      BY <1>1, <3>1 DEF Remembers, ReadOnce
    <3> QED
      BY <1>1, <3>1, <3>2 DEF Remembers, IInv, TypeOK
  <2>2. CASE UNCHANGED seen
    BY <2>2
  <2> QED
    BY <1>1, <2>1, <2>2 DEF Next, Step, Edit, Begin, Cycle, Cached, NextBase, Finish, vars
<1>2. Remembers /\ [Next]_vars =>
        [\A p \in Profiles : seen[p] # <<>> => seen'[p] = seen[p]]_vars
  BY <1>1
<1> QED
  BY <1>2, AlwaysRemembers, PTL DEF Spec, FilesReadOnce

(* A rank that is smaller at its first difference is lower.                *)
LEMMA LowerAt ==
    ASSUME NEW r, NEW s, NEW i \in 1..5, r[i] < s[i], \A j \in 1..(i - 1) : r[j] = s[j]
    PROVE  Lower(r, s)
  BY DEF Lower

(* The rank is one: a loop never turns to more bases than there are.       *)
LEMMA RankTypes == ASSUME IInv PROVE Rank \in Ranks /\ IsFiniteSet(Unread)
<1>1. Unread \subseteq Profiles
  BY DEF Unread
<1>2. IsFiniteSet(Unread) /\ Cardinality(Unread) \in Nat
  BY <1>1, ResolveAssumption, FS_Subset, FS_CardinalityType
<1>3. Len(stack) \in Nat
  BY LenProperties DEF IInv, TypeOK
<1>4. ASSUME stack # <<>>, stage # "done" PROVE BasesLeft \in Nat
  <2>1. Len(stack) \in 1..Len(stack)
    BY <1>3, <1>4, EmptySeq DEF IInv, TypeOK
  <2>2. Top \in Calls
    BY <2>1, ElementOfSeq DEF IInv, TypeOK, Top
  <2>3. Top.next \in Nat /\ Top.file.extends \in Seq(Profiles)
    BY <2>2 DEF Calls, Shapes
  <2>4. Len(Top.file.extends) \in Nat
    BY <2>3, LenProperties
  <2>5. Top.next \in 1..(Len(Top.file.extends) + 1)
    BY <1>4 DEF IInv, TypeOK, Walk, Start, Merging
  <2>6. PICK len, next : len = Len(Top.file.extends) /\ next = Top.next
    OBVIOUS
  <2>7. len + 1 - next \in Nat
    BY <2>4, <2>5, <2>6
  <2> QED
    BY <1>4, <2>6, <2>7 DEF BasesLeft
<1>5. BasesLeft \in Nat
  BY <1>4 DEF BasesLeft
<1>6. Phase \in Nat /\ ToAnswer \in Nat
  BY DEF Phase, ToAnswer
<1> QED
  BY <1>2, <1>3, <1>5, <1>6 DEF Rank, Ranks

(* The five parts of a rank.                                               *)
LEMMA RankParts ==
    /\ Rank[1] = Phase /\ Rank[2] = Cardinality(Unread) /\ Rank[3] = Len(stack)
    /\ Rank[4] = BasesLeft /\ Rank[5] = ToAnswer
  BY DEF Rank

(* The same, after a step.                                                *)
LEMMA RankPartsNext ==
    /\ Rank'[1] = Phase' /\ Rank'[2] = Cardinality(Unread)' /\ Rank'[3] = Len(stack')
    /\ Rank'[4] = BasesLeft' /\ Rank'[5] = ToAnswer'
  BY DEF Rank

(* One step of the walk: a file is read, a base turned to, a call closed   *)
(* or answered, or the walk ends.                                          *)
LEMMA StepIsNearer == ASSUME Remembers, IInv', Step PROVE Lower(Rank', Rank)
<1>0. TypeOK /\ TypeOK' /\ IInv /\ ReadOnce
  BY DEF Remembers, IInv
<1>r. PICK r, s : r = Rank' /\ s = Rank
  OBVIOUS
<1>1. /\ s[1] = Phase /\ s[2] = Cardinality(Unread) /\ s[3] = Len(stack)
      /\ s[4] = BasesLeft /\ s[5] = ToAnswer
      /\ r[1] = Phase' /\ r[2] = Cardinality(Unread') /\ r[3] = Len(stack')
      /\ r[4] = BasesLeft' /\ r[5] = ToAnswer'
  BY <1>r, RankParts, RankPartsNext
<1>2. stage # "done"
  BY DEF Step, Begin, Cycle, Cached, Read, NextBase, Finish
<1>3. CASE stage' = "done" \/ (stage = "begin" /\ stage' = "call")
  <2>1. r[1] < s[1]
    BY <1>1, <1>2, <1>3 DEF Phase
  <2>2. Lower(r, s)
    BY <2>1, LowerAt
  <2> QED
    BY <1>r, <2>2
<1>4. CASE Cached /\ stage' # "done"
  <2>1. stage = "call" /\ stage' = "loop" /\ stack # <<>> /\ seen' = seen
    BY <1>4 DEF Cached, Return, Conclude
  <2>2. stack' # <<>> /\ Len(stack') = Len(stack) /\ BasesLeft' = BasesLeft
    <3>1. PICK servers \in Maps : servers = cache[called][1]
      <4>1. called \in Profiles /\ cache[called] \in Seq(Maps) /\ cache[called] # <<>>
        BY <1>0, <1>4 DEF Cached, TypeOK
      <4>2. Len(cache[called]) \in Nat \ {0}
        BY <4>1, EmptySeq
      <4> QED
        BY <4>1, <4>2, ElementOfSeq
    <3>2. stack' = [stack EXCEPT ![Len(stack)].base = Merge(@, servers)]
      BY <1>4, <2>1, <3>1 DEF Cached, Return
    <3>3. Alike(stack, stack') /\ stack'[Len(stack)].next = stack[Len(stack)].next
      BY <1>0, <2>1, <3>2, MergedAlike DEF TypeOK
    <3>4. Len(stack) \in 1..Len(stack)
      BY <1>0, <2>1, EmptySeq DEF TypeOK
    <3>5. Len(stack') = Len(stack) /\ stack'[Len(stack)].file = stack[Len(stack)].file
      BY <3>3, <3>4 DEF Alike
    <3>6. stack' # <<>>
      BY <1>0, <2>1, <3>5, EmptySeq DEF TypeOK
    <3> QED
      BY <2>1, <3>3, <3>5, <3>6 DEF BasesLeft, Top
  <2>3. r[1] = s[1] /\ r[2] = s[2] /\ r[3] = s[3] /\ r[4] = s[4] /\ r[5] < s[5]
    BY <1>1, <2>1, <2>2 DEF Phase, Unread, ToAnswer
  <2>4. \A j \in 1..(5 - 1) : j = 1 \/ j = 2 \/ j = 3 \/ j = 4
    OBVIOUS
  <2>5. Lower(r, s)
    BY <2>3, <2>4, LowerAt
  <2> QED
    BY <1>r, <2>5
<1>5. CASE Read /\ stage' # "done"
  <2>1. /\ stage = "call" /\ stage' = "loop" /\ called \in Profiles
        /\ called \notin Names(stack) /\ called \notin Settled(cache)
        /\ seen' = [seen EXCEPT ![called] = <<files[called]>>]
    BY <1>0, <1>5 DEF Read, Conclude, Open, Names, Settled, TypeOK
  <2>2. called \in Unread
    BY <1>0, <2>1 DEF ReadOnce, Unread
  <2>3. Unread' = Unread \ {called}
    <3>1. seen'[called] # <<>> /\ \A p \in Profiles : p # called => seen'[p] = seen[p]
      BY <1>0, <2>1 DEF TypeOK
    <3> QED
      BY <3>1 DEF Unread
  <2>5. PICK before, after : before = Unread /\ after = Unread'
    OBVIOUS
  <2>4. IsFiniteSet(before) /\ Cardinality(before) \in Nat
    BY <1>0, <2>5, RankTypes, FS_CardinalityType
  <2>6. Cardinality(after) < Cardinality(before)
    <3>1. Cardinality(before \ {called}) = Cardinality(before) - 1
      BY <2>2, <2>4, <2>5, FS_RemoveElement
    <3> QED
      BY <2>3, <2>4, <2>5, <3>1
  <2>7. r[1] = s[1] /\ r[2] < s[2]
    BY <1>1, <2>1, <2>5, <2>6 DEF Phase
  <2>8. \A j \in 1..(2 - 1) : j = 1
    OBVIOUS
  <2>9. Lower(r, s)
    BY <2>7, <2>8, LowerAt
  <2> QED
    BY <1>r, <2>9
<1>6. CASE NextBase
  <2>1. /\ stage = "loop" /\ stage' = "call" /\ seen' = seen /\ stack # <<>>
        /\ stack' = [stack EXCEPT ![Len(stack)].next = @ + 1]
    BY <1>0, <1>6 DEF NextBase, IInv, Walk
  <2>0. stack \in Seq(Calls) /\ stack # <<>>
    BY <1>0, <2>1 DEF TypeOK
  <2> PICK n \in Nat : n = Len(stack) /\ DOMAIN stack = 1..n /\ n \in 1..n
    BY <2>0, LenProperties, EmptySeq
  <2>9. stack[n] \in Calls
    BY <1>0, ElementOfSeq DEF TypeOK
  <2>2. Len(stack') = n /\ stack' # <<>>
    <3>1. stack' \in Seq(Calls) /\ DOMAIN stack' = 1..n
      BY <1>0, <2>1 DEF TypeOK
    <3> QED
      BY <3>1, LenProperties, EmptySeq
  <2>3. stack'[n].file = stack[n].file /\ stack'[n].next = stack[n].next + 1
    BY <2>1, <2>9 DEF Calls
  <2>4. stack[n].next \in Nat /\ stack[n].file.extends \in Seq(Profiles)
    BY <2>9 DEF Calls, Shapes
  <2>5. BasesLeft' < BasesLeft
    <3>1. PICK len, next : len = Len(stack[n].file.extends) /\ next = stack[n].next
      OBVIOUS
    <3>2. len \in Nat /\ next \in Nat
      BY <2>4, <3>1, LenProperties
    <3>3. BasesLeft = len + 1 - next /\ BasesLeft' = len + 1 - (next + 1)
      BY <2>1, <2>2, <2>3, <3>1 DEF BasesLeft, Top
    <3> QED
      BY <3>2, <3>3
  <2>6. r[1] = s[1] /\ r[2] = s[2] /\ r[3] = s[3] /\ r[4] < s[4]
    BY <1>1, <2>1, <2>2, <2>5 DEF Phase, Unread
  <2>7. \A j \in 1..(4 - 1) : j = 1 \/ j = 2 \/ j = 3
    OBVIOUS
  <2>8. Lower(r, s)
    BY <2>6, <2>7, LowerAt
  <2> QED
    BY <1>r, <2>8
<1>7. CASE Finish /\ stage' # "done"
  <2>1. stage = "loop" /\ stage' = "loop" /\ seen' = seen /\ stack # <<>> /\ Walk
    BY <1>0, <1>7 DEF Finish, Return, Conclude, IInv, Walk
  <2> PICK calls : calls = Front(stack)
    OBVIOUS
  <2>2. calls \in Seq(Calls) /\ Len(calls) = Len(stack) - 1
    <3>1. Settled(cache) \subseteq Settled(cache)
      OBVIOUS
    <3> QED
      BY <1>0, <2>1, <3>1, FrontChained DEF TypeOK, Walk
  <2>3. PICK servers : stack' = [calls EXCEPT ![Len(calls)].base = Merge(@, servers)]
    BY <1>7 DEF Finish, Return, Conclude
  <2>4. Len(stack') = Len(calls)
    <3>1. stack' \in Seq(Calls) /\ DOMAIN stack' = DOMAIN calls
      BY <1>0, <2>3 DEF TypeOK
    <3>2. DOMAIN calls = 1..Len(calls) /\ Len(calls) \in Nat
      BY <2>2, LenProperties
    <3> QED
      BY <3>1, <3>2, LenProperties
  <2>5. Len(stack') < Len(stack)
    <3>1. Len(stack) \in Nat
      BY <1>0, LenProperties DEF TypeOK
    <3> QED
      BY <2>2, <2>4, <3>1
  <2>6. r[1] = s[1] /\ r[2] = s[2] /\ r[3] < s[3]
    BY <1>1, <2>1, <2>5 DEF Phase, Unread
  <2>7. \A j \in 1..(3 - 1) : j = 1 \/ j = 2
    OBVIOUS
  <2>8. Lower(r, s)
    BY <2>6, <2>7, LowerAt
  <2> QED
    BY <1>r, <2>8
<1>8. Begin => stage' = "done" \/ (stage = "begin" /\ stage' = "call")
  BY DEF Begin, Conclude
<1>9. Cycle => stage' = "done"
  BY DEF Cycle, Conclude
<1> QED
  BY <1>3, <1>4, <1>5, <1>6, <1>7, <1>8, <1>9 DEF Step

(* The resolution of a profile takes finitely many steps, whatever the     *)
(* profiles extend and however they are rewritten meanwhile: each step     *)
(* lowers its rank (src/src/profiles.ts:286).                              *)
THEOREM WalksComeToAnEnd == Spec => [](Rank \in Ranks) /\ WalkComesToAnEnd
<1>1. ASSUME Remembers, IInv', [Next]_vars, ~Step PROVE Rank' = Rank
  <2>1. UNCHANGED <<stage, stack, seen>>
    BY <1>1 DEF Next, Edit, vars
  <2> QED
    BY <2>1 DEF Rank, Phase, Unread, BasesLeft, Top, ToAnswer
<1>2. Remembers /\ IInv' /\ [Next]_vars => [IF Step THEN Lower(Rank', Rank) ELSE Rank' = Rank]_vars
  BY <1>1, StepIsNearer
<1>3. IInv => Rank \in Ranks
  BY RankTypes
<1> QED
  BY <1>2, <1>3, AlwaysRemembers, WalkIsInductive, PTL DEF Spec, WalkComesToAnEnd
=============================================================================
