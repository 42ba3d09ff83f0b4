--------------------------- MODULE ToolScan_proofs ---------------------------
(***************************************************************************)
(* Proofs about ToolScan for every list of targets, every number of        *)
(* workers and every budget.                                               *)
(***************************************************************************)
EXTENDS ToolScan, Ranks, FiniteSetTheorems, SequenceTheorems, TLAPS

(* A target below the shared index has its entry or is in the hands of     *)
(* exactly one worker; the ones above are untouched.                       *)
Shared ==
    /\ \A w \in Workers : Busy(w) => index[w] \in Targets /\ index[w] < nextIndex
    /\ \A i \in Targets : i >= nextIndex => entry[i] = "none"
    /\ \A i \in Targets : i < nextIndex =>
         entry[i] # "none" \/ \E w \in Workers : Busy(w) /\ index[w] = i
    /\ \A w \in Workers : at[w] = "done" => \A i \in Targets : i < nextIndex
    /\ \A i \in conn : \E w \in Workers : Busy(w) /\ index[w] = i

(* What concurrent probes were granted stays within the budget.            *)
BudgetKept == used <= MaxBytes

IInv == TypeOK /\ BudgetKept /\ NoTargetTwice /\ Shared

LEMMA TargetNumbers == \E n \in Nat : Targets = 1 .. n
  BY ScanAssumption, LenProperties DEF Targets

LEMMA InitIInv == Init => IInv
<1> SUFFICES ASSUME Init PROVE IInv
  OBVIOUS
<1>1. TypeOK
  BY DEF Init, TypeOK, Statuses
<1>2. BudgetKept
  BY ScanAssumption DEF Init, BudgetKept
<1>3. \A w \in Workers : ~Busy(w) /\ at[w] # "done"
  BY DEF Init, Busy
<1>4. NoTargetTwice /\ Shared
  BY <1>3, TargetNumbers DEF Init, NoTargetTwice, Shared
<1> QED
  BY <1>1, <1>2, <1>4 DEF IInv

LEMMA ProbeIInv == ASSUME IInv, NEW w \in Workers, Probe(w) PROVE IInv'
<1> USE DEF IInv, TypeOK, Busy
<1>0. /\ at[w] = "loop" /\ nextIndex \in Targets /\ nextIndex \in Nat
      /\ nextIndex' = nextIndex + 1 /\ index' = [index EXCEPT ![w] = nextIndex]
      /\ UNCHANGED <<used, entry, paid>>
      /\ conn' \subseteq conn \union {nextIndex}
      /\ \E stage \in {"probe", "close"} : at' = [at EXCEPT ![w] = stage]
      /\ pending' \in [Workers -> Statuses]
  BY DEF Probe, Ends, Statuses
<1>1. TypeOK' /\ BudgetKept'
  BY <1>0 DEF BudgetKept
<1>2. at'[w] \in {"probe", "close"} /\ index'[w] = nextIndex
      /\ \A v \in Workers \ {w} : at'[v] = at[v] /\ index'[v] = index[v]
  BY <1>0
<1>3. NoTargetTwice'
  BY <1>0, <1>2, TargetNumbers DEF NoTargetTwice, Shared
<1>4. Shared'
  <2>1. \A v \in Workers : Busy(v)' => index'[v] \in Targets /\ index'[v] < nextIndex'
    BY <1>0, <1>2, TargetNumbers DEF Shared
  <2>2. \A i \in Targets : i >= nextIndex' => entry'[i] = "none"
    BY <1>0, TargetNumbers DEF Shared
  <2>3. \A v \in Workers : Busy(v) => v # w /\ Busy(v)' /\ index'[v] = index[v]
    BY <1>0, <1>2
  <2>4. Busy(w)' /\ index'[w] = nextIndex
    BY <1>2
  <2>5. \A i \in Targets : i < nextIndex' => i < nextIndex \/ i = nextIndex
    BY <1>0, TargetNumbers
  <2>6. \A v \in Workers : at'[v] # "done" \/ at[v] = "done"
    BY <1>0, <1>2
  <2> HIDE DEF Busy
  <2>7. \A i \in Targets : i < nextIndex' =>
          entry'[i] # "none" \/ \E v \in Workers : Busy(v)' /\ index'[v] = i
    BY <1>0, <2>3, <2>4, <2>5 DEF Shared
  <2>8. \A v \in Workers : at'[v] = "done" => \A i \in Targets : i < nextIndex'
    <3>1. ~(nextIndex < nextIndex)
      BY <1>0
    <3>2. \A v \in Workers : at[v] # "done"
      BY <1>0, <3>1 DEF Shared
    <3> QED
      BY <2>6, <3>2
  <2>9. \A i \in conn' : \E v \in Workers : Busy(v)' /\ index'[v] = i
    BY <1>0, <2>3, <2>4 DEF Shared
  <2> QED
    BY <2>1, <2>2, <2>7, <2>8, <2>9 DEF Shared
<1> QED
  BY <1>1, <1>3, <1>4

LEMMA SkipIInv == ASSUME IInv, NEW w \in Workers, Skip(w) PROVE IInv'
<1> USE DEF IInv, TypeOK, Busy
<1>0. /\ at[w] = "loop" /\ nextIndex \in Targets /\ nextIndex' = nextIndex + 1
      /\ \E status \in {"unsupported", "incomplete"} :
            entry' = [entry EXCEPT ![nextIndex] = status]
      /\ UNCHANGED <<used, at, index, pending, conn, paid>>
  BY DEF Skip, Record
<1>1. TypeOK' /\ BudgetKept'
  BY <1>0 DEF BudgetKept, Statuses
<1>2. entry'[nextIndex] # "none" /\ \A i \in Targets \ {nextIndex} : entry'[i] = entry[i]
  BY <1>0
<1>3. \A v \in Workers : Busy(v)' <=> Busy(v)
  BY <1>0
<1>4. \A v \in Workers : at'[v] # "done"
  <2>1. ~(nextIndex < nextIndex)
    OBVIOUS
  <2> QED
    BY <1>0, <2>1 DEF Shared
<1>5. /\ nextIndex \in Targets /\ nextIndex' = nextIndex + 1 /\ index' = index /\ conn' = conn
      /\ \A i \in Targets : i \in Nat
  BY <1>0, TargetNumbers
<1> HIDE DEF Busy
<1>6. NoTargetTwice'
  <2>1. \A v \in Workers : Busy(v) => index[v] \in Targets \ {nextIndex}
    BY DEF Shared
  <2> QED
    BY <1>2, <1>3, <1>5, <2>1 DEF NoTargetTwice
<1>7. \A v \in Workers : Busy(v)' => index'[v] \in Targets /\ index'[v] < nextIndex'
  BY <1>3, <1>5 DEF Shared
<1>8. \A i \in Targets : i >= nextIndex' => entry'[i] = "none"
  BY <1>2, <1>5 DEF Shared
<1>9. \A i \in Targets : i < nextIndex' =>
        entry'[i] # "none" \/ \E v \in Workers : Busy(v)' /\ index'[v] = i
  <2>1. \A i \in Targets : i < nextIndex' => i < nextIndex \/ i = nextIndex
    BY <1>5
  <2> QED
    BY <1>2, <1>3, <1>5, <2>1 DEF Shared
<1>10. \A i \in conn' : \E v \in Workers : Busy(v)' /\ index'[v] = i
  BY <1>3, <1>5 DEF Shared
<1> QED
  BY <1>1, <1>4, <1>6, <1>7, <1>8, <1>9, <1>10 DEF Shared

LEMMA ExitIInv == ASSUME IInv, NEW w \in Workers, Exit(w) PROVE IInv'
<1> USE DEF IInv, TypeOK, Busy
<1>0. /\ at[w] = "loop" /\ nextIndex \notin Targets /\ nextIndex' = nextIndex + 1
      /\ at' = [at EXCEPT ![w] = "done"]
      /\ UNCHANGED <<used, index, pending, conn, entry, paid>>
  BY DEF Exit
<1>1. TypeOK' /\ BudgetKept'
  BY <1>0 DEF BudgetKept
<1>2. \A v \in Workers : Busy(v)' <=> Busy(v)
  BY <1>0
<1>3. \A i \in Targets : i < nextIndex
  <2>1. PICK n \in Nat : Targets = 1 .. n
    BY TargetNumbers
  <2> QED
    BY <1>0, <2>1
<1>4. nextIndex' = nextIndex + 1 /\ index' = index /\ entry' = entry /\ conn' = conn
      /\ \A i \in Targets : i \in Nat
  BY <1>0, TargetNumbers
<1> HIDE DEF Busy
<1>5. NoTargetTwice'
  BY <1>2, <1>4 DEF NoTargetTwice
<1>6. /\ \A v \in Workers : Busy(v)' => index'[v] \in Targets /\ index'[v] < nextIndex'
      /\ \A i \in Targets : i >= nextIndex' => entry'[i] = "none"
  BY <1>2, <1>4 DEF Shared
<1>7. \A i \in Targets : entry'[i] # "none" \/ \E v \in Workers : Busy(v)' /\ index'[v] = i
  BY <1>2, <1>3, <1>4 DEF Shared
<1>8. \A i \in Targets : i < nextIndex'
  BY <1>3, <1>4
<1>9. \A i \in conn' : \E v \in Workers : Busy(v)' /\ index'[v] = i
  BY <1>2, <1>4 DEF Shared
<1> QED
  BY <1>1, <1>5, <1>6, <1>7, <1>8, <1>9 DEF Shared

LEMMA BytesIInv ==
    ASSUME IInv, NEW w \in Workers, Listed(w) \/ Traffic(w) \/ Fails(w)
    PROVE  IInv'
<1> USE DEF IInv, TypeOK, Busy
<1>0. UNCHANGED <<nextIndex, index, conn, entry>>
  BY DEF Listed, Traffic, Fails
<1>1. used' \in Nat /\ used' <= MaxBytes
  BY ScanAssumption DEF Listed, Traffic, Fails, Reserve, RefuseBytes, Fits, BudgetKept
<1>2. pending' \in [Workers -> Statuses] /\ at[w] \in {"probe", "close"}
      /\ \/ at' = at
         \/ at' = [at EXCEPT ![w] = "close"]
  BY DEF Listed, Traffic, Fails, Ends, Statuses
<1>3. TypeOK' /\ BudgetKept'
  <2>1. paid' \in [Targets -> SUBSET Nat]
    <3>1. \A m \in Nat, n \in Nat : (m + 1)..n \subseteq Nat
      OBVIOUS
    <3>2. (used + 1)..used' \subseteq Nat
      BY <1>1, <3>1
    <3>3. \/ UNCHANGED paid
          \/ paid' = [paid EXCEPT ![index[w]] = (used + 1)..used']
      BY DEF Listed, Traffic, Fails
    <3> QED
      BY <3>2, <3>3
  <2> QED
    BY <1>0, <1>1, <1>2, <2>1 DEF BudgetKept
<1>4. \A v \in Workers : Busy(v)' <=> Busy(v)
  BY <1>2
<1>5. NoTargetTwice'
  BY <1>0, <1>4 DEF NoTargetTwice
<1>6. \A v \in Workers : at'[v] = "done" => at[v] = "done"
  BY <1>2
<1> HIDE DEF Busy
<1>7. Shared'
  BY <1>0, <1>4, <1>6 DEF Shared
<1> QED
  BY <1>3, <1>5, <1>7

LEMMA CloseIInv == ASSUME IInv, NEW w \in Workers, Close(w) PROVE IInv'
<1> USE DEF IInv, TypeOK, Busy
<1>0. /\ at[w] = "close" /\ conn' = conn \ {index[w]}
      /\ entry' = [entry EXCEPT ![index[w]] = pending[w]]
      /\ at' = [at EXCEPT ![w] = "loop"]
      /\ UNCHANGED <<nextIndex, used, index, pending, paid>>
  BY DEF Close, Record
<1>1. index[w] \in Targets /\ index[w] < nextIndex /\ pending[w] # "none"
  BY <1>0 DEF Shared, Statuses
<1>2. TypeOK' /\ BudgetKept'
  BY <1>0, <1>1 DEF BudgetKept
<1>3. NoTargetTwice'
  BY <1>0, <1>1 DEF NoTargetTwice
<1>4. Shared'
  <2>1. \A v \in Workers : Busy(v)' <=> Busy(v) /\ v # w
    BY <1>0
  <2>2. \A v \in Workers \ {w} : Busy(v) => index[v] # index[w]
    BY <1>0 DEF NoTargetTwice
  <2>3. \A v \in Workers : at'[v] = "done" => at[v] = "done"
    BY <1>0
  <2>4. entry'[index[w]] # "none" /\ \A i \in Targets \ {index[w]} : entry'[i] = entry[i]
    BY <1>0, <1>1
  <2>5. index[w] < nextIndex /\ nextIndex' = nextIndex /\ index' = index
    BY <1>0, <1>1
  <2> HIDE DEF Busy
  <2>6. \A v \in Workers : Busy(v)' => index'[v] \in Targets /\ index'[v] < nextIndex'
    BY <2>1, <2>5 DEF Shared
  <2>7. \A i \in Targets : i >= nextIndex' => entry'[i] = "none"
    BY <2>4, <2>5, TargetNumbers DEF Shared
  <2>8. \A i \in Targets : i < nextIndex' =>
          entry'[i] # "none" \/ \E v \in Workers : Busy(v)' /\ index'[v] = i
    BY <2>1, <2>4, <2>5 DEF Shared
  <2>9. \A v \in Workers : at'[v] = "done" => \A i \in Targets : i < nextIndex'
    BY <2>3, <2>5 DEF Shared
  <2>10. \A i \in conn' : \E v \in Workers : Busy(v)' /\ index'[v] = i
    BY <1>0, <2>1, <2>5 DEF Shared
  <2> QED
    BY <2>6, <2>7, <2>8, <2>9, <2>10 DEF Shared
<1> QED
  BY <1>2, <1>3, <1>4

LEMMA NextIInv == IInv /\ [Next]_vars => IInv'
<1> SUFFICES ASSUME IInv, [Next]_vars PROVE IInv'
  OBVIOUS
<1>1. CASE UNCHANGED vars
  BY <1>1 DEF vars, IInv, TypeOK, BudgetKept, NoTargetTwice, Shared, Busy
<1>2. CASE Next
  BY <1>2, ProbeIInv, SkipIInv, ExitIInv, BytesIInv, CloseIInv DEF Next, Step
<1> QED
  BY <1>1, <1>2

LEMMA Inductive == Spec => []IInv
  BY InitIInv, NextIInv, PTL DEF Spec

-----------------------------------------------------------------------------
(* The variables keep their types.                                         *)
THEOREM TypeCorrect == Spec => []TypeOK
<1>1. IInv => TypeOK
  BY DEF IInv
<1> QED
  BY <1>1, Inductive, PTL

(* The shared index hands every target to one worker.                      *)
THEOREM TargetsAreShared == Spec => []NoTargetTwice
<1>1. IInv => NoTargetTwice
  BY DEF IInv
<1> QED
  BY <1>1, Inductive, PTL

(* When the scan returns every target has its entry and no connection is   *)
(* open.                                                                   *)
THEOREM ScanIsComplete == Spec => []EveryTargetReported
<1>1. IInv => EveryTargetReported
  <2> SUFFICES ASSUME IInv, Returned
               PROVE  (\A i \in Targets : entry[i] # "none") /\ conn = {}
    BY DEF EveryTargetReported
  <2>1. PICK w \in Workers : at[w] = "done"
    BY ScanAssumption DEF Returned
  <2>2. \A i \in Targets : i < nextIndex
    BY <2>1 DEF IInv, Shared
  <2>3. \A v \in Workers : ~Busy(v)
    BY DEF Returned, Busy
  <2> QED
    BY <2>2, <2>3 DEF IInv, Shared
<1> QED
  BY <1>1, Inductive, PTL

(* An entry once stored is final.                                          *)
THEOREM EntriesAreFinal == Spec => EntriesFinal
<1> DEFINE Final == \A i \in Targets : entry[i] # "none" => entry'[i] = entry[i]
<1>1. IInv /\ [Next]_vars => [Final]_vars
  <2> SUFFICES ASSUME IInv, [Next]_vars, NEW i \in Targets, entry[i] # "none"
               PROVE  entry'[i] = entry[i]
    OBVIOUS
  <2>1. CASE UNCHANGED vars
    BY <2>1 DEF vars
  <2>2. ASSUME NEW w \in Workers, Skip(w) PROVE entry'[i] = entry[i]
    BY <2>2, TargetNumbers DEF Skip, Record, IInv, Shared, TypeOK
  <2>3. ASSUME NEW w \in Workers, Close(w) PROVE entry'[i] = entry[i]
    BY <2>3 DEF Close, Record, IInv, NoTargetTwice, Busy, TypeOK
  <2>4. ASSUME NEW w \in Workers,
               Probe(w) \/ Exit(w) \/ Listed(w) \/ Traffic(w) \/ Fails(w)
        PROVE  entry'[i] = entry[i]
    BY <2>4 DEF Probe, Exit, Listed, Traffic, Fails
  <2> QED
    BY <2>1, <2>2, <2>3, <2>4 DEF Next, Step
<1> HIDE DEF Final
<1>2. Spec => [][Final]_vars
  BY <1>1, Inductive, PTL DEF Spec
<1> QED
  BY <1>2 DEF Final, EntriesFinal

(* No more connections than probes may run in parallel.                    *)
THEOREM ConnectionsAreBounded == Spec => []ProbesBounded
<1>1. IInv => ProbesBounded
  <2> SUFFICES ASSUME IInv PROVE Cardinality(conn) <= MaxParallel
    BY DEF ProbesBounded
  <2>1. \A i \in conn : \E w \in Workers : index[w] = i
    BY DEF IInv, Shared
  <2> DEFINE hosts == {index[w] : w \in Workers}
  <2>2. IsFiniteSet(hosts) /\ Cardinality(hosts) <= Cardinality(Workers)
    <3>1. index \in Surjection(Workers, hosts)
      BY DEF IInv, TypeOK, Surjection
    <3> QED
      BY <3>1, ScanAssumption, FS_Surjection
  <2>3. conn \subseteq hosts
    BY <2>1
  <2> HIDE DEF hosts
  <2>4. Cardinality(conn) <= Cardinality(hosts)
    BY <2>2, <2>3, FS_Subset
  <2>5. Cardinality(conn) \in Nat /\ Cardinality(hosts) \in Nat /\ Cardinality(Workers) \in Nat
    BY <2>2, <2>3, ScanAssumption, FS_Subset, FS_CardinalityType
  <2> QED
    BY <2>2, <2>4, <2>5, ScanAssumption
<1> QED
  BY <1>1, Inductive, PTL

-----------------------------------------------------------------------------
(* The ledger: no byte of the budget pays for two tool lists, and an `ok`, *)
(* stored or about to be, rests on a list that was paid for.               *)
Paid ==
    /\ \A i \in Targets : paid[i] \subseteq 1..used
    /\ \A i, j \in Targets : i # j => paid[i] \intersect paid[j] = {}
    /\ \A i \in Targets : entry[i] = "ok" => paid[i] # {}
    /\ \A w \in Workers : at[w] = "close" /\ pending[w] = "ok" => paid[index[w]] # {}

(* Whoever blames the budget was refused an answer by it.                  *)
Short == \E bytes \in Sizes : used + bytes > MaxBytes
Blamed ==
    /\ used > 0 => Sizes # {}
    /\ (\E i \in Targets : entry[i] = "incomplete") => Short
    /\ (\E w \in Workers : at[w] = "close" /\ pending[w] = "incomplete") => Short

LEMMA Numbers ==
  ASSUME NEW m \in Nat, NEW n \in Nat, m <= n
  PROVE  /\ 1..m \subseteq 1..n /\ (m + 1)..n \subseteq 1..n
         /\ (1..m) \intersect ((m + 1)..n) = {}
         /\ m < n => (m + 1)..n # {}
<1>1. m < n => m + 1 \in (m + 1)..n OBVIOUS
<1> QED BY <1>1

LEMMA UsedGrows ==
  ASSUME IInv, NEW w \in Workers, Step(w)
  PROVE  used \in Nat /\ used' \in Nat /\ used <= used'
BY ScanAssumption DEF IInv, TypeOK, Step, Probe, Skip, Exit, Listed, Traffic, Fails, Close,
   Reserve, RefuseBytes

(* A tool list takes bytes that were left.                                 *)
LEMMA ListedPaid ==
  ASSUME IInv, Paid, NEW w \in Workers, Listed(w)
  PROVE  Paid'
<1> USE DEF IInv, TypeOK
<1>1. /\ at[w] = "probe" /\ UNCHANGED <<index, entry>>
      /\ at' = [at EXCEPT ![w] = "close"]
      /\ paid' = [paid EXCEPT ![index[w]] = (used + 1)..used']
      /\ \/ used < used' /\ pending' = [pending EXCEPT ![w] = "ok"]
         \/ \E status \in {"incomplete", "failed"} : pending' = [pending EXCEPT ![w] = status]
  BY ScanAssumption DEF Listed, Reserve, RefuseBytes, Ends
<1>2. index[w] \in Targets /\ entry[index[w]] = "none" BY <1>1 DEF Shared, NoTargetTwice, Busy
<1>3. used \in Nat /\ used' \in Nat /\ used <= used' BY UsedGrows DEF Step
<1>4. /\ paid'[index[w]] = (used + 1)..used'
      /\ \A i \in Targets \ {index[w]} : paid'[i] = paid[i]
  BY <1>1, <1>2
<1>5. /\ 1..used \subseteq 1..used' /\ (used + 1)..used' \subseteq 1..used'
      /\ (1..used) \intersect ((used + 1)..used') = {}
      /\ used < used' => (used + 1)..used' # {}
  BY <1>3, Numbers
<1>6. \A i \in Targets : paid'[i] \subseteq 1..used' BY <1>4, <1>5 DEF Paid
<1>7. \A i, j \in Targets : i # j => paid'[i] \intersect paid'[j] = {} BY <1>4, <1>5 DEF Paid
<1>8. \A i \in Targets : entry'[i] = "ok" => paid'[i] # {} BY <1>1, <1>2, <1>4 DEF Paid
<1>9. ASSUME NEW v \in Workers, at'[v] = "close", pending'[v] = "ok" PROVE paid'[index'[v]] # {}
  <2>1. CASE v = w BY <1>1, <1>4, <1>5, <1>9, <2>1
  <2>2. CASE v # w
    <3>1. at[v] = "close" /\ pending[v] = "ok" BY <1>1, <1>9, <2>2
    <3>2. index[v] \in Targets \ {index[w]} BY <1>1, <2>2, <3>1 DEF NoTargetTwice, Shared, Busy
    <3> QED BY <1>1, <1>4, <3>1, <3>2 DEF Paid
  <2> QED BY <2>1, <2>2
<1> QED BY <1>6, <1>7, <1>8, <1>9 DEF Paid

LEMMA StepPaid == ASSUME IInv, Paid, NEW w \in Workers, Step(w) PROVE Paid'
<1> USE DEF IInv, TypeOK
<1>1. CASE Listed(w) BY <1>1, ListedPaid
<1>2. ASSUME UNCHANGED paid,
             \A i \in Targets : entry'[i] = "ok" => paid[i] # {},
             \A v \in Workers : at'[v] = "close" /\ pending'[v] = "ok" =>
                 at[v] = "close" /\ pending[v] = "ok" /\ index'[v] = index[v]
      PROVE  Paid'
  <2>1. used \in Nat /\ used' \in Nat /\ used <= used' BY UsedGrows
  <2>2. 1..used \subseteq 1..used' BY <2>1, Numbers
  <2> QED BY <1>2, <2>2 DEF Paid
<1>3. CASE Close(w)
  <2>1. /\ entry' = [entry EXCEPT ![index[w]] = pending[w]] /\ at[w] = "close"
        /\ at' = [at EXCEPT ![w] = "loop"] /\ UNCHANGED <<index, pending, paid>>
    BY <1>3 DEF Close, Record
  <2>2. \A i \in Targets : entry'[i] = "ok" => entry[i] = "ok" \/ (i = index[w] /\ pending[w] = "ok")
    BY <2>1
  <2>3. \A v \in Workers : at'[v] = "close" => at[v] = "close" BY <2>1
  <2> QED BY <1>2, <2>1, <2>2, <2>3 DEF Paid
<1>4. CASE Skip(w)
  <2>1. UNCHANGED <<paid, at, pending, index>> BY <1>4 DEF Skip
  <2>2. \A i \in Targets : entry'[i] = "ok" => entry[i] = "ok" BY <1>4 DEF Skip, Record
  <2> QED BY <1>2, <2>1, <2>2 DEF Paid
<1>5. CASE Probe(w)
  <2>1. at[w] = "loop" /\ UNCHANGED <<entry, paid>> /\ index' = [index EXCEPT ![w] = nextIndex]
        /\ \/ at' = [at EXCEPT ![w] = "probe"] /\ pending' = pending
           \/ at' = [at EXCEPT ![w] = "close"] /\ pending' = [pending EXCEPT ![w] = "failed"]
    BY <1>5 DEF Probe, Ends
  <2>2. \A v \in Workers : at'[v] = "close" /\ pending'[v] = "ok"
          => at[v] = "close" /\ pending[v] = "ok" /\ index'[v] = index[v]
    BY <2>1
  <2> QED BY <1>2, <2>1, <2>2 DEF Paid
<1>6. CASE Exit(w) \/ Fails(w) \/ Traffic(w)
  <2>1. UNCHANGED <<entry, paid, index>> BY <1>6 DEF Exit, Fails, Traffic
  <2>2. \A v \in Workers : at'[v] = "close" /\ pending'[v] = "ok" => at[v] = "close" /\ pending[v] = "ok"
    BY <1>6 DEF Exit, Fails, Traffic, Ends
  <2> QED BY <1>2, <2>1, <2>2 DEF Paid
<1> QED BY <1>1, <1>3, <1>4, <1>5, <1>6 DEF Step

LEMMA StillMore ==
  ASSUME NEW a \in Nat, NEW b \in Nat, NEW c \in Nat, NEW d \in Nat, a <= b, a + c > d
  PROVE  b + c > d
OBVIOUS

LEMMA StepBlamed == ASSUME IInv, Blamed, NEW w \in Workers, Step(w) PROVE Blamed'
<1> USE DEF IInv, TypeOK
<1>1. used' \in Nat /\ used <= used' /\ (used' # used => Sizes # {})
  BY ScanAssumption DEF Step, Probe, Skip, Exit, Listed, Traffic, Fails, Close, Reserve, RefuseBytes
<1>2. ASSUME Short PROVE Short'
  <2>1. PICK bytes \in Sizes : used + bytes > MaxBytes BY <1>2 DEF Short
  <2>2. bytes \in Nat /\ used \in Nat /\ MaxBytes \in Nat BY ScanAssumption
  <2>3. used' \in Nat /\ used <= used' BY <1>1
  <2>4. used' + bytes > MaxBytes BY <2>1, <2>2, <2>3, StillMore
  <2> QED BY <2>4 DEF Short
<1>3. ASSUME Exhausted PROVE Short
  <2>1. MaxBytes \in Nat \ {0} /\ used \in Nat /\ used >= MaxBytes
    BY <1>3, ScanAssumption DEF Exhausted
  <2>2. PICK bytes : bytes \in Sizes BY <2>1 DEF Blamed
  <2>3. bytes \in Nat \ {0} BY <2>2, ScanAssumption
  <2>4. used + bytes > MaxBytes BY <2>1, <2>3
  <2> QED BY <2>2, <2>4 DEF Short
<1>4. \A bytes \in Sizes : RefuseBytes(bytes) => Short
  BY ScanAssumption DEF RefuseBytes, Fits, Short
<1>5. (used' > 0 => Sizes # {}) BY <1>1 DEF Blamed
<1>6. ASSUME NEW i \in Targets, entry'[i] = "incomplete" PROVE Short
  <2>1. CASE entry' = entry BY <2>1, <1>6 DEF Blamed
  <2>2. CASE Skip(w) BY <2>2, <1>3, <1>6 DEF Skip, Record, Blamed
  <2>3. CASE Close(w) BY <2>3, <1>6 DEF Close, Record, Blamed
  <2> QED BY <2>1, <2>2, <2>3 DEF Step, Probe, Exit, Listed, Traffic, Fails
<1>7. ASSUME NEW v \in Workers, at'[v] = "close", pending'[v] = "incomplete" PROVE Short
  <2>1. CASE at[v] = "close" /\ pending[v] = "incomplete" BY <2>1 DEF Blamed
  <2>2. CASE ~(at[v] = "close" /\ pending[v] = "incomplete")
    <3>1. CASE Listed(w) BY <3>1, <2>2, <1>7, <1>4 DEF Listed, Ends
    <3>2. CASE Traffic(w) BY <3>2, <2>2, <1>7, <1>4 DEF Traffic, Ends
    <3>3. CASE Probe(w) BY <3>3, <2>2, <1>7 DEF Probe, Ends
    <3>4. CASE Fails(w) BY <3>4, <2>2, <1>7 DEF Fails, Ends
    <3>5. CASE Skip(w) \/ Exit(w) \/ Close(w) BY <3>5, <2>2, <1>7 DEF Skip, Exit, Close
    <3> QED BY <3>1, <3>2, <3>3, <3>4, <3>5 DEF Step
  <2> QED BY <2>1, <2>2
<1> QED BY <1>2, <1>5, <1>6, <1>7 DEF Blamed

LEMMA InitPaid == Init => Paid /\ Blamed
  BY DEF Init, Paid, Blamed

LEMMA AlwaysPaid == Spec => [](Paid /\ Blamed)
<1>1. IInv /\ Paid /\ Blamed /\ [Next]_vars => (Paid /\ Blamed)'
  <2> SUFFICES ASSUME IInv, Paid, Blamed, [Next]_vars PROVE (Paid /\ Blamed)'
    OBVIOUS
  <2>1. CASE UNCHANGED vars BY <2>1 DEF vars, Paid, Blamed, Short
  <2>2. CASE Next BY <2>2, StepPaid, StepBlamed DEF Next
  <2> QED BY <2>1, <2>2
<1> QED BY <1>1, InitPaid, Inductive, PTL DEF Spec

(* Every `ok` entry rests on bytes of the budget that pay for its own tool *)
(* list and for no other, and the budget is not overdrawn for it           *)
(* (reserveResponseBytes and readToolCatalogTarget, toolCatalog.ts).       *)
THEOREM OkIsPaid == Spec => []OkMeansPaid
<1>1. IInv /\ Paid => OkMeansPaid
  <2> SUFFICES ASSUME IInv, Paid PROVE OkMeansPaid OBVIOUS
  <2>1. used \in Nat /\ MaxBytes \in Nat /\ used <= MaxBytes
    BY ScanAssumption DEF IInv, TypeOK, BudgetKept
  <2>2. 1..used \subseteq 1..MaxBytes BY <2>1, Numbers
  <2> QED BY <2>2 DEF Paid, OkMeansPaid
<1> QED BY <1>1, Inductive, AlwaysPaid, PTL

(* The budget is only blamed when it could not take one more answer.       *)
THEOREM IncompleteIsShort == Spec => []IncompleteMeansShort
<1>1. Blamed => IncompleteMeansShort BY DEF Blamed, Short, IncompleteMeansShort
<1> QED BY <1>1, AlwaysPaid, PTL

-----------------------------------------------------------------------------
(* How far a scan is from its end: the targets nobody has taken, the       *)
(* probes under way, the connections to close, the workers in their loop,  *)
(* the bytes that are left.                                                *)
Untaken == {i \in Targets : i >= nextIndex}
In(place) == {w \in Workers : at[w] = place}
Rank == <<Cardinality(Untaken), Cardinality(In("probe")), Cardinality(In("close")),
          Cardinality(In("loop")), MaxBytes - used>>

(* Every step of every worker brings the end of the scan nearer, however   *)
(* much a target that owes nothing talks meanwhile.                     *)
ScanComesToAnEnd == [][Lower(Rank', Rank)]_vars

(* A rank that is smaller at its first difference is lower.                *)
LEMMA LowerAt ==
    ASSUME NEW r, NEW s
    PROVE  /\ r[1] < s[1] => Lower(r, s)
           /\ r[1] = s[1] /\ r[2] < s[2] => Lower(r, s)
           /\ r[1] = s[1] /\ r[2] = s[2] /\ r[3] < s[3] => Lower(r, s)
           /\ r[1] = s[1] /\ r[2] = s[2] /\ r[3] = s[3] /\ r[4] < s[4] => Lower(r, s)
           /\ r[1] = s[1] /\ r[2] = s[2] /\ r[3] = s[3] /\ r[4] = s[4] /\ r[5] < s[5] => Lower(r, s)
<1>1. \A i \in 1..5 : r[i] < s[i] /\ (\A j \in 1..(i - 1) : r[j] = s[j]) => Lower(r, s)
  BY DEF Lower
<1>2. /\ \A j \in 1..(2 - 1) : j = 1
      /\ \A j \in 1..(3 - 1) : j = 1 \/ j = 2
      /\ \A j \in 1..(4 - 1) : j = 1 \/ j = 2 \/ j = 3
      /\ \A j \in 1..(5 - 1) : j = 1 \/ j = 2 \/ j = 3 \/ j = 4
      /\ 1..(1 - 1) = {}
  OBVIOUS
<1>3. 1 \in 1..5 /\ 2 \in 1..5 /\ 3 \in 1..5 /\ 4 \in 1..5 /\ 5 \in 1..5
  OBVIOUS
<1> QED
  BY <1>1, <1>2, <1>3, Zenon

(* The workers at one place, and the targets that are left, can be counted.*)
LEMMA Counted ==
    /\ IsFiniteSet(Untaken) /\ Cardinality(Untaken) \in Nat
    /\ \A place : IsFiniteSet(In(place)) /\ Cardinality(In(place)) \in Nat
<1>1. IsFiniteSet(Targets)
  BY TargetNumbers, FS_Interval
<1>2. Untaken \subseteq Targets /\ \A place : In(place) \subseteq Workers
  BY DEF Untaken, In
<1> QED
  BY <1>1, <1>2, ScanAssumption, FS_Subset, FS_CardinalityType

(* The rank is one.                                                        *)
LEMMA RankTypes == IInv => Rank \in Ranks
<1>1. IInv => MaxBytes - used \in Nat
  BY ScanAssumption DEF IInv, TypeOK, BudgetKept
<1> QED
  BY <1>1, Counted DEF Rank, Ranks

(* A set that loses an element, or changes not at all.                     *)
LEMMA OneLess ==
    ASSUME NEW S, IsFiniteSet(S), Cardinality(S) \in Nat, NEW x \in S
    PROVE  Cardinality(S \ {x}) < Cardinality(S)
  BY FS_RemoveElement

(* A worker that moves on is no longer where it was, and no other has      *)
(* moved.                                                                  *)
LEMMA WorkerMoves ==
    ASSUME IInv, NEW w \in Workers, NEW here, NEW there, here = at[w], there # here,
           at' = [at EXCEPT ![w] = there]
    PROVE  /\ Cardinality(In(here)') < Cardinality(In(here))
           /\ \A other : other \notin {here, there} => In(other)' = In(other)
<1>1. \A v \in Workers : at'[v] = IF v = w THEN there ELSE at[v]
  BY DEF IInv, TypeOK
<1>2. w \in In(here)
  BY DEF In
<1>3. In(here)' = In(here) \ {w}
  BY <1>1 DEF In
<1>4. Cardinality(In(here) \ {w}) < Cardinality(In(here))
  BY <1>2, Counted, OneLess
<1>5. \A other : other \notin {here, there} => In(other)' = In(other)
  BY <1>1 DEF In
<1> QED
  BY <1>3, <1>4, <1>5

(* One step of one worker.                                                 *)
LEMMA StepIsNearer == ASSUME IInv, NEW w \in Workers, Step(w) PROVE Lower(Rank', Rank)
<1>r. PICK r, s : r = Rank' /\ s = Rank
  OBVIOUS
<1>1. /\ s[1] = Cardinality(Untaken) /\ s[2] = Cardinality(In("probe"))
      /\ s[3] = Cardinality(In("close")) /\ s[4] = Cardinality(In("loop")) /\ s[5] = MaxBytes - used
  BY <1>r DEF Rank
<1>2. /\ r[1] = Cardinality(Untaken') /\ r[2] = Cardinality(In("probe")')
      /\ r[3] = Cardinality(In("close")') /\ r[4] = Cardinality(In("loop")') /\ r[5] = MaxBytes - used'
  BY <1>r DEF Rank
<1>3. ASSUME nextIndex \in Targets, nextIndex' = nextIndex + 1 PROVE Lower(r, s)
  <2>1. nextIndex \in Untaken
    BY <1>3, TargetNumbers DEF Untaken
  <2>2. Untaken' = Untaken \ {nextIndex}
    BY <1>3, TargetNumbers DEF Untaken
  <2>3. Cardinality(Untaken \ {nextIndex}) < Cardinality(Untaken)
    BY <2>1, Counted, OneLess
  <2> QED
    BY <1>1, <1>2, <2>2, <2>3, LowerAt
<1>4. CASE Probe(w) \/ Skip(w)
  BY <1>3, <1>4, <1>r DEF Probe, Skip
<1>5. CASE Exit(w)
  <2>1. at[w] = "loop" /\ at' = [at EXCEPT ![w] = "done"]
    BY <1>5 DEF Exit
  <2>2. Untaken = {} /\ Untaken' = {}
    <3>1. nextIndex \notin Targets /\ nextIndex' = nextIndex + 1 /\ nextIndex \in Nat \ {0}
      BY <1>5 DEF Exit, IInv, TypeOK
    <3> QED
      BY <3>1, TargetNumbers DEF Untaken
  <2>3. /\ Cardinality(In("loop")') < Cardinality(In("loop"))
        /\ In("probe")' = In("probe") /\ In("close")' = In("close")
    <3>1. "done" # "loop" /\ "probe" \notin {"loop", "done"} /\ "close" \notin {"loop", "done"}
      OBVIOUS
    <3>2. \A other : other \notin {"loop", "done"} => In(other)' = In(other)
      BY <2>1, <3>1, WorkerMoves
    <3>3. Cardinality(In("loop")') < Cardinality(In("loop"))
      BY <2>1, <3>1, WorkerMoves
    <3> QED
      BY <3>1, <3>2, <3>3
  <2> QED
    BY <1>1, <1>2, <1>r, <2>2, <2>3, LowerAt
<1>6. ASSUME at[w] = "probe", at' = [at EXCEPT ![w] = "close"], nextIndex' = nextIndex
      PROVE  Lower(r, s)
  <2>1. Cardinality(In("probe")') < Cardinality(In("probe"))
    BY <1>6, WorkerMoves
  <2>2. Untaken' = Untaken
    BY <1>6 DEF Untaken
  <2> QED
    BY <1>1, <1>2, <2>1, <2>2, LowerAt
<1>7. CASE Listed(w) \/ Fails(w)
  BY <1>6, <1>7, <1>r DEF Listed, Fails, Ends
<1>8. CASE Traffic(w)
  <2>1. nextIndex' = nextIndex
    BY <1>8 DEF Traffic
  <2>2. CASE at[w] = "probe" /\ at' = [at EXCEPT ![w] = "close"]
    BY <1>6, <1>r, <2>1, <2>2
  <2>3. CASE at' = at /\ used < used' /\ used' \in Nat
    <3>1. Untaken' = Untaken /\ \A place : In(place)' = In(place)
      BY <2>1, <2>3 DEF Untaken, In
    <3>2. MaxBytes - used' < MaxBytes - used
      <4>1. used \in Nat /\ MaxBytes \in Nat
        BY ScanAssumption DEF IInv, TypeOK
      <4>2. \A b, m, n \in Nat : m < n => b - n < b - m
        OBVIOUS
      <4>3. used' \in Nat /\ used < used'
        BY <2>3
      <4> QED
        BY <4>1, <4>2, <4>3
    <3> QED
      BY <1>1, <1>2, <1>r, <3>1, <3>2, LowerAt
  <2>4. ASSUME NEW bytes \in Sizes, Reserve(bytes) PROVE used < used' /\ used' \in Nat
    BY <2>4, ScanAssumption DEF Reserve, IInv, TypeOK
  <2> QED
    BY <1>8, <2>2, <2>3, <2>4 DEF Traffic, Ends
<1>9. CASE Close(w)
  <2>1. at[w] = "close" /\ at' = [at EXCEPT ![w] = "loop"] /\ nextIndex' = nextIndex
    BY <1>9 DEF Close
  <2>2. Cardinality(In("close")') < Cardinality(In("close")) /\ In("probe")' = In("probe")
    <3>1. "loop" # "close" /\ "probe" \notin {"close", "loop"}
      OBVIOUS
    <3>2. \A other : other \notin {"close", "loop"} => In(other)' = In(other)
      BY <2>1, <3>1, WorkerMoves
    <3>3. Cardinality(In("close")') < Cardinality(In("close"))
      BY <2>1, <3>1, WorkerMoves
    <3> QED
      BY <3>1, <3>2, <3>3
  <2>3. Untaken' = Untaken
    BY <2>1 DEF Untaken
  <2> QED
    BY <1>1, <1>2, <1>r, <2>2, <2>3, LowerAt
<1> QED
  BY <1>4, <1>5, <1>7, <1>8, <1>9 DEF Step

(* A scan takes finitely many steps, however many targets, workers and     *)
(* bytes there are and whatever the targets send                           *)
(* (src/src/toolCatalog.ts:523).                                           *)
THEOREM ScansComeToAnEnd == Spec => [](Rank \in Ranks) /\ ScanComesToAnEnd
<1>1. IInv /\ [Next]_vars => [Lower(Rank', Rank)]_vars
  BY StepIsNearer DEF Next
<1> QED
  BY <1>1, RankTypes, Inductive, PTL DEF Spec, ScanComesToAnEnd
=============================================================================
