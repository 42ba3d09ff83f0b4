---------------------------- MODULE BridgeRun_proofs ----------------------------
(* The safety properties of BridgeRun, and that a question takes finitely  *)
(* many steps, for every set of interpreters and every machine they are    *)
(* run on.                                                                 *)
EXTENDS BridgeRun, Ranks, TLAPS

-----------------------------------------------------------------------------
(* The stage tells which interpreters have been tried: the configured one, *)
(* and python3 only after a python that is not there.                      *)
TriedInOrder ==
    /\ Len(tried) <= 2
    /\ Len(tried) > 0 => tried[1] = python
    /\ Len(tried) = 2 => tried[2] = "python3" /\ python = "python"
    /\ stage = "ask" => Len(tried) = 0
    /\ stage \in {"wait", "decide"} => Len(tried) > 0
    /\ stage = "spawn" => Len(tried) < 2 /\ (Len(tried) = 1 => python = "python")
    /\ stage \in {"spawn", "wait", "decide"} => configured
    /\ result = <<"clear">> => stage = "done" /\ configured
    /\ stage = "done" /\ configured => Len(tried) > 0

(* What the last child is, and that it is the only one that may be alive.  *)
LastChild ==
    /\ \A i \in Interpreters : child[i] = "alive" => stage = "wait" /\ i = Current
    /\ stage \in {"wait", "decide"} =>
         (child[Current] = "failed" <=> spawning[Current] # "starts")
    /\ stage \in {"wait", "decide"} => child[Current] # "none"
    /\ stage = "decide" => settled # "no" /\ (settled = "error" <=> child[Current] = "failed")
    /\ stage = "wait" => settled = "no" /\ spawning[Current] # "throws"

(* Reading never gets ahead of writing.                                    *)
ReadWasWritten ==
    /\ stdout = "all" => written = "all"
    /\ stdout # "nothing" => written # "nothing"

Inv ==
    /\ TypeOK /\ TriedInOrder /\ LastChild /\ ReadWasWritten
    /\ ClearWasSaid /\ AbsentPythonIsNoReason

-----------------------------------------------------------------------------
LEMMA InitTypeOK == Init => TypeOK
  BY BridgeAssumption DEF Init, TypeOK, Amounts

LEMMA InitInv == Init => Inv
  BY InitTypeOK DEF Init, Inv, TriedInOrder, LastChild, ReadWasWritten, ClearWasSaid,
     AbsentPythonIsNoReason, Done

LEMMA TypeStep == TypeOK /\ [Next]_vars => TypeOK'
<1> SUFFICES ASSUME TypeOK, [Next]_vars PROVE TypeOK' OBVIOUS
<1> USE BridgeAssumption DEF TypeOK, Amounts, Verdicts
<1>1. CASE Ask
  BY <1>1 DEF Ask, FailClosed, Give, machine, process
<1>2. CASE Spawn
  <2>1. Candidate \in Interpreters BY DEF Candidate
  <2>2. tried' \in Seq(Interpreters) BY <1>2, <2>1 DEF Spawn
  <2> QED BY <1>2, <2>1, <2>2 DEF Spawn, Give, machine
<1>3. CASE Write
  BY <1>3 DEF Write, machine
<1>4. CASE Exit
  BY <1>4 DEF Exit, machine
<1>5. CASE Data
  BY <1>5 DEF Data, machine
<1>6. CASE Timeout
  BY <1>6 DEF Timeout, Settle, machine
<1>7. CASE ErrorEvent
  BY <1>7 DEF ErrorEvent, Settle, machine, process
<1>8. CASE CloseEvent
  BY <1>8 DEF CloseEvent, Settle, machine, process
<1>9. CASE Retry
  BY <1>9 DEF Retry, machine, process
<1>10. CASE Parse
  BY <1>10 DEF Parse, FailClosed, Give, machine, process
<1>11. CASE UNCHANGED vars
  BY <1>11 DEF vars, machine, process
<1> QED BY <1>1, <1>2, <1>3, <1>4, <1>5, <1>6, <1>7, <1>8, <1>9, <1>10, <1>11 DEF Next

LEMMA OrderStep == Inv /\ [Next]_vars => TriedInOrder'
<1> SUFFICES ASSUME Inv, [Next]_vars PROVE TriedInOrder' OBVIOUS
<1> TypeOK BY DEF Inv
<1> TriedInOrder BY DEF Inv
<1> Len(tried) \in Nat BY DEF TypeOK
<1> USE DEF TriedInOrder
<1>1. CASE Ask
  BY <1>1 DEF Ask, FailClosed, Give, machine, process
<1>2. CASE Spawn
  <2>1. /\ Len(tried') = Len(tried) + 1
        /\ tried'[Len(tried) + 1] = Candidate
        /\ Len(tried) = 1 => tried'[1] = tried[1]
    BY <1>2 DEF Spawn, TypeOK
  <2>2. Candidate = IF Len(tried) = 0 THEN python ELSE "python3" BY DEF Candidate, TypeOK
  <2>3. <<"rejected">> # <<"clear">> OBVIOUS
  <2>4. stage = "spawn" /\ stage' \in {"wait", "done"} /\ UNCHANGED <<python, configured>>
    BY <1>2 DEF Spawn, Give, machine
  <2>5. result' # <<"clear">>
    BY <1>2, <2>3 DEF Spawn, Give
  <2>6. Len(tried) = 0 \/ Len(tried) = 1
    <3>1. \A n \in Nat : n < 2 => n = 0 \/ n = 1 OBVIOUS
    <3> QED BY <3>1, <2>4
  <2> QED BY <2>1, <2>2, <2>4, <2>5, <2>6
<1>3. CASE Write
  BY <1>3 DEF Write, machine
<1>4. CASE Exit
  BY <1>4 DEF Exit, machine
<1>5. CASE Data
  BY <1>5 DEF Data, machine
<1>6. CASE Timeout
  BY <1>6 DEF Timeout, Settle, machine
<1>7. CASE ErrorEvent
  BY <1>7 DEF ErrorEvent, Settle, machine, process
<1>8. CASE CloseEvent
  BY <1>8 DEF CloseEvent, Settle, machine, process
<1>9. CASE Retry
  <2>1. stage = "decide" /\ stage' = "spawn" /\ Len(tried) = 1 /\ python = "python"
    BY <1>9 DEF Retry, Retries
  <2>2. UNCHANGED <<python, configured, tried, result>> BY <1>9 DEF Retry, machine
  <2>3. ~(1 < 1) /\ 1 < 2 OBVIOUS
  <2> QED BY <2>1, <2>2, <2>3
<1>10. CASE Parse
  BY <1>10 DEF Parse, FailClosed, Give, machine, process
<1>11. CASE UNCHANGED vars
  BY <1>11 DEF vars, machine, process
<1> QED BY <1>1, <1>2, <1>3, <1>4, <1>5, <1>6, <1>7, <1>8, <1>9, <1>10, <1>11 DEF Next

LEMMA ChildStep == Inv /\ [Next]_vars => LastChild'
<1> SUFFICES ASSUME Inv, [Next]_vars PROVE LastChild' OBVIOUS
<1> TypeOK BY DEF Inv
<1> TriedInOrder BY DEF Inv
<1> LastChild BY DEF Inv
<1> stage # "ask" /\ Len(tried) > 0 => Current \in Interpreters BY DEF TypeOK, Current
<1> USE DEF TypeOK, TriedInOrder, LastChild
<1>1. CASE Ask
  BY <1>1 DEF Ask, FailClosed, Give, machine, process, Current
<1>2. CASE Spawn
  <2>1. Current' = Candidate BY <1>2 DEF Spawn, Current
  <2>2. Candidate \in Interpreters BY BridgeAssumption DEF Candidate
  <2> QED BY <1>2, <2>1, <2>2 DEF Spawn, Give, machine
<1>3. CASE Write
  BY <1>3 DEF Write, machine, Current
<1>4. CASE Exit
  BY <1>4 DEF Exit, machine, Current, Running
<1>5. CASE Data
  BY <1>5 DEF Data, machine, Current
<1>6. CASE Timeout
  BY <1>6 DEF Timeout, Settle, machine, Current
<1>7. CASE ErrorEvent
  BY <1>7 DEF ErrorEvent, Settle, machine, process, Current
<1>8. CASE CloseEvent
  BY <1>8 DEF CloseEvent, Settle, machine, process, Current
<1>9. CASE Retry
  BY <1>9 DEF Retry, machine, process, Current
<1>10. CASE Parse
  BY <1>10 DEF Parse, FailClosed, Give, machine, process, Current
<1>11. CASE UNCHANGED vars
  BY <1>11 DEF vars, machine, process, Current
<1> QED BY <1>1, <1>2, <1>3, <1>4, <1>5, <1>6, <1>7, <1>8, <1>9, <1>10, <1>11 DEF Next

LEMMA WordStep == Inv /\ [Next]_vars => ReadWasWritten' /\ ClearWasSaid'
<1> SUFFICES ASSUME Inv, [Next]_vars PROVE ReadWasWritten' /\ ClearWasSaid' OBVIOUS
<1> TypeOK BY DEF Inv
<1> TriedInOrder BY DEF Inv
<1> LastChild BY DEF Inv
<1> ReadWasWritten /\ ClearWasSaid BY DEF Inv
<1> USE DEF TypeOK, TriedInOrder, LastChild, ReadWasWritten, ClearWasSaid, Amounts
<1>1. CASE Ask
  BY <1>1 DEF Ask, FailClosed, Give, machine, process
<1>2. CASE Spawn
  <2>1. <<"rejected">> # <<"clear">> OBVIOUS
  <2> QED BY <1>2, <2>1 DEF Spawn, Give, machine
<1>3. CASE Write
  BY <1>3 DEF Write, machine, Current
<1>4. CASE Exit
  BY <1>4 DEF Exit, machine, Current
<1>5. CASE Data
  BY <1>5 DEF Data, machine, Current
<1>6. CASE Timeout
  BY <1>6 DEF Timeout, Settle, machine, Current
<1>7. CASE ErrorEvent
  BY <1>7 DEF ErrorEvent, Settle, machine, process, Current
<1>8. CASE CloseEvent
  BY <1>8 DEF CloseEvent, Settle, machine, process, Current
<1>9. CASE Retry
  BY <1>9 DEF Retry, machine, process, Current
<1>10. CASE Parse
  BY <1>10 DEF Parse, FailClosed, Give, machine, process, Current
<1>11. CASE UNCHANGED vars
  BY <1>11 DEF vars, machine, process, Current
<1> QED BY <1>1, <1>2, <1>3, <1>4, <1>5, <1>6, <1>7, <1>8, <1>9, <1>10, <1>11 DEF Next

(* With the default interpreter missing, the last attempt is python3: a    *)
(* first attempt ends in `error` and is tried again.                       *)
LEMMA PythonStep == Inv /\ [Next]_vars => AbsentPythonIsNoReason'
<1> SUFFICES ASSUME Inv, [Next]_vars, ~AbsentPythonIsNoReason' PROVE FALSE OBVIOUS
<1>1. TypeOK /\ TriedInOrder /\ LastChild /\ AbsentPythonIsNoReason BY DEF Inv
<1>2. TriedInOrder' BY OrderStep
<1>3. TypeOK' BY <1>1, TypeStep
<1>4. /\ stage' = "done" /\ configured' /\ python' = "python"
      /\ spawning'["python"] = "ENOENT" /\ "python3" \notin {tried'[i] : i \in DOMAIN tried'}
  BY DEF AbsentPythonIsNoReason, Done
<1>5. Len(tried') # 2
  <2>1. Len(tried') = 2 => tried'[2] = "python3" /\ 2 \in DOMAIN tried'
    BY <1>2, <1>3 DEF TriedInOrder, TypeOK
  <2> QED BY <2>1, <1>4
<1>6. Len(tried') = 1
  <2>1. Len(tried') \in Nat BY <1>3 DEF TypeOK
  <2>2. Len(tried') > 0 /\ Len(tried') <= 2 BY <1>2, <1>4 DEF TriedInOrder
  <2>3. \A n \in Nat : n > 0 /\ n <= 2 => n = 1 \/ n = 2 OBVIOUS
  <2> QED BY <2>1, <2>2, <2>3, <1>5
<1>7. UNCHANGED <<python, configured, spawning>>
  BY DEF Next, Ask, Spawn, Write, Exit, Data, Timeout, ErrorEvent, CloseEvent, Retry, Parse,
         vars, machine
<1>8. CASE stage = "done" /\ UNCHANGED <<stage, tried>>
  BY <1>1, <1>4, <1>7, <1>8 DEF AbsentPythonIsNoReason, Done
<1>9. CASE Ask
  BY <1>4, <1>7, <1>9, <1>1, <1>6 DEF Ask, TriedInOrder, FailClosed, Give, vars, TypeOK
<1>10. CASE Spawn
  <2>1. spawning[Candidate] = "throws" BY <1>4, <1>10 DEF Spawn, Give
  <2>2. tried' = Append(tried, Candidate) /\ Len(tried) \in Nat
    BY <1>1, <1>10 DEF Spawn, TypeOK
  <2>3. Len(tried') = Len(tried) + 1 BY <2>2, <1>1 DEF TypeOK
  <2>4. Len(tried) = 0 BY <2>2, <2>3, <1>6
  <2>5. tried = <<>> BY <2>4, <1>1 DEF TypeOK
  <2>6. Candidate = "python" BY <2>5, <1>4, <1>7 DEF Candidate
  <2> QED BY <2>1, <2>6, <1>4, <1>7
<1>11. CASE Parse
  <2>1. tried' = tried /\ stage = "decide" /\ ~Retries BY <1>11 DEF Parse
  <2>2. tried[1] = "python" /\ Len(tried) = 1 /\ Current = "python"
    BY <2>1, <1>6, <1>1, <1>4, <1>7 DEF TriedInOrder, Current
  <2>3. child["python"] = "failed" BY <2>1, <2>2, <1>1, <1>4, <1>7 DEF LastChild
  <2>4. settled = "error" BY <2>1, <2>2, <2>3, <1>1 DEF LastChild
  <2> QED BY <2>1, <2>2, <2>4, <1>4, <1>7 DEF Retries, NotFound
<1> QED
  BY <1>4, <1>8, <1>9, <1>10, <1>11 DEF Next, Write, Exit, Data, Timeout, ErrorEvent,
     CloseEvent, Retry, Settle, process, vars

LEMMA InvStep == Inv /\ [Next]_vars => Inv'
  BY TypeStep, OrderStep, ChildStep, WordStep, PythonStep DEF Inv

(* Every reachable state satisfies the invariant.                          *)
THEOREM Invariance == Spec => []Inv
  BY InitInv, InvStep, PTL DEF Spec

(* The variables keep their types (state of runBridge and spawnBridge,     *)
(* controlroom.ts:102-198).                                                *)
THEOREM TypeCorrect == Spec => []TypeOK
<1> Inv => TypeOK BY DEF Inv
<1> QED BY Invariance, PTL

(* `clear` is only ever what the bridge printed in full in the attempt     *)
(* that answered (controlroom.ts:20, runBridge).                           *)
THEOREM ClearIsTheBridgesWord == Spec => []ClearWasSaid
<1> Inv => ClearWasSaid BY DEF Inv
<1> QED BY Invariance, PTL

(* A query that has returned leaves no child running that was not told to  *)
(* stop (spawnBridge's timer, error and close).                            *)
THEOREM ChildrenEnd == Spec => []NoChildForgotten
<1> Inv => NoChildForgotten BY DEF Inv, LastChild, NoChildForgotten, Done
<1> QED BY Invariance, PTL

(* A missing `python` is followed by `python3` (controlroom.ts:164).       *)
THEOREM Python3IsTried == Spec => []AbsentPythonIsNoReason
<1> Inv => AbsentPythonIsNoReason BY DEF Inv
<1> QED BY Invariance, PTL

-----------------------------------------------------------------------------
(* How far a question is from its end: the stages and attempts ahead, what *)
(* the child has not written, what has not been read, a child that runs.   *)
Ahead(at, attempts) ==
    CASE at = "ask" -> 9
      [] at = "spawn" -> 8 - 3 * attempts
      [] at = "wait" -> 10 - 3 * attempts
      [] at = "decide" -> 9 - 3 * attempts
      [] at = "done" -> 0
Phase == Ahead(stage, Len(tried))
Missing(amount) == CASE amount = "nothing" -> 2 [] amount = "part" -> 1 [] amount = "all" -> 0
Rank == <<Phase, Missing(written), Missing(stdout), IF Running THEN 1 ELSE 0, 0>>

(* Every step of the question, its child and its timer brings its end      *)
(* nearer: no interpreter is tried a third time.                           *)
QuestionComesToAnEnd == [][Lower(Rank', Rank)]_vars

(* A rank that is smaller at its first difference is lower.                *)
LEMMA LowerAt ==
    ASSUME NEW r, NEW s
    PROVE  /\ r[1] < s[1] => Lower(r, s)
           /\ r[1] = s[1] /\ r[2] < s[2] => Lower(r, s)
           /\ r[1] = s[1] /\ r[2] = s[2] /\ r[3] < s[3] => Lower(r, s)
           /\ r[1] = s[1] /\ r[2] = s[2] /\ r[3] = s[3] /\ r[4] < s[4] => Lower(r, s)
           /\ r[1] = s[1] /\ r[2] = s[2] /\ r[3] = s[3] /\ r[4] = s[4] /\ r[5] < s[5] => Lower(r, s)
<1>1. \A i \in 1..5 : r[i] < s[i] /\ (\A j \in 1..(i - 1) : r[j] = s[j]) => Lower(r, s)
  BY DEF Lower
<1>2. /\ \A j \in 1..(2 - 1) : j = 1
      /\ \A j \in 1..(3 - 1) : j = 1 \/ j = 2
      /\ \A j \in 1..(4 - 1) : j = 1 \/ j = 2 \/ j = 3
      /\ \A j \in 1..(5 - 1) : j = 1 \/ j = 2 \/ j = 3 \/ j = 4
      /\ 1..(1 - 1) = {}
  OBVIOUS
<1>3. 1 \in 1..5 /\ 2 \in 1..5 /\ 3 \in 1..5 /\ 4 \in 1..5 /\ 5 \in 1..5
  OBVIOUS
<1> QED
  BY <1>1, <1>2, <1>3, Zenon

(* Each stage is nearer to the end than the one before it.                 *)
LEMMA Stages ==
    \A n \in {0, 1, 2} :
        /\ Ahead("ask", n) = 9 /\ Ahead("spawn", n) = 8 - 3 * n /\ Ahead("wait", n) = 10 - 3 * n
        /\ Ahead("decide", n) = 9 - 3 * n /\ Ahead("done", n) = 0
  BY DEF Ahead

(* At most two attempts, and a spawn only before the last.                 *)
LEMMA Attempts ==
    ASSUME Inv
    PROVE  /\ stage \in {"ask", "spawn", "wait", "decide", "done"}
           /\ Len(tried) \in {0, 1, 2}
           /\ stage = "spawn" => Len(tried) \in {0, 1}
<1>1. Len(tried) \in Nat /\ stage \in {"ask", "spawn", "wait", "decide", "done"}
  BY DEF Inv, TypeOK
<1>2. Len(tried) <= 2 /\ (stage = "spawn" => Len(tried) < 2)
  BY DEF Inv, TriedInOrder
<1>3. \A n \in Nat : n <= 2 => n \in {0, 1, 2} /\ (n < 2 => n \in {0, 1})
  OBVIOUS
<1> QED
  BY <1>1, <1>2, <1>3

(* The phase is a number.                                                  *)
LEMMA PhaseIsNumber == ASSUME Inv PROVE Phase \in Nat
<1>1. PICK n \in {0, 1, 2} : n = Len(tried) /\ (stage = "spawn" => n \in {0, 1})
  BY Attempts
<1>2. /\ 9 \in Nat /\ 0 \in Nat /\ 10 - 3 * n \in Nat /\ 9 - 3 * n \in Nat
      /\ n \in {0, 1} => 8 - 3 * n \in Nat
  OBVIOUS
<1> QED
  BY <1>1, <1>2, Attempts, Stages DEF Phase

(* What is missing grows less with every part.                             *)
LEMMA Missed ==
    /\ Missing("nothing") = 2 /\ Missing("part") = 1 /\ Missing("all") = 0
    /\ \A amount \in Amounts : Missing(amount) \in Nat
  BY DEF Missing, Amounts

(* The rank is one.                                                        *)
LEMMA RankTypes == ASSUME Inv PROVE Rank \in Ranks
<1>1. written \in Amounts /\ stdout \in Amounts
  BY DEF Inv, TypeOK
<1>2. (IF Running THEN 1 ELSE 0) \in Nat
  OBVIOUS
<1> QED
  BY <1>1, <1>2, PhaseIsNumber, Missed DEF Rank, Ranks

(* One step of the question, the child, its pipe or the timer.             *)
LEMMA StepIsNearer == ASSUME Inv, Next PROVE Lower(Rank', Rank)
<1>r. PICK r, s : r = Rank' /\ s = Rank
  OBVIOUS
<1>1. /\ s[1] = Phase /\ s[2] = Missing(written) /\ s[3] = Missing(stdout)
      /\ s[4] = IF Running THEN 1 ELSE 0
  BY <1>r DEF Rank
<1>2. /\ r[1] = Phase' /\ r[2] = Missing(written') /\ r[3] = Missing(stdout')
      /\ r[4] = IF Running' THEN 1 ELSE 0
  BY <1>r DEF Rank, Missing
<1>3. ASSUME stage' = stage, tried' = tried PROVE r[1] = s[1]
  BY <1>1, <1>2, <1>3 DEF Phase
<1>4. ASSUME Phase' < Phase PROVE Lower(Rank', Rank)
  BY <1>1, <1>2, <1>4, <1>r, LowerAt
<1>5. PICK n \in {0, 1, 2} : n = Len(tried) /\ (stage = "spawn" => n \in {0, 1})
  BY Attempts
<1>6. CASE Ask
  <2>1. stage = "ask" /\ \/ stage' = "spawn" /\ tried' = tried
                         \/ stage' = "done" /\ tried' = tried
    BY <1>6 DEF Ask, FailClosed, Give
  <2>2. Phase = 9 /\ (Phase' = 8 - 3 * n \/ Phase' = 0)
    BY <1>5, <2>1, Stages DEF Phase
  <2> QED
    BY <1>4, <2>2
<1>7. CASE Spawn
  <2>1. stage = "spawn" /\ stage' \in {"wait", "done"} /\ tried' = Append(tried, Candidate)
    BY <1>7 DEF Spawn, Give
  <2>2. Len(tried') = n + 1 /\ n + 1 \in {0, 1, 2} /\ n \in {0, 1}
    BY <1>5, <2>1 DEF Inv, TypeOK
  <2>3. Phase = 8 - 3 * n /\ (Phase' = 10 - 3 * (n + 1) \/ Phase' = 0)
    BY <1>5, <2>1, <2>2, Stages DEF Phase
  <2> QED
    BY <1>4, <2>2, <2>3
<1>8. CASE Timeout \/ ErrorEvent \/ CloseEvent
  <2>1. stage = "wait" /\ stage' = "decide" /\ tried' = tried
    BY <1>8 DEF Timeout, ErrorEvent, CloseEvent, Settle
  <2>2. Phase = 10 - 3 * n /\ Phase' = 9 - 3 * n
    BY <1>5, <2>1, Stages DEF Phase
  <2> QED
    BY <1>4, <2>2
<1>9. CASE Retry
  <2>1. stage = "decide" /\ stage' = "spawn" /\ tried' = tried
    BY <1>9 DEF Retry
  <2>2. Phase = 9 - 3 * n /\ Phase' = 8 - 3 * n
    BY <1>5, <2>1, Stages DEF Phase
  <2> QED
    BY <1>4, <2>2
<1>10. CASE Parse
  <2>1. stage = "decide" /\ stage' = "done" /\ tried' = tried
    BY <1>10 DEF Parse, FailClosed, Give
  <2>2. Phase = 9 - 3 * n /\ Phase' = 0
    BY <1>5, <2>1, Stages DEF Phase
  <2> QED
    BY <1>4, <2>2
<1>11. CASE Write
  <2>1. /\ stage' = stage /\ tried' = tried
        /\ \/ written = "nothing" /\ written' \in {"part", "all"}
           \/ written = "part" /\ written' = "all"
    BY <1>11 DEF Write
  <2>2. r[2] < s[2]
    BY <1>1, <1>2, <2>1, Missed
  <2> QED
    BY <1>r, <1>3, <2>1, <2>2, LowerAt
<1>12. CASE Data
  <2>1. /\ stage' = stage /\ tried' = tried /\ written' = written
        /\ stdout # written /\ stdout' # stdout
        /\ stdout' \in {written, IF written = "all" THEN "part" ELSE written}
    BY <1>12 DEF Data
  <2>2. written \in Amounts /\ stdout \in Amounts /\ ReadWasWritten
    BY DEF Inv, TypeOK
  <2>3. \/ stdout = "nothing" /\ stdout' \in {"part", "all"}
        \/ stdout = "part" /\ stdout' = "all"
    BY <2>1, <2>2 DEF ReadWasWritten, Amounts
  <2>4. r[3] < s[3]
    BY <1>1, <1>2, <2>3, Missed
  <2> QED
    BY <1>r, <1>1, <1>2, <1>3, <2>1, <2>4, LowerAt
<1>13. CASE Exit
  <2>1. /\ Running /\ stage' = stage /\ tried' = tried /\ written' = written /\ stdout' = stdout
        /\ child' = [child EXCEPT ![Current] = "exited"]
    BY <1>13 DEF Exit
  <2>2. ~Running'
    <3>1. tried' # <<>> /\ Current' = Current
      BY <2>1 DEF Running, Current
    <3>2. Current \in Interpreters
      BY <2>1 DEF Running, Current, Inv, TypeOK
    <3>3. child'[Current] = "exited"
      BY <2>1, <3>2 DEF Inv, TypeOK
    <3> QED
      BY <3>1, <3>3 DEF Running
  <2>3. r[4] < s[4]
    BY <1>1, <1>2, <2>1, <2>2
  <2> QED
    BY <1>r, <1>1, <1>2, <1>3, <2>1, <2>3, LowerAt
<1> QED
  BY <1>6, <1>7, <1>8, <1>9, <1>10, <1>11, <1>12, <1>13 DEF Next

(* A question takes finitely many steps, whatever the interpreters and     *)
(* however the child, its pipe and the timer race                          *)
(* (src/src/controlroom.ts:148).                                           *)
THEOREM QuestionsComeToAnEnd == Spec => [](Rank \in Ranks) /\ QuestionComesToAnEnd
<1>1. Inv /\ [Next]_vars => [Lower(Rank', Rank)]_vars
  BY StepIsNearer
<1> QED
  BY <1>1, RankTypes, Invariance, PTL DEF Spec, QuestionComesToAnEnd
=============================================================================
