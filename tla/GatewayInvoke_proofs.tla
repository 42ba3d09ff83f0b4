------------------------- MODULE GatewayInvoke_proofs -------------------------
(***************************************************************************)
(* Proofs about GatewayInvoke for every set of calls, requests, policy     *)
(* files and scopes and for every limit.                                   *)
(***************************************************************************)
EXTENDS GatewayInvoke, FiniteSetTheorems, SequenceTheorems, WellFoundedInduction, TLAPS

LimiterProofs == INSTANCE ConcurrencyLimiter_proofs WITH Callers <- Calls
(* Each call's step is a step of the shared limiter or leaves it alone.    *)
LEMMA CallsUseLimiter == Spec => Limiter!Spec
<1>1. Init => Limiter!Init
  BY DEF Init
<1>2. [Next]_vars => [Limiter!Next]_(Limiter!vars)
  <2> SUFFICES ASSUME [Next]_vars PROVE [Limiter!Next]_(Limiter!vars)
    OBVIOUS
  <2>1. CASE UNCHANGED vars
    BY <2>1 DEF vars, limiterVars, Limiter!vars
  <2>2. ASSUME NEW c \in Calls, Invoke(c) \/ Step(c) \/ TargetExecutes(c)
        PROVE  \/ Limiter!Acquire(c) \/ Limiter!TimerFires(c) \/ Limiter!Release(c)
               \/ UNCHANGED limiterVars
    <3>1. CASE LoadPolicy(c)
      BY <3>1 DEF LoadPolicy
    <3>2. CASE ResolveScope(c)
      BY <3>2 DEF ResolveScope
    <3>3. CASE SlotTimeout(c) \/ ReleaseSlot(c)
      BY <3>3 DEF SlotTimeout, ReleaseSlot
    <3>4. CASE Invoke(c) \/ SlotRefused(c) \/ OpenTransport(c) \/ Connect(c)
      BY <3>4 DEF Invoke, SlotRefused, OpenTransport, Connect
    <3>5. CASE ListTools(c) \/ Answer(c) \/ Fails(c) \/ TargetExecutes(c)
      BY <3>5 DEF ListTools, Answer, Fails, TargetExecutes
    <3>6. CASE CloseConnection(c) \/ AppendAudit(c) \/ Return(c)
      BY <3>6 DEF CloseConnection, AppendAudit, Return
    <3> QED
      BY <2>2, <3>1, <3>2, <3>3, <3>4, <3>5, <3>6 DEF Step
  <2> QED
    BY <2>1, <2>2 DEF Next, Limiter!Next, limiterVars, Limiter!vars
<1> QED
  BY <1>1, <1>2, PTL DEF Spec, Limiter!Spec

-----------------------------------------------------------------------------
(* The limiter's own theorems, carried over to the shared limiter.         *)
LEMMA LimiterConstants == LimiterProofs!IsFiniteSet(Calls) /\ Limit \in Nat \ {0}
  BY Zenon, GatewayAssumption DEF IsFiniteSet, LimiterProofs!IsFiniteSet

LEMMA SameLimiterNext ==
    [Limiter!Next]_(Limiter!vars) => [LimiterProofs!Next]_(LimiterProofs!vars)
<1>1. \A c : Limiter!Acquire(c) <=> LimiterProofs!Acquire(c)
  BY DEF Limiter!Acquire, LimiterProofs!Acquire, Limiter!GrantNow, LimiterProofs!GrantNow,
         Limiter!Enqueue, LimiterProofs!Enqueue
<1>2. \A c : Limiter!TimerFires(c) <=> LimiterProofs!TimerFires(c)
  BY Zenon DEF Limiter!TimerFires, LimiterProofs!TimerFires, Limiter!Settle,
         LimiterProofs!Settle, Limiter!RemoveAt, LimiterProofs!RemoveAt
<1>3. \A c : Limiter!Release(c) <=> LimiterProofs!Release(c)
  BY DEF Limiter!Release, LimiterProofs!Release, Limiter!Free, LimiterProofs!Free,
         Limiter!HandOver, LimiterProofs!HandOver
<1>4. Limiter!Next => LimiterProofs!Next
  BY <1>1, <1>2, <1>3 DEF Limiter!Next, LimiterProofs!Next
<1> QED
  BY <1>4 DEF Limiter!vars, LimiterProofs!vars

LEMMA SharedLimiterSound ==
    Spec => [](Limiter!TypeOK /\ Limiter!AtMostLimit /\ Limiter!QueueMatchesPromises)
<1>1. Limiter!Init => LimiterProofs!Init
  BY DEF Limiter!Init, LimiterProofs!Init
<1>2. LimiterProofs!TypeOK => Limiter!TypeOK
  BY DEF Limiter!TypeOK, LimiterProofs!TypeOK, Limiter!SlotState, LimiterProofs!SlotState
<1>3. LimiterProofs!AtMostLimit => Limiter!AtMostLimit
  BY Zenon DEF Limiter!AtMostLimit, LimiterProofs!AtMostLimit, Limiter!Holders,
         LimiterProofs!Holders, Limiter!Cardinality, LimiterProofs!Cardinality
<1>7. LimiterProofs!QueueMatchesPromises => Limiter!QueueMatchesPromises
  BY Zenon DEF Limiter!QueueMatchesPromises, LimiterProofs!QueueMatchesPromises,
         Limiter!Range, LimiterProofs!Range
<1>4. Limiter!Spec => LimiterProofs!Spec
  BY <1>1, SameLimiterNext, PTL DEF Limiter!Spec, LimiterProofs!Spec
<1>5. LimiterProofs!Spec => []LimiterProofs!TypeOK
  BY LimiterProofs!TypeCorrect, LimiterConstants
<1>6. LimiterProofs!Spec => [](LimiterProofs!SlotsAccounted /\ LimiterProofs!AtMostLimit)
  BY LimiterProofs!SlotsNeverLost, LimiterConstants
<1>8. LimiterProofs!Spec => []LimiterProofs!QueueMatchesPromises
  BY LimiterProofs!QueueFaithful, LimiterConstants
<1> QED
  BY <1>2, <1>3, <1>4, <1>5, <1>6, <1>7, <1>8, CallsUseLimiter, PTL

-----------------------------------------------------------------------------
(* The inductive invariant of one call, part by part.                      *)
Gate(c) ==
    LET policy == LoadGatewayPolicy(file[c][1])
        r == request[c][1]
    IN  policy.loaded /\ ~r.oversized /\ EvaluateGatewayPolicy(policy, r.server, r.tool)

Route(c) ==
    /\ request[c][1].server \in target[c][1].names
    /\ target[c][1].kind # "unsupported"
    /\ UrlAllowed(c, target[c][1])

(* The stage of a call tells what it holds.                                *)
Holding(c) ==
    /\ pc[c] \in {"idle", "policy", "scope"} => slot[c] = "idle" /\ target[c] = <<>>
    /\ pc[c] \in {"connect", "list", "call", "close", "release"} => slot[c] = "held"
    /\ pc[c] \in {"report", "done"} => slot[c] \in {"idle", "refused"}
    /\ conn[c] = "open" => pc[c] \in {"connect", "list", "call", "close"}

(* Nothing passes a gate it was not cleared for.                           *)
Clearance(c) ==
    /\ pc[c] = "scope" => Gate(c)
    /\ target[c] # <<>> => Gate(c) /\ Route(c)
    /\ pc[c] \in {"slot", "connect", "list", "call"} => target[c] # <<>>
    /\ sent[c] => target[c] # <<>> /\ pc[c] \in {"call", "close", "release", "report", "done"}
    /\ executed[c] => sent[c]

(* The verdict tells the truth about what was sent.                        *)
Truth(c) ==
    /\ verdict[c] = <<>> <=>
         pc[c] \in {"idle", "policy", "scope", "slot", "connect", "list", "call"}
    /\ verdict[c] # <<>> =>
         /\ verdict[c][1].delivered => executed[c]
         /\ verdict[c][1].outcome \notin {"ok", "target-error", "unreachable"} => ~sent[c]

(* What finish() made of the verdict.                                      *)
Reported(c) ==
    /\ audit[c] = "none" <=> verdict[c] = <<>>
    /\ audit[c] \in {"none", "pending"} => result[c] = <<>>
    /\ audit[c] \notin {"none", "pending"} => result[c] = <<Report(c, audit[c])>>
    /\ audit[c] = "disabled" => AuditDisabled
    /\ \A e \in log : e.call = c =>
         /\ audit[c] = "written"
         /\ e.outcome = verdict[c][1].outcome /\ e.delivered = verdict[c][1].delivered
    /\ audit[c] = "written" => \E e \in log : e.call = c

CallInv(c) == Holding(c) /\ Clearance(c) /\ Truth(c) /\ Reported(c)
IInv == TypeOK /\ \A c \in Calls : CallInv(c)

-----------------------------------------------------------------------------
(* A non-empty set of naturals has the minimum that Min picks.             *)
LEMMA MinOfNaturals == ASSUME NEW S \in SUBSET Nat, S # {} PROVE Min(S) \in S
<1> DEFINE R == {ss \in Nat \X Nat : ss[1] < ss[2]}
<1>1. IsWellFoundedOn(R, Nat)
  BY NatLessThanWellFounded, Zenon DEF OpToRel
<1>a. \A y, z \in Nat : y < z => <<y, z>> \in R
  OBVIOUS
<1> HIDE DEF R
<1>2. PICK x \in S : \A y \in S : <<y, x>> \notin R
  BY <1>1, WFMin
<1>3. \A y \in S : x <= y
  <2> TAKE y \in S
  <2>1. x \in Nat /\ y \in Nat
    OBVIOUS
  <2>2. ~(y < x)
    BY <1>a, <1>2, <2>1
  <2> QED
    BY <2>1, <2>2
<1> QED
  BY <1>3 DEF Min

LEMMA FoundTarget ==
    ASSUME NEW s \in Scopes, NEW name, FindGatewayTarget(s.targets, name) # <<>>
    PROVE  \E t \in Range(s.targets) :
              FindGatewayTarget(s.targets, name) = <<t>> /\ name \in t.names
<1> DEFINE named == {i \in DOMAIN s.targets : name \in s.targets[i].names}
<1>1. DOMAIN s.targets \subseteq Nat
  BY GatewayAssumption, LenProperties
<1>2. named # {} /\ FindGatewayTarget(s.targets, name) = <<s.targets[Min(named)]>>
  BY DEF FindGatewayTarget
<1>3. Min(named) \in named
  BY <1>1, <1>2, MinOfNaturals
<1> QED
  BY <1>2, <1>3 DEF Range

-----------------------------------------------------------------------------
LEMMA InitIInv == Init => IInv
<1> SUFFICES ASSUME Init PROVE IInv
  OBVIOUS
<1>1. Limiter!TypeOK
  BY LenProperties DEF Init, Limiter!Init, Limiter!TypeOK, Limiter!SlotState
<1>2. TypeOK
  BY <1>1 DEF Init, TypeOK, Stages, Optional
<1>3. \A c \in Calls : CallInv(c)
  BY DEF Init, Limiter!Init, CallInv, Holding, Clearance, Truth, Reported
<1> QED
  BY <1>2, <1>3 DEF IInv

LEMMA FinishType ==
    ASSUME TypeOK, NEW c \in Calls, NEW outcome \in Outcomes, NEW delivered \in BOOLEAN,
           NEW stage \in Stages, Finish(c, outcome, delivered, stage)
    PROVE  /\ verdict' \in [Calls -> Optional(Verdicts)]
           /\ audit' \in [Calls -> {"none", "pending", "written", "disabled", "failed"}]
           /\ pc' \in [Calls -> Stages]
<1>1. [outcome |-> outcome, delivered |-> delivered] \in Verdicts
  BY DEF Verdicts
<1>2. <<[outcome |-> outcome, delivered |-> delivered]>> \in Optional(Verdicts)
  BY <1>1 DEF Optional
<1> QED
  BY <1>2 DEF TypeOK, Finish, Goto
-----------------------------------------------------------------------------
(* What a step of another call leaves of call d.  Its slot may be granted  *)
(* by that step, nothing else of it changes.                               *)
SameCall(d) ==
    /\ pc'[d] = pc[d] /\ request'[d] = request[d] /\ file'[d] = file[d]
    /\ target'[d] = target[d] /\ conn'[d] = conn[d]
    /\ sent'[d] = sent[d] /\ executed'[d] = executed[d]
    /\ verdict'[d] = verdict[d] /\ audit'[d] = audit[d] /\ result'[d] = result[d]
    /\ slot'[d] = slot[d] \/ (slot[d] = "waiting" /\ slot'[d] = "held")
    /\ log \subseteq log'
    /\ \A e \in log' : e.call = d => e \in log

LEMMA LimiterSteps ==
    ASSUME Limiter!TypeOK, NEW c \in Calls,
           Limiter!Acquire(c) \/ Limiter!TimerFires(c) \/ Limiter!Release(c)
    PROVE  \A d \in Calls \ {c} :
              slot'[d] = slot[d] \/ (slot[d] = "waiting" /\ slot'[d] = "held")
<1> USE DEF Limiter!TypeOK
<1>1. CASE Limiter!GrantNow(c) \/ Limiter!Enqueue(c)
  BY <1>1 DEF Limiter!GrantNow, Limiter!Enqueue
<1>2. CASE Limiter!TimerFires(c)
  BY <1>2 DEF Limiter!TimerFires, Limiter!Settle
<1>3. CASE Limiter!HandOver(c)
  BY <1>3 DEF Limiter!HandOver
<1>4. CASE Limiter!Free(c)
  BY <1>4 DEF Limiter!Free
<1> QED
  BY <1>1, <1>2, <1>3, <1>4 DEF Limiter!Acquire, Limiter!Release

(* The two ways out of ResolveScope.                                       *)
LEMMA ScopeCases ==
    ASSUME NEW c \in Calls, ResolveScope(c)
    PROVE  \/ /\ \E outcome \in {"scope-unavailable", "unknown-server", "unsupported",
                                 "transport-denied"} : Refuse(c, outcome)
              /\ UNCHANGED <<target, limiterVars>>
           \/ \E t \in UNION {Range(s.targets) : s \in Scopes} :
                /\ target' = [target EXCEPT ![c] = <<t>>]
                /\ request[c][1].server \in t.names
                /\ t.kind # "unsupported" /\ UrlAllowed(c, t)
                /\ Limiter!Acquire(c) /\ Goto(c, "slot") /\ NoFinish
<1> DEFINE found(s) == FindGatewayTarget(s.targets, request[c][1].server)
<1>1. PICK s \in Scopes :
        \/ /\ \E outcome \in {"scope-unavailable", "unknown-server", "unsupported",
                              "transport-denied"} : Refuse(c, outcome)
           /\ UNCHANGED <<target, limiterVars>>
        \/ /\ found(s) # <<>> /\ found(s)[1].kind # "unsupported"
           /\ UrlAllowed(c, found(s)[1]) /\ target' = [target EXCEPT ![c] = found(s)]
           /\ Limiter!Acquire(c) /\ Goto(c, "slot") /\ NoFinish
  BY DEF ResolveScope
<1>2. ASSUME found(s) # <<>>
      PROVE  \E t \in UNION {Range(z.targets) : z \in Scopes} :
                found(s) = <<t>> /\ request[c][1].server \in t.names
  BY <1>2, FoundTarget
<1> HIDE DEF found
<1>3. CASE found(s) = <<>>
  BY <1>1, <1>3
<1>4. CASE found(s) # <<>>
  <2>1. PICK t \in UNION {Range(z.targets) : z \in Scopes} :
           found(s) = <<t>> /\ request[c][1].server \in t.names
    BY <1>2, <1>4
  <2> QED
    BY <1>1, <2>1
<1> QED
  BY <1>3, <1>4

LEMMA OtherCallsKept ==
    ASSUME TypeOK, NEW c \in Calls, NEW d \in Calls \ {c},
           Invoke(c) \/ Step(c) \/ TargetExecutes(c)
    PROVE  SameCall(d)
<1> USE DEF TypeOK, SameCall, Goto, Refuse, Finish, NoFinish, NoBackend, NoReport,
            inputVars, limiterVars
<1>1. CASE Invoke(c)
  BY <1>1 DEF Invoke
<1>2. CASE LoadPolicy(c)
  BY <1>2 DEF LoadPolicy
<1>3. CASE ResolveScope(c)
  <2>1. UNCHANGED <<request, file>> /\ NoBackend /\ NoReport
    BY <1>3 DEF ResolveScope
  <2> QED
    BY <1>3, <2>1, ScopeCases, LimiterSteps
<1>4. CASE SlotTimeout(c)
  BY <1>4, LimiterSteps DEF SlotTimeout
<1>5. CASE SlotRefused(c)
  BY <1>5 DEF SlotRefused
<1>6. CASE OpenTransport(c)
  BY <1>6 DEF OpenTransport
<1>7. CASE Connect(c)
  BY <1>7 DEF Connect
<1>8. CASE ListTools(c)
  BY <1>8 DEF ListTools
<1>9. CASE TargetExecutes(c)
  BY <1>9 DEF TargetExecutes
<1>10. CASE Answer(c)
  BY <1>10 DEF Answer
<1>11. CASE Fails(c)
  BY <1>11 DEF Fails
<1>12. CASE CloseConnection(c)
  BY <1>12 DEF CloseConnection
<1>13. CASE ReleaseSlot(c)
  BY <1>13, LimiterSteps DEF ReleaseSlot
<1>14. CASE AppendAudit(c)
  BY <1>14 DEF AppendAudit
<1>15. CASE Return(c)
  BY <1>15 DEF Return
<1> QED
  BY <1>1, <1>2, <1>3, <1>4, <1>5, <1>6, <1>7, <1>8, <1>9, <1>10, <1>11, <1>12,
     <1>13, <1>14, <1>15 DEF Step

LEMMA KeptInvariant ==
    ASSUME TypeOK, NEW d \in Calls, CallInv(d), SameCall(d)
    PROVE  CallInv(d)'
<1> USE DEF SameCall, CallInv
<1>1. Gate(d)' <=> Gate(d)
  BY DEF Gate
<1>2. Route(d)' <=> Route(d)
  BY DEF Route, UrlAllowed
<1>3. Holding(d)' /\ Truth(d)'
  BY DEF Holding, Truth
<1>4. Clearance(d)'
  BY <1>1, <1>2 DEF Clearance
<1>5. Reported(d)'
  BY DEF Reported, Report
<1> QED
  BY <1>3, <1>4, <1>5
-----------------------------------------------------------------------------
LEMMA TypeKept ==
    ASSUME TypeOK, Limiter!TypeOK', NEW c \in Calls, CallInv(c),
           Invoke(c) \/ Step(c) \/ TargetExecutes(c)
    PROVE  TypeOK'
<1> USE DEF TypeOK, Goto, NoFinish, NoBackend, NoReport, inputVars, Stages
<1>0. \A S : \A x \in S : <<x>> \in Optional(S)
  BY DEF Optional
<1>a. {"ok", "target-error", "unreachable", "unknown-tool", "policy-unavailable",
       "budget-exceeded", "policy-denied", "scope-unavailable", "unknown-server",
       "unsupported", "transport-denied", "audit-unavailable"} \subseteq Outcomes
  BY DEF Outcomes
<1>1. CASE Invoke(c)
  <2>1. PICK r \in Requests : request' = [request EXCEPT ![c] = <<r>>]
    BY <1>1 DEF Invoke
  <2>2. request' \in [Calls -> Optional(Requests)]
    BY <2>1, <1>0
  <2> QED
    BY <1>1, <2>2 DEF Invoke
<1>2. CASE LoadPolicy(c)
  <2>1. PICK f \in PolicyFiles : file' = [file EXCEPT ![c] = <<f>>]
    BY <1>2 DEF LoadPolicy
  <2>2. file' \in [Calls -> Optional(PolicyFiles)]
    BY <2>1, <1>0
  <2>3. \/ \E outcome \in {"policy-unavailable", "budget-exceeded", "policy-denied"} :
              Refuse(c, outcome)
        \/ Goto(c, "scope") /\ NoFinish
    BY <1>2 DEF LoadPolicy
  <2>4. /\ verdict' \in [Calls -> Optional(Verdicts)]
        /\ audit' \in [Calls -> {"none", "pending", "written", "disabled", "failed"}]
        /\ pc' \in [Calls -> Stages]
    BY <2>3, <1>a, FinishType DEF Refuse
  <2> QED
    BY <1>2, <2>2, <2>4 DEF LoadPolicy
<1>3. CASE ResolveScope(c)
  <2>1. UNCHANGED <<request, file>> /\ NoBackend /\ NoReport
    BY <1>3 DEF ResolveScope
  <2>2. CASE \E outcome \in {"scope-unavailable", "unknown-server", "unsupported",
                             "transport-denied"} : Refuse(c, outcome)
             /\ UNCHANGED <<target, limiterVars>>
    BY <2>1, <2>2, <1>a, FinishType DEF Refuse
  <2>3. CASE \E t \in UNION {Range(s.targets) : s \in Scopes} :
                target' = [target EXCEPT ![c] = <<t>>] /\ Goto(c, "slot") /\ NoFinish
    BY <2>1, <2>3, <1>0
  <2> QED
    BY <1>3, <2>2, <2>3, ScopeCases
<1>4. CASE SlotTimeout(c) \/ Connect(c) \/ ReleaseSlot(c) \/ Return(c)
  BY <1>4 DEF SlotTimeout, Connect, ReleaseSlot, Return
<1>5. CASE SlotRefused(c)
  BY <1>5, <1>a, FinishType DEF SlotRefused, Refuse
<1>6. CASE OpenTransport(c)
  BY <1>6, <1>a, FinishType DEF OpenTransport
<1>7. CASE ListTools(c)
  BY <1>7, <1>a, FinishType DEF ListTools
<1>8. CASE TargetExecutes(c)
  BY <1>8 DEF TargetExecutes
<1>9. CASE Answer(c)
  BY <1>9, <1>a, FinishType DEF Answer
<1>10. CASE Fails(c)
  BY <1>10, <1>a, FinishType DEF Fails
<1>11. CASE CloseConnection(c)
  BY <1>11 DEF CloseConnection
<1>12. CASE AppendAudit(c)
  <2>1. PICK status \in {"written", "disabled", "failed"} :
           /\ log' \subseteq log \union {[call |-> c, outcome |-> verdict[c][1].outcome,
                                          delivered |-> verdict[c][1].delivered]}
           /\ audit' = [audit EXCEPT ![c] = status]
           /\ result' = [result EXCEPT ![c] = <<Report(c, status)>>]
    BY <1>12 DEF AppendAudit
  <2>2. verdict[c] # <<>>
    BY <1>12 DEF AppendAudit, CallInv, Truth, Reported
  <2>3. verdict[c][1] \in Verdicts
    BY <2>2 DEF Optional
  <2>4. Report(c, status) \in Verdicts
    BY <2>3, <1>a DEF Report, Verdicts
  <2>5. result' \in [Calls -> Optional(Verdicts)]
    BY <2>1, <2>4, <1>0
  <2>6. log' \subseteq [call : Calls, outcome : Outcomes, delivered : BOOLEAN]
    BY <2>1, <2>3 DEF Verdicts
  <2>7. audit' \in [Calls -> {"none", "pending", "written", "disabled", "failed"}]
    BY <2>1
  <2> QED
    BY <1>12, <2>5, <2>6, <2>7 DEF AppendAudit
<1> QED
  BY <1>1, <1>2, <1>3, <1>4, <1>5, <1>6, <1>7, <1>8, <1>9, <1>10, <1>11, <1>12 DEF Step
-----------------------------------------------------------------------------
LEMMA ReleasedSlot ==
    ASSUME Limiter!TypeOK, NEW c \in Calls, Limiter!Release(c)
    PROVE  slot'[c] = "idle"
  BY DEF Limiter!TypeOK, Limiter!Release, Limiter!HandOver, Limiter!Free

(* The same parts, kept by a step that leaves what they speak of alone.    *)
LEMMA ClearanceKept ==
    ASSUME TypeOK, NEW c \in Calls, Clearance(c),
           request'[c] = request[c], file'[c] = file[c], target'[c] = target[c],
           pc'[c] # "scope", pc'[c] \in {"slot", "connect", "list", "call"} => target[c] # <<>>,
           sent'[c] => target[c] # <<>>
                       /\ pc'[c] \in {"call", "close", "release", "report", "done"},
           executed'[c] => sent'[c]
    PROVE  Clearance(c)'
<1>1. Gate(c)' <=> Gate(c)
  BY DEF Gate
<1>2. Route(c)' <=> Route(c)
  BY DEF Route, UrlAllowed
<1> QED
  BY <1>1, <1>2 DEF Clearance

LEMMA ReportedKept ==
    ASSUME TypeOK, NEW c \in Calls, Reported(c), UNCHANGED <<audit, verdict, log, result>>
    PROVE  Reported(c)'
  BY DEF Reported, Report

(* finish() is called once: before it there is no verdict, no audit entry, *)
(* no answer.                                                              *)
LEMMA FinishReported ==
    ASSUME TypeOK, NEW c \in Calls, CallInv(c), NEW outcome, NEW delivered, NEW stage,
           Finish(c, outcome, delivered, stage), verdict[c] = <<>>,
           UNCHANGED <<log, result>>
    PROVE  Reported(c)'
  BY DEF TypeOK, CallInv, Reported, Finish

LEMMA InvokeInv == ASSUME TypeOK, NEW c \in Calls, CallInv(c), Invoke(c) PROVE CallInv(c)'
<1> USE DEF CallInv, Invoke, TypeOK, Goto, NoFinish, NoBackend, NoReport, limiterVars
<1>1. Holding(c)' /\ Truth(c)'
  BY DEF Holding, Truth
<1>2. Clearance(c)'
  BY DEF Holding, Clearance
<1>3. Reported(c)'
  BY ReportedKept
<1> QED
  BY <1>1, <1>2, <1>3

LEMMA LoadPolicyInv ==
    ASSUME TypeOK, NEW c \in Calls, CallInv(c), LoadPolicy(c) PROVE CallInv(c)'
<1> USE DEF CallInv, TypeOK
<1>0. /\ pc[c] = "policy" /\ target[c] = <<>> /\ ~sent[c] /\ verdict[c] = <<>>
      /\ conn[c] # "open" /\ slot[c] = "idle" /\ ~executed[c]
      /\ UNCHANGED <<request, target, log, result, slot, conn, sent, executed>>
  BY DEF LoadPolicy, Holding, Clearance, Truth, NoBackend, NoReport, limiterVars
<1>1. PICK f \in PolicyFiles :
        /\ file' = [file EXCEPT ![c] = <<f>>]
        /\ \/ \E outcome \in {"policy-unavailable", "budget-exceeded", "policy-denied"} :
                 Refuse(c, outcome)
           \/ /\ LoadGatewayPolicy(f).loaded /\ ~request[c][1].oversized
              /\ EvaluateGatewayPolicy(LoadGatewayPolicy(f), request[c][1].server,
                                       request[c][1].tool)
              /\ Goto(c, "scope") /\ NoFinish
  BY DEF LoadPolicy
<1>2. file'[c][1] = f
  BY <1>1
<1>3. CASE \E outcome \in {"policy-unavailable", "budget-exceeded", "policy-denied"} :
             Refuse(c, outcome)
  <2>1. Reported(c)'
    BY <1>0, <1>3, FinishReported DEF Refuse
  <2>2. Holding(c)' /\ Truth(c)' /\ Clearance(c)'
    BY <1>0, <1>3 DEF Refuse, Finish, Goto, Holding, Truth, Clearance
  <2> QED
    BY <2>1, <2>2
<1>4. CASE /\ LoadGatewayPolicy(f).loaded /\ ~request[c][1].oversized
           /\ EvaluateGatewayPolicy(LoadGatewayPolicy(f), request[c][1].server,
                                    request[c][1].tool)
           /\ Goto(c, "scope") /\ NoFinish
  <2>1. Gate(c)'
    BY <1>0, <1>2, <1>4 DEF Gate
  <2>2. Holding(c)' /\ Truth(c)' /\ Clearance(c)'
    BY <1>0, <1>4, <2>1 DEF Goto, NoFinish, Holding, Truth, Clearance
  <2>3. Reported(c)'
    BY <1>0, <1>4, ReportedKept DEF NoFinish
  <2> QED
    BY <2>2, <2>3
<1> QED
  BY <1>1, <1>3, <1>4

LEMMA ResolveScopeInv ==
    ASSUME TypeOK, NEW c \in Calls, CallInv(c), ResolveScope(c) PROVE CallInv(c)'
<1> USE DEF CallInv, TypeOK
<1>0. /\ pc[c] = "scope" /\ target[c] = <<>> /\ ~sent[c] /\ verdict[c] = <<>>
      /\ conn[c] # "open" /\ slot[c] = "idle" /\ ~executed[c] /\ Gate(c)
      /\ UNCHANGED <<request, file, log, result, conn, sent, executed>>
  BY DEF ResolveScope, Holding, Clearance, Truth, NoBackend, NoReport
<1>1. Gate(c)'
  BY <1>0 DEF Gate
<1>2. CASE /\ \E outcome \in {"scope-unavailable", "unknown-server", "unsupported",
                              "transport-denied"} : Refuse(c, outcome)
           /\ UNCHANGED <<target, limiterVars>>
  <2>1. Reported(c)'
    BY <1>0, <1>2, FinishReported DEF Refuse
  <2>2. Holding(c)' /\ Truth(c)' /\ Clearance(c)'
    BY <1>0, <1>2 DEF Refuse, Finish, Goto, Holding, Truth, Clearance, limiterVars
  <2> QED
    BY <2>1, <2>2
<1>3. ASSUME NEW t \in UNION {Range(s.targets) : s \in Scopes},
             target' = [target EXCEPT ![c] = <<t>>], request[c][1].server \in t.names,
             t.kind # "unsupported", UrlAllowed(c, t), Goto(c, "slot"), NoFinish
      PROVE  CallInv(c)'
  <2>1. target'[c] = <<t>> /\ target'[c][1] = t
    BY <1>3
  <2>2. Route(c)'
    BY <1>0, <1>3, <2>1 DEF Route, UrlAllowed
  <2>3. Holding(c)' /\ Truth(c)' /\ Clearance(c)'
    BY <1>0, <1>1, <1>3, <2>1, <2>2 DEF Goto, NoFinish, Holding, Truth, Clearance
  <2>4. Reported(c)'
    BY <1>0, <1>3, ReportedKept DEF NoFinish
  <2> QED
    BY <2>3, <2>4
<1> QED
  BY <1>2, <1>3, ScopeCases

(* Before the request is sent: the slot, the transport, the connection.    *)
LEMMA SlotInv ==
    ASSUME TypeOK, NEW c \in Calls, CallInv(c), SlotTimeout(c) \/ SlotRefused(c)
    PROVE  CallInv(c)'
<1> USE DEF CallInv, TypeOK, NoBackend, NoReport, inputVars
<1>1. CASE SlotTimeout(c)
  <2> USE <1>1 DEF SlotTimeout, NoFinish
  <2>1. Holding(c)' /\ Truth(c)'
    BY DEF Holding, Truth
  <2>2. Clearance(c)' /\ Reported(c)'
    BY ClearanceKept, ReportedKept DEF Clearance
  <2> QED
    BY <2>1, <2>2
<1>2. CASE SlotRefused(c)
  <2> USE <1>2 DEF SlotRefused, Refuse, limiterVars
  <2>0. verdict[c] = <<>> /\ ~sent[c]
    BY DEF Truth, Clearance
  <2>1. pc' = [pc EXCEPT ![c] = "report"]
    BY DEF Finish, Goto
  <2>2. Holding(c)' /\ Truth(c)'
    BY <2>0, <2>1 DEF Holding, Truth, Finish
  <2>3. Clearance(c)'
    BY <2>0, <2>1, ClearanceKept DEF Clearance
  <2>4. Reported(c)'
    BY <2>0, FinishReported
  <2> QED
    BY <2>2, <2>3, <2>4
<1> QED
  BY <1>1, <1>2

LEMMA OpenTransportInv ==
    ASSUME TypeOK, NEW c \in Calls, CallInv(c), OpenTransport(c) PROVE CallInv(c)'
<1> USE DEF CallInv, TypeOK, NoReport, inputVars, limiterVars
<1>0. /\ pc[c] = "slot" /\ slot[c] = "held" /\ target[c] # <<>> /\ ~sent[c]
      /\ ~executed[c] /\ verdict[c] = <<>> /\ conn[c] # "open"
      /\ UNCHANGED <<sent, executed, request, file, target, slot, log, result>>
  BY DEF OpenTransport, Holding, Clearance, Truth
<1>1. CASE /\ conn' = [conn EXCEPT ![c] = "open"]
           /\ Goto(c, "connect") /\ NoFinish
  <2>1. Holding(c)' /\ Truth(c)'
    BY <1>0, <1>1 DEF Holding, Truth, Goto, NoFinish
  <2>2. Clearance(c)'
    BY <1>0, <1>1, ClearanceKept DEF Goto
  <2>3. Reported(c)'
    BY <1>0, <1>1, ReportedKept DEF NoFinish
  <2> QED
    BY <2>1, <2>2, <2>3
<1>2. CASE Finish(c, "unreachable", FALSE, "close") /\ UNCHANGED conn
  <2>1. Holding(c)' /\ Truth(c)'
    BY <1>0, <1>2 DEF Holding, Truth, Finish, Goto
  <2>2. Clearance(c)'
    BY <1>0, <1>2, ClearanceKept DEF Finish, Goto
  <2>3. Reported(c)'
    BY <1>0, <1>2, FinishReported
  <2> QED
    BY <2>1, <2>2, <2>3
<1> QED
  BY <1>1, <1>2 DEF OpenTransport

LEMMA ConnectInv == ASSUME TypeOK, NEW c \in Calls, CallInv(c), Connect(c) PROVE CallInv(c)'
<1> USE DEF CallInv, TypeOK, Connect, Goto, NoFinish, NoBackend, NoReport, inputVars,
            limiterVars
<1>1. Holding(c)' /\ Truth(c)'
  BY DEF Holding, Truth
<1>2. Clearance(c)'
  BY ClearanceKept DEF Clearance
<1>3. Reported(c)'
  BY ReportedKept
<1> QED
  BY <1>1, <1>2, <1>3

LEMMA ListToolsInv ==
    ASSUME TypeOK, NEW c \in Calls, CallInv(c), ListTools(c) PROVE CallInv(c)'
<1> USE DEF CallInv, TypeOK, NoReport, inputVars, limiterVars
<1>0. /\ pc[c] = "list" /\ slot[c] = "held" /\ target[c] # <<>> /\ ~sent[c]
      /\ ~executed[c] /\ verdict[c] = <<>>
      /\ UNCHANGED <<conn, executed, request, file, target, slot, log, result>>
  BY DEF ListTools, Holding, Clearance, Truth
<1>1. CASE sent' = [sent EXCEPT ![c] = TRUE] /\ Goto(c, "call") /\ NoFinish
  <2>1. Holding(c)' /\ Truth(c)'
    BY <1>0, <1>1 DEF Holding, Truth, Goto, NoFinish
  <2>2. Clearance(c)'
    BY <1>0, <1>1, ClearanceKept DEF Goto
  <2>3. Reported(c)'
    BY <1>0, <1>1, ReportedKept DEF NoFinish
  <2> QED
    BY <2>1, <2>2, <2>3
<1>2. CASE Finish(c, "unknown-tool", FALSE, "close") /\ UNCHANGED sent
  <2>1. Holding(c)' /\ Truth(c)'
    BY <1>0, <1>2 DEF Holding, Truth, Finish, Goto
  <2>2. Clearance(c)'
    BY <1>0, <1>2, ClearanceKept DEF Finish, Goto
  <2>3. Reported(c)'
    BY <1>0, <1>2, FinishReported
  <2> QED
    BY <2>1, <2>2, <2>3
<1> QED
  BY <1>1, <1>2 DEF ListTools

LEMMA TargetExecutesInv ==
    ASSUME TypeOK, NEW c \in Calls, CallInv(c), TargetExecutes(c) PROVE CallInv(c)'
<1> USE DEF CallInv, TypeOK, TargetExecutes, NoFinish, NoReport, inputVars, limiterVars
<1>1. Holding(c)' /\ Truth(c)'
  BY DEF Holding, Truth
<1>2. Clearance(c)'
  BY ClearanceKept DEF Clearance
<1>3. Reported(c)'
  BY ReportedKept
<1> QED
  BY <1>1, <1>2, <1>3

(* The end of the request, answered or not.                                *)
LEMMA AnswerInv ==
    ASSUME TypeOK, NEW c \in Calls, CallInv(c), Answer(c) \/ Fails(c) PROVE CallInv(c)'
<1> USE DEF CallInv, TypeOK, NoBackend, NoReport, inputVars, limiterVars
<1>0. /\ pc[c] \in {"connect", "list", "call"} /\ slot[c] = "held" /\ target[c] # <<>>
      /\ verdict[c] = <<>>
      /\ UNCHANGED <<conn, sent, executed, request, file, target, slot, log, result>>
  BY DEF Answer, Fails, Holding, Clearance, Truth
<1>1. PICK outcome \in {"ok", "target-error", "unreachable"}, delivered \in BOOLEAN :
         Finish(c, outcome, delivered, "close") /\ (delivered => executed[c])
  BY DEF Answer, Fails
<1>2. pc' = [pc EXCEPT ![c] = "close"] /\ verdict'[c] # <<>>
      /\ verdict'[c][1].outcome = outcome /\ verdict'[c][1].delivered = delivered
  BY <1>1 DEF Finish, Goto
<1>3. Holding(c)' /\ Truth(c)'
  BY <1>0, <1>1, <1>2 DEF Holding, Truth
<1>4. Clearance(c)'
  BY <1>0, <1>2, ClearanceKept DEF Clearance
<1>5. Reported(c)'
  BY <1>0, <1>1, FinishReported
<1> QED
  BY <1>3, <1>4, <1>5

(* The `finally` block, the audit append and the return.                   *)
LEMMA CleanupInv ==
    ASSUME TypeOK, NEW c \in Calls, CallInv(c),
           CloseConnection(c) \/ ReleaseSlot(c) \/ Return(c)
    PROVE  CallInv(c)'
<1> USE DEF CallInv, TypeOK, NoFinish, NoBackend, NoReport, inputVars, limiterVars
<1>0. /\ UNCHANGED <<audit, verdict, log, result, sent, executed, request, file, target>>
      /\ pc[c] \in {"close", "release", "report"}
  BY DEF CloseConnection, ReleaseSlot, Return
<1>1. pc'[c] \in {"release", "report", "done"}
  BY DEF CloseConnection, ReleaseSlot, Return, Goto
<1>2. Truth(c)'
  BY <1>0, <1>1 DEF Truth
<1>3. Clearance(c)'
  BY <1>0, <1>1, ClearanceKept DEF Clearance
<1>4. Reported(c)'
  BY <1>0, ReportedKept
<1>5. Holding(c)'
  <2>1. CASE CloseConnection(c)
    BY <2>1 DEF CloseConnection, Holding, Goto
  <2>2. CASE ReleaseSlot(c)
    BY <2>2, ReleasedSlot DEF ReleaseSlot, Holding, Goto
  <2>3. CASE Return(c)
    BY <2>3 DEF Return, Holding, Goto
  <2> QED
    BY <2>1, <2>2, <2>3
<1> QED
  BY <1>2, <1>3, <1>4, <1>5

LEMMA AppendAuditInv ==
    ASSUME TypeOK, NEW c \in Calls, CallInv(c), AppendAudit(c) PROVE CallInv(c)'
<1> USE DEF CallInv, TypeOK, NoBackend, inputVars, limiterVars
<1>a. audit[c] = "pending" /\ UNCHANGED <<pc, verdict, conn, sent, executed, request, file,
                                          target, slot>>
  BY DEF AppendAudit
<1>0. /\ verdict[c] # <<>> /\ \A e \in log : e.call # c
      /\ UNCHANGED <<pc, verdict, conn, sent, executed, request, file, target, slot>>
  BY <1>a DEF Reported
<1>1. Holding(c)' /\ Truth(c)'
  BY <1>0 DEF Holding, Truth
<1>2. Clearance(c)'
  BY <1>0, ClearanceKept DEF Clearance, Truth
<1>3. PICK status \in {"written", "disabled", "failed"} :
        /\ AuditDisabled <=> status = "disabled"
        /\ log' = IF status = "written"
                  THEN log \union {[call |-> c, outcome |-> verdict[c][1].outcome,
                                    delivered |-> verdict[c][1].delivered]}
                  ELSE log
        /\ audit' = [audit EXCEPT ![c] = status]
        /\ result' = [result EXCEPT ![c] = <<Report(c, status)>>]
  BY DEF AppendAudit
<1>4. Report(c, status)' = Report(c, status)
  BY <1>0 DEF Report
<1>5. audit'[c] = status /\ result'[c] = <<Report(c, status)'>>
  BY <1>3, <1>4
<1>6. (\A e \in log' : e.call = c => /\ status = "written"
                                     /\ e.outcome = verdict'[c][1].outcome
                                     /\ e.delivered = verdict'[c][1].delivered)
      /\ (status = "written" => \E e \in log' : e.call = c)
  <2>1. CASE status = "written"
    <3> DEFINE entry == [call |-> c, outcome |-> verdict[c][1].outcome,
                         delivered |-> verdict[c][1].delivered]
    <3>1. /\ entry.call = c /\ entry.outcome = verdict'[c][1].outcome
          /\ entry.delivered = verdict'[c][1].delivered
      BY <1>0
    <3>2. log' = log \union {entry}
      BY <1>3, <2>1
    <3> HIDE DEF entry
    <3> QED
      BY <1>0, <2>1, <3>1, <3>2
  <2>2. CASE status # "written"
    BY <1>0, <1>3, <2>2
  <2> QED
    BY <2>1, <2>2
<1>7. Reported(c)'
  BY <1>0, <1>3, <1>5, <1>6 DEF Reported
<1> QED
  BY <1>1, <1>2, <1>7

-----------------------------------------------------------------------------
LEMMA NextIInv == IInv /\ [Next]_vars /\ Limiter!TypeOK' => IInv'
<1> SUFFICES ASSUME IInv, [Next]_vars, Limiter!TypeOK' PROVE IInv'
  OBVIOUS
<1>1. CASE UNCHANGED vars
  <2>1. TypeOK'
    BY <1>1 DEF IInv, TypeOK, vars, inputVars, limiterVars
  <2>2. ASSUME NEW d \in Calls PROVE CallInv(d)'
    <3>1. SameCall(d)
      BY <1>1 DEF SameCall, vars, inputVars, limiterVars
    <3> QED
      BY <3>1, KeptInvariant DEF IInv
  <2> QED
    BY <2>1, <2>2 DEF IInv
<1>2. ASSUME NEW c \in Calls, Invoke(c) \/ Step(c) \/ TargetExecutes(c)
      PROVE  IInv'
  <2>1. TypeOK'
    BY <1>2, TypeKept DEF IInv
  <2>2. CallInv(c)'
    BY <1>2, InvokeInv, LoadPolicyInv, ResolveScopeInv, SlotInv, OpenTransportInv, ConnectInv,
       ListToolsInv, TargetExecutesInv, AnswerInv, CleanupInv, AppendAuditInv DEF IInv, Step
  <2>3. ASSUME NEW d \in Calls \ {c} PROVE CallInv(d)'
    BY <1>2, OtherCallsKept, KeptInvariant DEF IInv
  <2> QED
    BY <2>1, <2>2, <2>3 DEF IInv
<1> QED
  BY <1>1, <1>2 DEF Next

LEMMA Inductive == Spec => []IInv
<1> QED
  BY InitIInv, NextIInv, SharedLimiterSound, PTL DEF Spec

-----------------------------------------------------------------------------
(* The variables keep their types, the limiter's included.                 *)
THEOREM TypeCorrect == Spec => []TypeOK
<1>1. IInv => TypeOK
  BY DEF IInv
<1> QED
  BY <1>1, Inductive, PTL

(* No tool runs that its call's policy file, request budget, server scope  *)
(* and transport policy did not all clear.                                 *)
THEOREM OnlyClearedCallsExecute == Spec => []ExecutedOnlyWhenCleared
<1>1. IInv => ExecutedOnlyWhenCleared
  BY DEF IInv, CallInv, Clearance, Gate, Route, ExecutedOnlyWhenCleared
<1> QED
  BY <1>1, Inductive, PTL

(* A refusal is one: the target never got the request.                     *)
THEOREM RefusalsAreNotSent == Spec => []RefusedMeansNotSent
<1>1. IInv => RefusedMeansNotSent
  <2> SUFFICES ASSUME IInv, NEW c \in Calls, NEW v \in Range(result[c]),
                      v.outcome \notin {"ok", "target-error", "unreachable", "audit-unavailable"}
               PROVE  ~sent[c]
    BY DEF RefusedMeansNotSent
  <2>1. result[c] # <<>>
    BY DEF Range
  <2>2. result[c] = <<Report(c, audit[c])>> /\ verdict[c] # <<>>
    BY <2>1 DEF IInv, CallInv, Reported
  <2>3. v = Report(c, audit[c])
    BY <2>2 DEF Range
  <2>4. v.outcome = verdict[c][1].outcome
    BY <2>3 DEF Report
  <2> QED
    BY <2>2, <2>4 DEF IInv, CallInv, Truth
<1> QED
  BY <1>1, Inductive, PTL

(* "delivered" is never claimed of a call that did not reach the target.   *)
THEOREM DeliveryIsTrue == Spec => []DeliveredMeansExecuted
<1>1. IInv => DeliveredMeansExecuted
  <2> SUFFICES ASSUME IInv, NEW c \in Calls, NEW v \in Range(result[c]), v.delivered
               PROVE  executed[c]
    BY DEF DeliveredMeansExecuted
  <2>1. result[c] # <<>>
    BY DEF Range
  <2>2. result[c] = <<Report(c, audit[c])>> /\ verdict[c] # <<>>
    BY <2>1 DEF IInv, CallInv, Reported
  <2>3. v = Report(c, audit[c])
    BY <2>2 DEF Range
  <2>4. v.delivered = verdict[c][1].delivered
    BY <2>3 DEF Report
  <2> QED
    BY <2>2, <2>4 DEF IInv, CallInv, Truth
<1> QED
  BY <1>1, Inductive, PTL

(* The audit log and the answers agree.                                    *)
THEOREM AuditIsFaithful == Spec => []AuditAgreesWithAnswer
<1>1. IInv => AuditAgreesWithAnswer
  <2> SUFFICES ASSUME IInv, NEW c \in Calls, NEW v \in Range(result[c])
               PROVE  /\ \A e \in log : e.call = c =>
                           e.outcome = v.outcome /\ e.delivered = v.delivered
                      /\ (\A e \in log : e.call # c) =>
                           AuditDisabled \/ (AuditRequired => v.outcome = "audit-unavailable")
    BY DEF AuditAgreesWithAnswer
  <2>1. result[c] # <<>>
    BY DEF Range
  <2>2. result[c] = <<Report(c, audit[c])>> /\ audit[c] \notin {"none", "pending"}
    BY <2>1 DEF IInv, CallInv, Reported
  <2>3. v = Report(c, audit[c])
    BY <2>2 DEF Range
  <2>4. audit[c] \in {"written", "disabled", "failed"}
    BY <2>2 DEF IInv, TypeOK
  <2>5. CASE audit[c] = "written"
    BY <2>3, <2>5 DEF IInv, CallInv, Reported, Report
  <2>6. CASE audit[c] = "disabled"
    BY <2>6 DEF IInv, CallInv, Reported
  <2>7. CASE audit[c] = "failed"
    BY <2>3, <2>7 DEF IInv, CallInv, Reported, Report
  <2> QED
    BY <2>4, <2>5, <2>6, <2>7
<1> QED
  BY <1>1, Inductive, PTL

(* No more backend connections at once than the limiter has slots.         *)
THEOREM ConnectionsWithinBudget == Spec => []ConnectionsBounded
<1>1. IInv /\ Limiter!AtMostLimit => ConnectionsBounded
  <2> SUFFICES ASSUME IInv, Limiter!AtMostLimit PROVE ConnectionsBounded
    OBVIOUS
  <2> DEFINE open == {c \in Calls : conn[c] = "open"}
             holders == {c \in Calls : slot[c] = "held"}
  <2>1. open \subseteq holders
    BY DEF IInv, CallInv, Holding
  <2>2. Cardinality(holders) <= Limit
    BY Zenon DEF Limiter!AtMostLimit, Limiter!Holders, Limiter!Cardinality, Cardinality
  <2> HIDE DEF open, holders
  <2>3. IsFiniteSet(holders)
    BY GatewayAssumption, FS_Subset DEF holders
  <2>4. Cardinality(open) <= Cardinality(holders) /\ Cardinality(open) \in Nat
        /\ Cardinality(holders) \in Nat
    BY <2>1, <2>3, FS_Subset, FS_CardinalityType
  <2> QED
    BY <2>2, <2>4, GatewayAssumption DEF open, ConnectionsBounded
<1> QED
  BY <1>1, Inductive, SharedLimiterSound, PTL

(* A call that returned holds no connection, no slot and no queue entry.   *)
THEOREM NothingIsLeftBehind == Spec => []NothingLeftBehind
<1>1. IInv /\ Limiter!QueueMatchesPromises => NothingLeftBehind
  <2> SUFFICES ASSUME IInv, Limiter!QueueMatchesPromises, NEW c \in Calls, pc[c] = "done"
               PROVE  /\ conn[c] # "open" /\ slot[c] \notin {"held", "waiting"}
                      /\ c \notin Range(waiting)
    BY DEF NothingLeftBehind
  <2>1. conn[c] # "open" /\ slot[c] \in {"idle", "refused"}
    BY DEF IInv, CallInv, Holding
  <2>2. c \notin Range(waiting)
    BY <2>1 DEF Limiter!QueueMatchesPromises, Limiter!Range, Range
  <2> QED
    BY <2>1, <2>2
<1> QED
  BY <1>1, Inductive, SharedLimiterSound, PTL
=============================================================================
