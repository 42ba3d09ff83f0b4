---------------------------- MODULE GatewayInvoke ----------------------------
(***************************************************************************)
(* invokeGatewayTool of src/src/gateway.ts: any number of tool calls       *)
(* forwarded concurrently by one process.  The steps of one call follow    *)
(* the function from await to await.  The calls share the concurrency      *)
(* limiter and the audit log; the policy file and the server scope are     *)
(* read afresh by every call and may change between two reads.             *)
(*                                                                         *)
(* A call that obtained a slot runs two things at once at its end: finish()*)
(* appends the audit entry while the `finally` block closes the connection *)
(* and releases the slot.                                                  *)
(***************************************************************************)
EXTENDS GatewayPolicy

CONSTANTS
    Calls,          \* the invocations
    Limit,          \* budgets.maxConcurrentInvocations
    Requests,       \* [server, tool, oversized]: what a caller may ask for
    PolicyFiles,    \* what a read of the policy file may find
    Scopes,         \* [error, targets]: what resolving the server scope may yield
    AuditDisabled,  \* the audit log path is "off"
    AuditRequired   \* ELLMOS_GATEWAY_AUDIT_REQUIRED is set

ASSUME GatewayAssumption ==
    /\ Limit \in Nat \ {0}
    /\ IsFiniteSet(Calls)
    /\ AuditDisabled \in BOOLEAN /\ AuditRequired \in BOOLEAN
    /\ \A s \in Scopes : s.targets \in Seq(Range(s.targets))

VARIABLES
    pc,        \* where each call is
    request,   \* the caller's request, as <<r>>
    file,      \* the policy file as the call read it, as <<f>>
    target,    \* the target the call resolved to, as <<t>>
    conn,      \* "none", "open" or "closed"
    sent,      \* the tools/call request has left the gateway
    executed,  \* the target has run the tool
    verdict,   \* what finish() was called with, as <<v>>
    audit,     \* the call's audit append
    log,       \* the audit log
    result,    \* what finish() resolves to, as <<v>>
    active, waiting, slot   \* the shared limiter

limiterVars == <<active, waiting, slot>>
inputVars == <<request, file, target>>
vars == <<pc, inputVars, conn, sent, executed, verdict, audit, log, result, limiterVars>>

Limiter == INSTANCE ConcurrencyLimiter WITH Callers <- Calls

Outcomes == {"ok", "target-error", "unknown-server", "unknown-tool", "unreachable",
             "unsupported", "policy-denied", "policy-unavailable", "scope-unavailable",
             "audit-unavailable", "budget-exceeded", "transport-denied"}
Verdicts == [outcome : Outcomes, delivered : BOOLEAN]
Stages == {"idle", "policy", "scope", "slot", "connect", "list", "call", "close", "release",
           "report", "done"}
Optional(S) == {<<>>} \union {<<x>> : x \in S}

TypeOK ==
    /\ pc \in [Calls -> Stages]
    /\ request \in [Calls -> Optional(Requests)]
    /\ file \in [Calls -> Optional(PolicyFiles)]
    /\ target \in [Calls -> Optional(UNION {Range(s.targets) : s \in Scopes})]
    /\ conn \in [Calls -> {"none", "open", "closed"}]
    /\ sent \in [Calls -> BOOLEAN]
    /\ executed \in [Calls -> BOOLEAN]
    /\ verdict \in [Calls -> Optional(Verdicts)]
    /\ audit \in [Calls -> {"none", "pending", "written", "disabled", "failed"}]
    /\ log \subseteq [call : Calls, outcome : Outcomes, delivered : BOOLEAN]
    /\ result \in [Calls -> Optional(Verdicts)]
    /\ Limiter!TypeOK

Init ==
    /\ pc = [c \in Calls |-> "idle"]
    /\ request = [c \in Calls |-> <<>>]
    /\ file = [c \in Calls |-> <<>>]
    /\ target = [c \in Calls |-> <<>>]
    /\ conn = [c \in Calls |-> "none"]
    /\ sent = [c \in Calls |-> FALSE]
    /\ executed = [c \in Calls |-> FALSE]
    /\ verdict = [c \in Calls |-> <<>>]
    /\ audit = [c \in Calls |-> "none"]
    /\ log = {}
    /\ result = [c \in Calls |-> <<>>]
    /\ Limiter!Init

-----------------------------------------------------------------------------
(* Operators named Broken... are plausible mistakes in the definition that *)
(* follows them; no specification uses them.  PROJECT.json names the       *)
(* property that rejects each one.                                         *)

Goto(c, stage) == pc' = [pc EXCEPT ![c] = stage]

(* finish(): the audit append starts; what happens next depends on whether *)
(* the `return finish(...)` stands inside the try block.                   *)
Finish(c, outcome, delivered, stage) ==
    /\ verdict' = [verdict EXCEPT ![c] = <<[outcome |-> outcome, delivered |-> delivered]>>]
    /\ audit' = [audit EXCEPT ![c] = "pending"]
    /\ Goto(c, stage)

Refuse(c, outcome) == Finish(c, outcome, FALSE, "report")

NoFinish == UNCHANGED <<audit, verdict>>
NoBackend == UNCHANGED <<conn, sent, executed>>
NoReport == UNCHANGED <<log, result>>

-----------------------------------------------------------------------------
Invoke(c) ==
    /\ pc[c] = "idle"
    /\ \E r \in Requests : request' = [request EXCEPT ![c] = <<r>>]
    /\ Goto(c, "policy")
    /\ UNCHANGED <<file, target, limiterVars>> /\ NoFinish /\ NoBackend /\ NoReport

BrokenLoadPolicy(c) ==
    /\ pc[c] = "policy"
    /\ \E f \in PolicyFiles :
        LET r == request[c][1]
        IN  /\ file' = [file EXCEPT ![c] = <<f>>]
            /\ IF r.oversized THEN Refuse(c, "budget-exceeded")
               ELSE IF ~EvaluateGatewayPolicy(LoadGatewayPolicy(f), r.server, r.tool)
                    THEN Refuse(c, "policy-denied")
                    ELSE Goto(c, "scope") /\ NoFinish
    /\ UNCHANGED <<request, target, limiterVars>> /\ NoBackend /\ NoReport

(* From the policy read to the next await: policy, request budget, rules.  *)
LoadPolicy(c) ==
    /\ pc[c] = "policy"
    /\ \E f \in PolicyFiles :
        LET r == request[c][1]
            policy == LoadGatewayPolicy(f)
            allowed == EvaluateGatewayPolicy(policy, r.server, r.tool)
        IN  /\ file' = [file EXCEPT ![c] = <<f>>]
            /\ \/ ~policy.loaded /\ Refuse(c, "policy-unavailable")
               \/ policy.loaded /\ r.oversized /\ Refuse(c, "budget-exceeded")
               \/ policy.loaded /\ ~r.oversized /\ ~allowed /\ Refuse(c, "policy-denied")
               \/ policy.loaded /\ ~r.oversized /\ allowed /\ Goto(c, "scope") /\ NoFinish
    /\ UNCHANGED <<request, target, limiterVars>> /\ NoBackend /\ NoReport

UrlAllowed(c, t) ==
    \A url \in Range(t.url) :
        CheckRemoteTargetUrl(url, LoadGatewayPolicy(file[c][1]).hosts)

(* From the resolved scope to limiter.acquire(): find the target, check    *)
(* its transport, ask for a slot.                                          *)
ResolveScope(c) ==
    /\ pc[c] = "scope"
    /\ \E s \in Scopes :
        LET found == FindGatewayTarget(s.targets, request[c][1].server)
            t == found[1]
            refused(outcome) == Refuse(c, outcome) /\ UNCHANGED <<target, limiterVars>>
        IN  \/ s.error /\ refused("scope-unavailable")
            \/ ~s.error /\ found = <<>> /\ refused("unknown-server")
            \/ ~s.error /\ found # <<>> /\ t.kind = "unsupported" /\ refused("unsupported")
            \/ ~s.error /\ found # <<>> /\ t.kind # "unsupported" /\ ~UrlAllowed(c, t)
                 /\ refused("transport-denied")
            \/ /\ ~s.error /\ found # <<>>
               /\ t.kind # "unsupported" /\ UrlAllowed(c, t)
               /\ target' = [target EXCEPT ![c] = found]
               /\ Limiter!Acquire(c)
               /\ Goto(c, "slot") /\ NoFinish
    /\ UNCHANGED <<request, file>> /\ NoBackend /\ NoReport

(* The limiter's timer for this call.                                      *)
SlotTimeout(c) ==
    /\ pc[c] = "slot"
    /\ Limiter!TimerFires(c)
    /\ UNCHANGED <<pc, inputVars>> /\ NoFinish /\ NoBackend /\ NoReport

(* acquire() resolved to false.                                            *)
SlotRefused(c) ==
    /\ pc[c] = "slot"
    /\ slot[c] = "refused"
    /\ Refuse(c, "budget-exceeded")
    /\ UNCHANGED <<inputVars, limiterVars>> /\ NoBackend /\ NoReport

(* acquire() resolved to true: createTransport, which opens the connection *)
(* or throws (a configured process supervisor that does not exist).        *)
OpenTransport(c) ==
    /\ pc[c] = "slot"
    /\ slot[c] = "held"
    /\ \/ /\ conn' = [conn EXCEPT ![c] = "open"]
          /\ Goto(c, "connect") /\ NoFinish
       \/ /\ target[c][1].kind = "stdio"
          /\ Finish(c, "unreachable", FALSE, "close")
          /\ UNCHANGED conn
    /\ UNCHANGED <<sent, executed, inputVars, limiterVars>> /\ NoReport

Connect(c) ==
    /\ pc[c] = "connect"
    /\ Goto(c, "list")
    /\ UNCHANGED <<inputVars, limiterVars>> /\ NoFinish /\ NoBackend /\ NoReport

BrokenListTools(c) ==
    /\ pc[c] = "list"
    /\ sent' = [sent EXCEPT ![c] = TRUE]
    /\ \E offered \in SUBSET Tools :
        IF request[c][1].tool \in offered
        THEN Goto(c, "call") /\ NoFinish
        ELSE Finish(c, "unknown-tool", FALSE, "close")
    /\ UNCHANGED <<conn, executed, inputVars, limiterVars>> /\ NoReport

(* The target's own tool list decides whether the call is sent.            *)
ListTools(c) ==
    /\ pc[c] = "list"
    /\ \E offered \in SUBSET Tools :
        \/ /\ request[c][1].tool \in offered
           /\ sent' = [sent EXCEPT ![c] = TRUE]
           /\ Goto(c, "call") /\ NoFinish
        \/ /\ request[c][1].tool \notin offered
           /\ Finish(c, "unknown-tool", FALSE, "close")
           /\ UNCHANGED sent
    /\ UNCHANGED <<conn, executed, inputVars, limiterVars>> /\ NoReport

(* The target works on its own schedule.  A stdio target dies with its     *)
(* connection; a remote one may run a request it received earlier.         *)
TargetExecutes(c) ==
    /\ sent[c] /\ ~executed[c]
    /\ conn[c] = "open" \/ target[c][1].kind = "http"
    /\ executed' = [executed EXCEPT ![c] = TRUE]
    /\ UNCHANGED <<pc, conn, sent, inputVars, limiterVars>> /\ NoFinish /\ NoReport

BrokenAnswer(c) ==
    /\ pc[c] = "call"
    /\ Finish(c, "ok", TRUE, "close")
    /\ UNCHANGED <<inputVars, limiterVars>> /\ NoBackend /\ NoReport

(* callTool resolves: the target's result, an error result included.       *)
Answer(c) ==
    /\ pc[c] = "call"
    /\ executed[c]
    /\ \E outcome \in {"ok", "target-error"} : Finish(c, outcome, TRUE, "close")
    /\ UNCHANGED <<inputVars, limiterVars>> /\ NoBackend /\ NoReport

BrokenFails(c) ==
    /\ pc[c] \in {"connect", "list"}
    /\ Finish(c, "unreachable", FALSE, "close")
    /\ UNCHANGED <<inputVars, limiterVars>> /\ NoBackend /\ NoReport

(* connect, listTools or callTool rejects: the request timeout, a broken   *)
(* connection, a protocol error.                                           *)
Fails(c) ==
    /\ pc[c] \in {"connect", "list", "call"}
    /\ Finish(c, "unreachable", FALSE, "close")
    /\ UNCHANGED <<inputVars, limiterVars>> /\ NoBackend /\ NoReport

-----------------------------------------------------------------------------
BrokenCloseConnection(c) ==
    /\ pc[c] = "close"
    /\ Limiter!Release(c)
    /\ Goto(c, "release")
    /\ UNCHANGED <<inputVars>> /\ NoFinish /\ NoBackend /\ NoReport

BrokenNothingClosed(c) ==
    /\ pc[c] = "close"
    /\ Goto(c, "release")
    /\ UNCHANGED <<inputVars, limiterVars>> /\ NoFinish /\ NoBackend /\ NoReport

(* finally: client.close() and transport.close(), whatever they throw.     *)
CloseConnection(c) ==
    /\ pc[c] = "close"
    /\ conn' = [conn EXCEPT ![c] = IF @ = "open" THEN "closed" ELSE @]
    /\ Goto(c, "release")
    /\ UNCHANGED <<sent, executed, inputVars, limiterVars>> /\ NoFinish /\ NoReport

ReleaseSlot(c) ==
    /\ pc[c] = "release"
    /\ Limiter!Release(c)
    /\ Goto(c, "report")
    /\ UNCHANGED inputVars /\ NoFinish /\ NoBackend /\ NoReport

(* What finish() makes of the append: a failed write replaces the outcome  *)
(* when the audit is required, but never what is said about delivery.      *)
Report(c, status) ==
    LET v == verdict[c][1]
        replaced == status = "failed" /\ AuditRequired
    IN  [outcome |-> IF replaced THEN "audit-unavailable" ELSE v.outcome,
         delivered |-> v.delivered]

BrokenAppendAudit(c) ==
    /\ audit[c] = "pending"
    /\ log' = log \union {[call |-> c, outcome |-> "ok", delivered |-> verdict[c][1].delivered]}
    /\ audit' = [audit EXCEPT ![c] = "written"]
    /\ result' = [result EXCEPT ![c] = verdict[c]]
    /\ UNCHANGED <<pc, verdict, inputVars, limiterVars>> /\ NoBackend

(* appendGatewayAuditEntry settles, and with it finish().                  *)
AppendAudit(c) ==
    /\ audit[c] = "pending"
    /\ \E status \in {"written", "disabled", "failed"} :
        /\ AuditDisabled <=> status = "disabled"
        /\ log' = IF status = "written"
                  THEN log \union {[call |-> c, outcome |-> verdict[c][1].outcome,
                                    delivered |-> verdict[c][1].delivered]}
                  ELSE log
        /\ audit' = [audit EXCEPT ![c] = status]
        /\ result' = [result EXCEPT ![c] = <<Report(c, status)>>]
    /\ UNCHANGED <<pc, verdict, inputVars, limiterVars>> /\ NoBackend

(* The caller gets its answer once finish() and `finally` are both through. *)
Return(c) ==
    /\ pc[c] = "report"
    /\ result[c] # <<>>
    /\ Goto(c, "done")
    /\ UNCHANGED <<inputVars, limiterVars>> /\ NoFinish /\ NoBackend /\ NoReport

-----------------------------------------------------------------------------
Step(c) ==
    \/ LoadPolicy(c) \/ ResolveScope(c)
    \/ SlotTimeout(c) \/ SlotRefused(c) \/ OpenTransport(c)
    \/ Connect(c) \/ ListTools(c) \/ Answer(c) \/ Fails(c)
    \/ CloseConnection(c) \/ ReleaseSlot(c) \/ AppendAudit(c) \/ Return(c)

Next == \E c \in Calls : Invoke(c) \/ Step(c) \/ TargetExecutes(c)

(* Every await of a call settles: file reads and appends do, close() does, *)
(* connect, listTools and callTool carry a timeout, acquire() has a timer. *)
(* The target owes nothing, and a waiting call's grant comes from another. *)
Fairness ==
    \A c \in Calls :
        /\ WF_vars(LoadPolicy(c)) /\ WF_vars(ResolveScope(c))
        /\ WF_vars(SlotTimeout(c)) /\ WF_vars(SlotRefused(c)) /\ WF_vars(OpenTransport(c))
        /\ WF_vars(Connect(c) \/ ListTools(c) \/ Answer(c) \/ Fails(c))
        /\ WF_vars(CloseConnection(c)) /\ WF_vars(ReleaseSlot(c))
        /\ WF_vars(AppendAudit(c)) /\ WF_vars(Return(c))

Spec == Init /\ [][Next]_vars
FairSpec == Spec /\ Fairness

-----------------------------------------------------------------------------
(* A tool runs only after every gate of its own call let it through: the   *)
(* policy file it read was sound and allowed the requested name, the       *)
(* arguments were within budget, the target's transport was permitted.     *)
(* Between those checks and the execution the call may have queued for     *)
(* minutes beside calls that read another policy.                          *)
ExecutedOnlyWhenCleared ==
    \A c \in Calls : executed[c] =>
        LET policy == LoadGatewayPolicy(file[c][1])
            r == request[c][1]
            t == target[c][1]
        IN  /\ policy.loaded
            /\ ~r.oversized
            /\ EvaluateGatewayPolicy(policy, r.server, r.tool)
            /\ r.server \in t.names
            /\ t.kind # "unsupported"
            /\ UrlAllowed(c, t)

(* An outcome that reads as a refusal is one: nothing was sent to the      *)
(* target, and nothing of this call can run there later.                   *)
RefusedMeansNotSent ==
    \A c \in Calls : \A v \in Range(result[c]) :
        v.outcome \notin {"ok", "target-error", "unreachable", "audit-unavailable"} => ~sent[c]

(* "True only when the call actually reached the target server"            *)
(* (gateway.ts:495), also when the audit write fails afterwards.           *)
DeliveredMeansExecuted ==
    \A c \in Calls : \A v \in Range(result[c]) : v.delivered => executed[c]

(* "a batch of tool calls would spawn one backend process each, at the     *)
(* same time" (gatewayHardening.ts:309) is what the limiter prevents: a    *)
(* slot is given on only after the connection it paid for is closed.       *)
ConnectionsBounded == Cardinality({c \in Calls : conn[c] = "open"}) <= Limit

(* A call that returned leaves no connection, no slot and no queue entry.  *)
NothingLeftBehind ==
    \A c \in Calls : pc[c] = "done" =>
        /\ conn[c] # "open"
        /\ slot[c] \notin {"held", "waiting"}
        /\ c \notin Range(waiting)

(* The audit log and the answers tell one story: an entry and the answer   *)
(* to its call agree, and an answer without entry is one whose append was  *)
(* disabled or failed, and says so if the audit is required.               *)
AuditAgreesWithAnswer ==
    \A c \in Calls : \A v \in Range(result[c]) :
        /\ \A e \in log : e.call = c =>
             e.outcome = v.outcome /\ e.delivered = v.delivered
        /\ (\A e \in log : e.call # c) =>
             AuditDisabled \/ (AuditRequired => v.outcome = "audit-unavailable")

(* Every invocation is answered, whatever the target does.                 *)
EveryCallReturns == \A c \in Calls : pc[c] # "idle" ~> pc[c] = "done"

-----------------------------------------------------------------------------
(* What the documentation says and the code does not do.                   *)

(* "set ELLMOS_GATEWAY_AUDIT_REQUIRED=1 to turn a failed write into a      *)
(* refused call" (README.md:384).                                          *)
FailedAuditRefusesCall ==
    \A c \in Calls : \A v \in Range(result[c]) :
        v.outcome = "audit-unavailable" => ~executed[c]

(* "unreachable: The server exists but could not be asked" (README.md:357) *)
UnreachableWasNotAsked ==
    \A c \in Calls : \A v \in Range(result[c]) :
        v.outcome = "unreachable" => ~executed[c]
=============================================================================
