------------------------------ MODULE HostRegisters -----------------------------
(***************************************************************************)
(* src/scripts/controlroom_bridge.py as src/src/controlroom.ts asks it:    *)
(* the registers of the host.  A register may be "unconfigured": then the  *)
(* bridge is not asked.  Asking it may fail: no interpreter, a timeout, no *)
(* or no readable output.                                                  *)
(***************************************************************************)
EXTENDS Answers

Unknown == [verdict |-> "unknown"]

(* What a caller gets when the register is configured and asked.           *)
Ask(register, bridge, reply) ==
    IF register.state = "unconfigured" \/ bridge = "failed" THEN Unknown ELSE reply

Taken(s, limit) == IF Len(s) > limit THEN SubSeq(s, 1, limit) ELSE s

(* ------------------------------- Locks --------------------------------- *)
(* Each root is looked at once the ones before it are done: late when the  *)
(* budget was used up by then, and from then on; unreadable or not.        *)
Scanned(scans) == {i \in DOMAIN scans : scans[i].readable /\ \A j \in 1..i : ~scans[j].late}

(* Operators named Broken... are plausible mistakes in the definition that *)
(* shares their name; no specification uses them.                          *)
BrokenCmdListLocks(roots, scans) ==
    IF roots.state # "list" THEN Unknown
    ELSE LET late == {i \in DOMAIN scans : \E j \in 1..i : scans[j].late}
         IN  [verdict |-> IF late = {} THEN "complete" ELSE "partial",
              skipped |-> DOMAIN scans \ Scanned(scans),
              locks   |-> UNION {scans[i].locks : i \in Scanned(scans)}]

CmdListLocks(roots, scans) ==
    IF roots.state # "list" THEN Unknown
    ELSE LET skipped == DOMAIN scans \ Scanned(scans)
         IN  [verdict |-> IF skipped = {} THEN "complete" ELSE "partial", skipped |-> skipped,
              locks   |-> UNION {scans[i].locks : i \in Scanned(scans)}]

ListLocks(roots, scans, bridge) == Ask(roots, bridge, CmdListLocks(roots, scans))

(* What the bridge says of one path is the subject of LockCheck.           *)
CheckLock(scripts, reply, bridge) == Ask(scripts, bridge, reply)

(* The registers on the way up from the path, each "none", "invalid" or    *)
(* what it decides for the agent and the action: the nearest counts.       *)
CmdEvaluatePermission(place) ==
    LET nearest == {i \in DOMAIN place.registers : \A j \in 1..(i - 1) : place.registers[j] = "none"}
        decides == {place.registers[i] : i \in nearest} \ {"none"}
    IN  IF ~place.exists \/ decides \subseteq {"invalid"} THEN Unknown
        ELSE [verdict |-> CHOOSE decision \in decides : TRUE]

EvaluatePermission(scripts, place, bridge) == Ask(scripts, bridge, CmdEvaluatePermission(place))

(* ------------------------------ Decisions ------------------------------ *)
BrokenCmdListDecisions(index, chain, limit) ==
    CASE index.state = "rootless" -> Unknown
      [] index.state \in {"absent", "unreadable"} -> [verdict |-> "unavailable"]
      [] OTHER -> [verdict |-> IF chain.readable /\ chain.decided > chain.indexed
                               THEN "stale" ELSE "ok",
                   matches |-> Len(index.entries), decisions |-> Taken(index.entries, limit)]

(* The index is read first, its age against its sources is told afterwards.*)
CmdListDecisions(index, chain, limit) ==
    CASE index.state = "rootless" -> Unknown
      [] index.state \in {"absent", "unreadable"} -> [verdict |-> "unavailable"]
      [] OTHER -> [verdict |-> IF chain.readable /\ chain.decided <= chain.indexed
                               THEN "ok" ELSE "stale",
                   matches |-> Len(index.entries), decisions |-> Taken(index.entries, limit)]

ListDecisions(index, chain, bridge, limit) ==
    Ask(index, bridge, CmdListDecisions(index, chain, limit))

(* ------------------------------ Governance ----------------------------- *)
Available(rows) == [status |-> "available", rows |-> rows]
NotAvailable(status) == [status |-> status, rows |-> <<>>]

(* An entry that is no flat text refuses the source.                       *)
GovernanceDecisions(index, chain, limit) ==
    LET listed == CmdListDecisions(index, chain, limit)
    IN  CASE index.state = "unconfigured" -> NotAvailable("unconfigured")
          [] listed.verdict \notin {"ok", "stale"} -> NotAvailable("unreadable")
          [] \E e \in Elements(listed.decisions) : ~e.valid -> NotAvailable("invalid")
          [] OTHER -> [status |-> "available", rows |-> listed.decisions,
                       stale |-> listed.verdict = "stale"]

(* One malformed norm or candidate refuses the registry; entries of other  *)
(* kinds are passed over.                                                  *)
GovernanceRegistry(registry, limit) ==
    LET told == SelectSeq(registry.entries, LAMBDA e : e.kind \in {"norm", "candidate"})
        rows(kind) == Taken(SelectSeq(told, LAMBDA e : e.kind = kind), limit)
    IN  CASE registry.state # "list" -> NotAvailable(registry.state)
          [] \E e \in Elements(told) : ~e.valid -> NotAvailable("invalid")
          [] OTHER -> Available(rows("norm") \o rows("candidate"))

GovernancePlans(plans, limit) ==
    CASE plans.state # "list" -> NotAvailable(plans.state)
      [] \E e \in Elements(plans.entries) : ~e.valid -> NotAvailable("invalid")
      [] OTHER -> Available(Taken(plans.entries, limit))

CmdListGovernance(index, chain, registry, plans, limit) ==
    LET sources == [decisions |-> GovernanceDecisions(index, chain, limit),
                    registry  |-> GovernanceRegistry(registry, limit),
                    plans     |-> GovernancePlans(plans, limit)]
        available == {s \in DOMAIN sources : sources[s].status = "available"}
    IN  [verdict |-> IF available = DOMAIN sources THEN "complete"
                     ELSE IF available # {} THEN "partial" ELSE "unknown",
         sources |-> sources]

(* Without an answer each source is still told to be configured or not.    *)
EmptyGovernance(index, registry, plans) ==
    LET source(register) ==
            NotAvailable(IF register.state = "unconfigured" THEN "unconfigured" ELSE "unreadable")
    IN  [verdict |-> "unknown",
         sources |-> [decisions |-> source(index), registry |-> source(registry),
                      plans |-> source(plans)]]

ListGovernance(index, chain, registry, plans, bridge, limit) ==
    IF bridge = "failed" \/ {index.state, registry.state, plans.state} = {"unconfigured"}
    THEN EmptyGovernance(index, registry, plans)
    ELSE CmdListGovernance(index, chain, registry, plans, limit)

(* ------------------------------ Inventory ------------------------------ *)
(* Rows of systems come before those of software.                          *)
CmdListResources(inventory, type, host, limit) ==
    LET rows(t) == SelectSeq(inventory.rows, LAMBDA r :
                       r.type = t /\ type \in {"all", t} /\ host \in {0, r.host})
        found == rows("systems") \o rows("software")
    IN  IF inventory.state # "list" THEN [verdict |-> "unavailable"]
        ELSE [verdict |-> "ok", matches |-> Len(found), resources |-> Taken(found, limit)]

ListResources(inventory, bridge, type, host, limit) ==
    Ask(inventory, bridge, CmdListResources(inventory, type, host, limit))

(* A file that cannot be opened leaves the connection unbound that is      *)
(* closed at the end: the bridge's last resort answers.                    *)
CmdDescribeResource(inventory, id, type) ==
    LET found == {r \in Elements(inventory.rows) : r.id = id /\ r.type = type}
    IN  CASE inventory.state = "unopenable" -> Unknown
          [] inventory.state # "list" -> [verdict |-> "unavailable"]
          [] found = {} -> [verdict |-> "not_found"]
          [] OTHER -> [verdict |-> "ok", resource |-> found]

DescribeResource(inventory, bridge, id, type) ==
    Ask(inventory, bridge, CmdDescribeResource(inventory, id, type))
================================================================================
