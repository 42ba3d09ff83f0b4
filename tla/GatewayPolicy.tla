---------------------------- MODULE GatewayPolicy ----------------------------
(***************************************************************************)
(* The policy gate of the gateway (src/src/gateway.ts) and its transport   *)
(* policy (src/src/gatewayHardening.ts), as operators on the contents of   *)
(* the policy file.                                                        *)
(*                                                                         *)
(* A glob pattern stands for the set of names it matches, so "*" is the    *)
(* whole set.  An optional field is a sequence: <<>> when it is absent or  *)
(* has the wrong type, <<v>> when it holds v.  A policy file is a record   *)
(*   defect : "none", or why reading it or checking its shape fails        *)
(*   mode   : an optional "open" or "allowlist"                            *)
(*   deny, allow : sets of raw rules [object, server, tool]                *)
(*   hosts  : the entries of allowedRemoteHosts, each an optional pattern  *)
(***************************************************************************)
EXTENDS Integers, SequencesExt

CONSTANTS Servers,  \* every name a caller, a rule or a target may use
          Tools     \* every tool name

FileDefects == {"none", "missing", "unreadable", "not-json", "not-object",
                "unknown-schema", "unknown-mode", "hosts-not-array", "redact-not-boolean",
                "rules-not-array"}

-----------------------------------------------------------------------------
(* A rule without a usable `server` is a rule for every server.            *)
NormalizeRule(rule) ==
    [servers |-> IF rule.server = <<>> THEN Servers ELSE rule.server[1],
     tools   |-> rule.tool[1]]

RuleUsable(rule) == rule.object /\ rule.tool # <<>>

(* loadGatewayPolicy and parseGatewayPolicy either throw or return a       *)
(* policy; `loaded` tells which.                                           *)
LoadGatewayPolicy(file) ==
    LET loads == /\ file.defect = "none"
                 /\ \A rule \in file.deny \union file.allow : RuleUsable(rule)
    IN  IF ~loads
        THEN [loaded |-> FALSE, mode |-> "open", deny |-> {}, allow |-> {}, hosts |-> {}]
        ELSE [loaded |-> TRUE,
              mode   |-> IF file.mode = <<>> THEN "open" ELSE file.mode[1],
              deny   |-> {NormalizeRule(rule) : rule \in file.deny},
              allow  |-> {NormalizeRule(rule) : rule \in file.allow},
              hosts  |-> {entry[1] : entry \in {e \in Range(file.hosts) : e # <<>>}}]

MatchesRule(rule, server, tool) == server \in rule.servers /\ tool \in rule.tools

(* Deny rules first; then, in allowlist mode, an allow rule must match.    *)
EvaluateGatewayPolicy(policy, server, tool) ==
    /\ \A rule \in policy.deny : ~MatchesRule(rule, server, tool)
    /\ policy.mode = "allowlist" =>
         \E rule \in policy.allow : MatchesRule(rule, server, tool)

-----------------------------------------------------------------------------
(* A target URL is [scheme, loopback, host]; scheme "unparsable" when the  *)
(* URL constructor throws.                                                 *)
CheckRemoteTargetUrl(url, hosts) ==
    /\ url.scheme \in {"http", "https"}
    /\ url.scheme = "http" => url.loopback
    /\ hosts # {} => \E pattern \in hosts : url.host \in pattern

(* A target is [names, kind, url], url optional.  The caller's name may be *)
(* the package, directory or MCP name of the target; the first target of   *)
(* the scope that has it is meant.  <<>> when there is none.               *)
FindGatewayTarget(targets, server) ==
    LET named == {i \in DOMAIN targets : server \in targets[i].names}
    IN  IF named = {} THEN <<>> ELSE <<targets[Min(named)]>>
=============================================================================
