------------------------------ MODULE PolicyRules -------------------------------
(***************************************************************************)
(* src/src/policy.ts: the rules a profile is audited by.  Overrides of the *)
(* rules come from an optional file; one entry that cannot be understood   *)
(* refuses the file as a whole.                                            *)
(***************************************************************************)
EXTENDS Answers

ServerRules == {"missing-command", "npx-runtime-fetch", "env-secrets-present",
                "sensitive-arg-name"}
RuleIds == ServerRules \union {"invalid-server-config", "no-policy-findings"}

DefaultPolicyRules ==
    [r \in RuleIds |->
        [enabled  |-> TRUE,
         severity |-> CASE r \in {"invalid-server-config", "missing-command"} -> "high"
                        [] r = "no-policy-findings" -> "info"
                        [] OTHER -> "warning"]]

(* An entry of the file: its fields may be absent ("unset") or of another  *)
(* type than theirs ("bad").                                               *)
Malformed(entry) == entry.id = "" \/ entry.enabled = "bad" \/ entry.severity = "bad"

NormalizeOverrides(entries) ==
    CASE \E i \in DOMAIN entries : Malformed(entries[i]) -> Error("policy-schema-invalid")
      [] ~Unique(entries, LAMBDA e : e.id) -> Error("policy-rule-duplicate")
      [] \E i \in DOMAIN entries : entries[i].id \notin RuleIds -> Error("policy-rule-unknown")
      [] OTHER -> Ok(entries)

Override(rule, entry) ==
    [severity |-> IF entry.severity = "unset" THEN rule.severity ELSE entry.severity,
     enabled  |-> IF entry.enabled = "unset" THEN rule.enabled ELSE entry.enabled = "true"]

ApplyOverrides(entries) ==
    [r \in RuleIds |->
        IF \E e \in Elements(entries) : e.id = r
        THEN Override(DefaultPolicyRules[r], CHOOSE e \in Elements(entries) : e.id = r)
        ELSE DefaultPolicyRules[r]]

(* Operators named Broken... are plausible mistakes in the definition that *)
(* shares their name; no specification uses them.                          *)
BrokenLoadPolicyRules(file) ==
    CASE file.state \in {"absent", "unreadable"} -> Ok(DefaultPolicyRules)
      [] file.state = "list" -> Ok(ApplyOverrides(file.entries))
      [] OTHER -> Ok([r \in RuleIds |-> [DefaultPolicyRules[r] EXCEPT !.enabled = FALSE]])

(* A missing file means the defaults; any other trouble is an error.       *)
LoadPolicyRules(file) ==
    CASE file.state = "absent"     -> Ok(DefaultPolicyRules)
      [] file.state = "unreadable" -> Error("policy-read-failed")
      [] file.state = "notJson"    -> Error("policy-json-invalid")
      [] file.state = "notList"    -> Error("policy-schema-invalid")
      [] file.state = "list"       ->
           LET overrides == NormalizeOverrides(file.entries)
           IN  IF overrides.ok THEN Ok(ApplyOverrides(overrides.value)) ELSE overrides

(* What a server's configuration matches.  One that is no object matches   *)
(* nothing else.                                                           *)
Matches(config) ==
    IF ~config.record THEN {"invalid-server-config"}
    ELSE {r \in ServerRules :
            CASE r = "missing-command"     -> config.command = ""
              [] r = "npx-runtime-fetch"   -> config.command = "npx"
              [] r = "env-secrets-present" -> config.env
              [] r = "sensitive-arg-name"  -> config.sensitive}

Finding(rules, r, name) == [rule |-> r, server |-> name, severity |-> rules[r].severity]

AuditResolvedProfile(servers, rules) ==
    LET enabled == {r \in RuleIds : rules[r].enabled}
        found == UNION {{Finding(rules, r, s) : r \in Matches(servers[s]) \intersect enabled}
                           : s \in DOMAIN servers}
    IN  IF found # {} THEN found
        ELSE {Finding(rules, r, 0) : r \in {"no-policy-findings"} \intersect enabled}

SummarizePolicyFindings(findings) ==
    [s \in {"info", "warning", "high"} |-> Cardinality({f \in findings : f.severity = s})]
================================================================================
