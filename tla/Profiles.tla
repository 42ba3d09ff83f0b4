-------------------------------- MODULE Profiles --------------------------------
(***************************************************************************)
(* src/src/profiles.ts and src/src/gateway.ts: the listings that read many *)
(* files or ask many servers, and what they tell of those that fail.  How  *)
(* one profile is resolved and one server is asked are the subjects of     *)
(* ProfileResolve and ToolScan.                                            *)
(***************************************************************************)
EXTENDS Answers

(* The hints that a task may contain; two stand for those of a profile.    *)
ProfileHints ==
    [p \in {"ai-lab", "software", "research", "umbruch", "base"} |->
        CASE p = "ai-lab"   -> {"agent", "mcp"}
          [] p = "software" -> {"code", "test"}
          [] p = "research" -> {"paper", "latex"}
          [] p = "umbruch"  -> {"website", "seo"}
          [] p = "base"     -> {"mail", "meeting"}]

Priority == <<"ai-lab", "software", "research", "umbruch", "base">>

(* The first profile of the highest score; base where none has any.        *)
SuggestProfile(task) ==
    LET score(p) == Cardinality(ProfileHints[p] \intersect task)
        best == {i \in DOMAIN Priority :
                    /\ score(Priority[i]) > 0
                    /\ \A j \in DOMAIN Priority :
                         score(Priority[j]) < score(Priority[i])
                         \/ (score(Priority[j]) = score(Priority[i]) /\ j >= i)}
    IN  IF best = {} THEN [profile |-> "base", score |-> 0]
        ELSE LET p == Priority[CHOOSE i \in best : TRUE]
             IN  [profile |-> p, score |-> score(p)]

SummarizeProfile(name, profile) ==
    [name |-> name, extends |-> profile.extends, servers |-> profile.servers]

(* A file that cannot be read or is no JSON object is passed over.         *)
ListMcpProfiles(root) ==
    IF ~root.readable THEN {}
    ELSE {SummarizeProfile(f, root.files[f]) : f \in {f \in DOMAIN root.files : root.files[f].json}}

(* Each server in scope is asked on its own.  One that could not be asked  *)
(* has no tool count, which is told as -1.                                 *)
ListGatewayTools(scope, asked, name) ==
    LET unknown == name # 0 /\ name \notin scope.targets
        selected == IF name = 0 THEN scope.targets ELSE scope.targets \intersect {name}
        status(s) == IF asked[s].status \in {"ok", "unsupported"} THEN asked[s].status
                     ELSE "unreachable"
        rows == {[server |-> s, status |-> status(s), tools |-> DOMAIN asked[s].tools,
                  toolCount |-> IF status(s) = "ok" THEN Cardinality(DOMAIN asked[s].tools) ELSE -1] :
                    s \in selected}
    IN  IF scope.error THEN [scopeError |-> TRUE, unknownServer |-> FALSE, servers |-> {},
                             complete |-> FALSE]
        ELSE [scopeError |-> FALSE, unknownServer |-> unknown, servers |-> rows,
              complete |-> (\A r \in rows : r.status = "ok") /\ ~unknown]
================================================================================
