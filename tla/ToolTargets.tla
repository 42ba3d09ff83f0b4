------------------------------- MODULE ToolTargets ------------------------------
(***************************************************************************)
(* src/src/toolCatalog.ts: which servers a tool scan asks, and the catalog *)
(* made of their answers.  How they are asked is the subject of ToolScan;  *)
(* here each has answered when its turn comes: a status and its tools, by  *)
(* number, each with the tokens of its text.                               *)
(***************************************************************************)
EXTENDS Answers

(* A target: the names it answers to, and where it has no supported start  *)
(* form the language that is explained in.                                 *)
CreateLocalServerToolTarget(server) ==
    [server |-> server.package, names |-> {server.dir, server.package}, kind |-> "stdio",
     note |-> "none", text |-> server.text]

DetectProfileTransportKind(config) ==
    CASE config.record /\ config.command # "" -> "stdio"
      [] config.record /\ config.command = "" /\ config.url -> "http"
      [] OTHER -> "unsupported"

CreateProfileToolCatalogTargets(profile, language) ==
    LET order == Increasing(DOMAIN profile.servers)
        kind(s) == DetectProfileTransportKind(profile.servers[s])
    IN  [i \in DOMAIN order |->
           [server |-> order[i], names |-> {order[i], profile.name}, kind |-> kind(order[i]),
            note |-> IF kind(order[i]) = "unsupported" THEN language ELSE "none", text |-> {}]]

(* A filter that names the profile keeps every server of it.               *)
FilterTargetsForToolScan(targets, name) ==
    AtPlaces(targets, {i \in DOMAIN targets : name = 0 \/ name \in targets[i].names})

(* Each target is listed, one that is not supported without being asked.   *)
ScanTargets(targets, asked) ==
    [i \in DOMAIN targets |->
        LET t == targets[i]
        IN  [server |-> t.server, note |-> t.note, text |-> t.text,
             status |-> IF t.kind = "unsupported" THEN "unsupported" ELSE asked[t.server].status,
             tools  |-> IF t.kind = "unsupported" THEN <<>> ELSE asked[t.server].tools]]

BuildToolCatalog(servers, name, asked) ==
    LET selected == {s \in servers : name = 0 \/ name \in {s.dir, s.package}}
        order == Ordered(selected, [s \in selected |-> {t \in selected : t.dir < s.dir}])
    IN  ScanTargets([i \in DOMAIN order |-> CreateLocalServerToolTarget(order[i])], asked)

ScanProfileServerTools(profile, name, asked, language) ==
    ScanTargets(FilterTargetsForToolScan(CreateProfileToolCatalogTargets(profile, language), name),
                asked)
================================================================================
