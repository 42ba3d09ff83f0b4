----------------------------- MODULE ControlCenter ------------------------------
(***************************************************************************)
(* src/src/index.ts: the server's own requests.  A handler runs to its     *)
(* next await without interruption; every await is the reading of one      *)
(* source (files below a root, a register, the answers of probed servers). *)
(* Between two readings other handlers run, the host goes on, the language *)
(* of the process changes.  When the last reading is done the handler      *)
(* answers: the values of the answer are as old as the readings, some of   *)
(* its words as old as the call.  Readings that the code starts together   *)
(* are modelled one after the other: what they find is independent.        *)
(***************************************************************************)
EXTENDS PolicyRules, ToolBundles, McpLandscape, SelfReceipt, Capabilities, SkillRouting,
        HostRegisters, StackContext, Plugins, Profiles, ToolTargets, Wordings

CONSTANTS
    Clients,          \* requests that may be in flight, each in a place of its own
    Offered,          \* the calls that each of them may make
    Together,         \* pairs of tools that may be in flight together
    Environment,      \* the three environment variables that may name a language
    SupportedLanguages,
    Contents,         \* what each source may hold when it is read
    MaxReleases, MaxDecided     \* bounds on what happens to the host

(* Texts that the code tells apart; an entry of a policy file has a flag   *)
(* that is set, not set, or of another type.                               *)
ASSUME ContentsAssumption ==
    /\ Contents["bridge"] \subseteq {"answered", "failed"}
    /\ Contents["index"] \subseteq {"unconfigured", "rootless", "absent", "unreadable", "list"}
    /\ \A register \in Contents["registry"] \union Contents["plans"] :
         register.state \in {"unconfigured", "unreadable", "invalid", "list"}
    /\ \A scans \in Contents["lockScans"] : DOMAIN scans \subseteq Nat \ {0}
    /\ \A scripts \in Contents["lockScripts"] : scripts.state \in {"unconfigured", "list"}
    /\ \A reply \in Contents["lockReply"] : Field(reply, "safe", FALSE) => reply.verdict = "clear"
    /\ \A file \in Contents["policy"] :
         /\ file.state \in {"absent", "unreadable", "notJson", "notList", "list"}
         /\ file.state = "list" =>
              \A e \in Elements(file.entries) : e.enabled \in {"unset", "bad", "true", "false"}
    /\ \A listing \in Contents["listing"] : listing.readable => IsFiniteSet(listing.names)
    /\ \A profile \in Contents["profile"] : profile.ok =>
         IsFiniteSet(DOMAIN profile.value.servers) /\ DOMAIN profile.value.servers \subseteq Nat
    /\ \A manifests \in Contents["manifests"] :
         /\ \A catalog \in Contents["stackCatalog"] : catalog.state = "list" =>
              DOMAIN catalog.entries \subseteq Nat \intersect DOMAIN manifests
         /\ \A i \in DOMAIN manifests : manifests[i].object =>
              \A g \in DOMAIN manifests[i].groups :
                /\ manifests[i].groups[g] \in Seq(Elements(manifests[i].groups[g]))
                /\ \A item \in Elements(manifests[i].groups[g]) : item.line \in Nat
    /\ \A file \in Contents["resolution"] : file.state = "object" =>
         /\ IsFiniteSet(DOMAIN file.bundles)
         /\ \A b \in Elements(file.bundles) :
              /\ IsFiniteSet(DOMAIN b.components)
              /\ \A component \in Elements(b.components) : component.ref \in Nat

(* A query is a finite set of tokens; a limit lets something through.      *)
ASSUME OfferedAssumption ==
    \A c \in Clients : \A call \in Offered[c] : call.tool = "find_capability" =>
        IsFiniteSet(call.args.query) /\ call.args.limit \in Nat \ {0}

VARIABLES
    language,         \* currentLanguage of i18n/index.ts
    request,          \* each request: call, readings, answer
    catalogFile,      \* data/server-catalog.json: content and open writers
    host              \* installed release, decisions made and decisions indexed

vars == <<language, request, catalogFile, host>>

Idle == [tool |-> "none", args |-> <<>>, labels |-> "none", read |-> <<>>, page |-> <<>>,
         error |-> FALSE, during |-> {}]

(* The first variable that names a supported language, German otherwise.   *)
StartLanguage ==
    LET named == {i \in DOMAIN Environment : Environment[i] \in SupportedLanguages}
    IN  IF named = {} THEN "de" ELSE Environment[Min(named)]

Init ==
    /\ language = StartLanguage
    /\ request = [c \in Clients |-> Idle]
    /\ catalogFile = [content |-> <<>>, torn |-> FALSE, writers |-> {}, mixed |-> FALSE]
    /\ host = [release |-> 1, decided |-> 0, indexed |-> 0]

--------------------------------------------------------------------------------
(* ------------------------------ Readings ------------------------------- *)
LocalServers == <<"listing", "packages">>
Landscape == <<"listing", "mcpCatalog", "packages">>
Skills == <<"deployedSkills", "sourceSkills">>

ToolCatalogSources(args) ==
    IF args.profile # 0 THEN <<"profile", "profileTools">> ELSE LocalServers \o <<"serverTools">>

CatalogSources(args) ==
    LocalServers
    \o (IF args.tools \/ args.assign
        THEN <<"serverTools">> \o (IF args.profile # 0 THEN <<"profile", "profileTools">> ELSE <<>>)
        ELSE <<>>)
    \o (IF args.assign THEN <<"bundleConfig">> ELSE <<>>)

Awaits(tool, args) ==
    CASE tool \in {"get_language", "set_language", "suggest_profile"} -> <<>>
      [] tool = "status" -> Landscape \o <<"profileRoot", "bundleConfig">>
      [] tool = "actual_self_receipt" -> <<"receiptConfig", "key", "version", "probe">>
      [] tool \in {"list_local_servers", "describe_mcp"} -> Landscape
      [] tool \in {"list_stacks", "describe_stack", "context_pack"} -> <<"stackCatalog", "manifests">>
      [] tool = "list_tools" -> ToolCatalogSources(args)
      [] tool = "assign_tool_bundles" -> ToolCatalogSources(args) \o <<"bundleConfig">>
      [] tool \in {"find_capability", "tool_overview"} -> <<"resolution">>
      [] tool \in {"list_bundles", "suggest_bundles"} -> LocalServers \o <<"bundleConfig">>
      [] tool = "list_profiles" -> <<"profileRoot">>
      [] tool = "resolve_profile" -> <<"profile">>
      [] tool = "switch_profile" ->
           <<"profile">> \o (IF args.write THEN <<"profileWritten">> ELSE <<>>)
      [] tool = "audit_profile" -> <<"profile", "policy">>
      [] tool = "build_catalog" -> CatalogSources(args)
      [] tool \in {"list_skills", "find_skill"} -> Skills
      [] tool = "resolve_semantic_route" -> <<"routingMap", "deployedSkills", "sourceSkills">>
      [] tool = "list_plugins" ->
           <<"claudeRegistry", "installedDirs", "codex", "antigravity", "moduleCatalog", "moduleDirs">>
      [] tool = "list_locks" -> <<"lockRoots", "lockScans", "bridge">>
      [] tool = "check_lock" -> <<"lockScripts", "lockReply", "bridge">>
      [] tool = "evaluate_permission" -> <<"lockScripts", "place", "bridge">>
      [] tool = "list_decisions" -> <<"index", "chain", "bridge">>
      [] tool = "list_governance" -> <<"index", "chain", "registry", "plans", "bridge">>
      [] tool \in {"list_resources", "describe_resource"} -> <<"inventory", "bridge">>
      [] tool = "list_available_tools" -> <<"gatewayScope", "serverTools">>
      [] tool = "invoke" -> <<"invocation">>

(* What a source holds now.  The installed package and the decision index  *)
(* follow the host; targets of a profile are made when they are asked.     *)
Holds(source) ==
    CASE source = "version" ->
           {[valid |-> v, release |-> host.release] : v \in Contents["version"]}
      [] source = "probe" ->
           {[status |-> p.status, tools |-> p.tools, release |-> host.release] :
              p \in Contents["probe"]}
      [] source = "index" ->
           {[state |-> s, entries |-> IF s = "list"
                                      THEN [i \in 1..host.indexed |-> [id |-> i, valid |-> TRUE]]
                                      ELSE <<>>] : s \in Contents["index"]}
      [] source = "chain" ->
           {[readable |-> r, decided |-> host.decided, indexed |-> host.indexed] :
              r \in Contents["chain"]}
      [] source = "profileTools" ->
           {[asked |-> a, language |-> language] : a \in Contents["serverTools"]}
      [] OTHER -> Contents[source]

(* What the reading function makes of it: a value or what it throws.       *)
Loaded(read, source) ==
    CASE source = "bundleConfig" -> LoadBundleDefinitions(read[source])
      [] source = "policy" -> LoadPolicyRules(read[source])
      [] source \in {"profile", "profileWritten"} -> read[source]
      [] source = "receiptConfig" -> CheckConfig(read[source])
      [] source = "key" -> CheckKey(read["receiptConfig"], read[source])
      [] source = "version" -> CheckVersion(read[source])
      [] source = "probe" -> CheckProbe(read[source])
      [] source = "resolution" -> LoadSelfConsistentResolution(read[source])
      [] source = "routingMap" -> LoadSemanticRoutingMap(read[source])
      [] OTHER -> Ok(0)

(* The readings still to come.                                             *)
Remaining(r) ==
    LET awaits == Awaits(r.tool, r.args)
    IN  SubSeq(awaits, Cardinality(DOMAIN r.read) + 1, Len(awaits))

Refused(code) == <<Plain("error", code)>>
WithSource(read, source, v) ==
    [s \in DOMAIN read \union {source} |-> IF s = source THEN v ELSE read[s]]

(* A call is made.  A handler that takes its labels first takes them here. *)
Begin(c) ==
    /\ request[c].tool = "none"
    /\ \E call \in Offered[c] :
         /\ \A d \in Clients \ {c} :
              request[d].tool = "none" \/ {call.tool, request[d].tool} \in Together
         /\ request' = [request EXCEPT ![c] =
                          [Idle EXCEPT !.tool = call.tool, !.args = call.args, !.labels = language]]
    /\ UNCHANGED <<language, catalogFile, host>>

Read(c) ==
    LET r == request[c]
        source == Remaining(r)[1]
    IN  /\ r.tool # "none" /\ r.page = <<>> /\ Remaining(r) # <<>>
        /\ \E v \in Holds(source) :
             LET read == WithSource(r.read, source, v)
                 loaded == Loaded(read, source)
             IN  request' = [request EXCEPT ![c].read = read, ![c].error = ~loaded.ok,
                                ![c].page = IF loaded.ok THEN <<>> ELSE Refused(loaded.code)]
        /\ UNCHANGED <<language, catalogFile, host>>

Ready(c, tool) ==
    request[c].tool = tool /\ request[c].page = <<>> /\ Remaining(request[c]) = <<>>

Reply(c, page) ==
    request' = [request EXCEPT ![c].page = page] /\ UNCHANGED <<language, catalogFile, host>>

ReplyError(c, page) ==
    /\ request' = [request EXCEPT ![c].page = page, ![c].error = TRUE]
    /\ UNCHANGED <<language, catalogFile, host>>

(* What happens while other requests are there is noted with them.         *)
Noted(event, own) ==
    [c \in Clients |-> IF request[c].tool = "none" \/ c \in own THEN request[c]
                       ELSE [request[c] EXCEPT !.during = @ \union {event}]]

--------------------------------------------------------------------------------
(* ------------------------------ Languages ------------------------------ *)
GetLanguage(c) == Ready(c, "get_language") /\ Reply(c, <<FormatLanguageReport(language)>>)

SetLanguage(c) ==
    LET chosen == request[c].args.language
    IN  /\ Ready(c, "set_language")
        /\ language' = chosen
        /\ request' = [Noted("set_language", {c}) EXCEPT ![c].page = <<FormatLanguageReport(chosen)>>]
        /\ UNCHANGED <<catalogFile, host>>

(* ------------------------ Servers and catalogs ------------------------- *)
LandscapeOf(r) == ScanLocalServerLandscape(r.read["listing"], r.read["mcpCatalog"], r.read["packages"])
ServersOf(r) == ScanLocalServers(r.read["listing"], r.read["packages"])
Definitions(r) == LoadBundleDefinitions(r.read["bundleConfig"]).value
BundlesOf(r) == BuildCapabilityBundles(ServersOf(r), Definitions(r))

Status(c) ==
    LET r == request[c]
        profiles == ListMcpProfiles(r.read["profileRoot"])
    IN  /\ Ready(c, "status")
        /\ Reply(c, <<Part(r.labels, "status", [servers  |-> Cardinality(LandscapeOf(r).servers),
                                                profiles |-> Cardinality(profiles)]),
                      FormatCatalogNote(language, LandscapeOf(r).catalog),
                      FormatServerTable(language, LandscapeOf(r).servers),
                      FormatProfileTable(language, profiles),
                      FormatBundleTable(language, BundlesOf(r)), BundleDescriptions(BundlesOf(r))>>)

ListLocalServers(c) ==
    LET r == request[c]
    IN  /\ Ready(c, "list_local_servers")
        /\ Reply(c, <<Part(r.labels, "root", LandscapeOf(r).rootReadable),
                      FormatCatalogNote(language, LandscapeOf(r).catalog),
                      FormatServerTable(language, LandscapeOf(r).servers),
                      Part(r.labels, "catalogOnly", {e.id : e \in LandscapeOf(r).catalogOnly})>>)

DescribeMcp(c) ==
    LET r == request[c]
        description == DescribeMcpServer(r.args.name, LandscapeOf(r))
    IN  /\ Ready(c, "describe_mcp")
        /\ IF description.server = {} /\ description.entry = {}
           THEN ReplyError(c, <<Part(r.labels, "unknown", r.args.name)>>)
           ELSE Reply(c, <<Part(r.labels, "server", [server |-> description.server,
                                                     entry  |-> description.entry]),
                           FormatCatalogNote(language, LandscapeOf(r).catalog)>>)

RequestedToolCatalog(r) ==
    IF r.args.profile # 0
    THEN ScanProfileServerTools(r.read["profile"].value, r.args.server,
                                r.read["profileTools"].asked, r.read["profileTools"].language)
    ELSE BuildToolCatalog(ServersOf(r), r.args.server, r.read["serverTools"])

ListTools(c) ==
    LET r == request[c]
        catalog == RequestedToolCatalog(r)
    IN  /\ Ready(c, "list_tools")
        /\ Reply(c, <<Part(r.labels, "source", r.args), FormatToolCatalog(language, catalog)>>
                    \o ProbeNotes(catalog))

AssignToolBundles(c) ==
    LET r == request[c]
        catalog == RequestedToolCatalog(r)
        failed == AtPlaces(catalog, {i \in DOMAIN catalog : catalog[i].status # "ok"})
    IN  /\ Ready(c, "assign_tool_bundles")
        /\ Reply(c, <<Part(r.labels, "probes", [all |-> Len(catalog), failed |-> Len(failed)]),
                      FormatBundleToolAssignments(language,
                          BuildBundleToolAssignments(catalog, Definitions(r)))>>
                    \o ProbeNotes(failed))

ListBundles(c) ==
    LET r == request[c]
    IN  /\ Ready(c, "list_bundles")
        /\ Reply(c, <<FormatBundleTable(language, BundlesOf(r)), BundleDescriptions(BundlesOf(r)),
                      Part(r.labels, "details", BundlesOf(r))>>)

SuggestBundles(c) ==
    LET r == request[c]
    IN  /\ Ready(c, "suggest_bundles")
        /\ Reply(c, <<Part(r.labels, "suggested", SuggestCapabilityBundles(r.args.task, BundlesOf(r)))>>)

(* ------------------------- The catalog on disk ------------------------- *)
(* Parts that were not asked for are absent.                               *)
Payload(r) ==
    LET scan == r.args.tools \/ r.args.assign
        local == IF scan THEN BuildToolCatalog(ServersOf(r), 0, r.read["serverTools"]) ELSE <<>>
        profile == IF scan /\ r.args.profile # 0
                   THEN ScanProfileServerTools(r.read["profile"].value, 0,
                            r.read["profileTools"].asked, r.read["profileTools"].language)
                   ELSE <<>>
    IN  [servers |-> ServersOf(r), toolCatalog |-> local, profileToolCatalog |-> profile,
         assignments |-> IF r.args.assign
                         THEN <<BuildBundleToolAssignments(local \o profile, Definitions(r))>>
                         ELSE <<>>]

CatalogCreated(r) ==
    Part(r.labels, "created", [servers |-> Cardinality(ServersOf(r)), tools |-> r.args.tools \/ r.args.assign,
                               profile |-> r.args.profile # 0, assigned |-> r.args.assign])

(* The file is emptied when it is opened, complete when it is closed; the  *)
(* directory cannot be made or the file not be opened.                     *)
BrokenWriteBegin(c) ==
    /\ Ready(c, "build_catalog") /\ c \notin catalogFile.writers
    /\ catalogFile' = [content |-> <<>>, torn |-> TRUE, mixed |-> FALSE,
                       writers |-> catalogFile.writers \union {c}]
    /\ request' = [Noted("write", {c}) EXCEPT ![c].page = <<CatalogCreated(request[c])>>]
    /\ UNCHANGED <<language, host>>

WriteBegin(c) ==
    /\ Ready(c, "build_catalog") /\ c \notin catalogFile.writers
    /\ \/ /\ catalogFile' = [content |-> <<>>, torn |-> TRUE,
                             writers |-> catalogFile.writers \union {c},
                             mixed   |-> catalogFile.mixed \/ catalogFile.writers # {}]
          /\ request' = [Noted("write", {c}) EXCEPT
                           ![c].during = @ \union (IF catalogFile.writers = {} THEN {} ELSE {"write"})]
          /\ UNCHANGED <<language, host>>
       \/ ReplyError(c, Refused("write-failed"))

(* A file that several wrote at once may hold any mixture of them.         *)
Closed(c) ==
    [catalogFile EXCEPT !.writers = @ \ {c}, !.mixed = @ /\ catalogFile.writers # {c}]

WriteEnd(c) ==
    /\ c \in catalogFile.writers
    /\ \/ catalogFile' = [Closed(c) EXCEPT !.content = <<Payload(request[c])>>, !.torn = FALSE]
       \/ catalogFile.mixed /\ catalogFile' = [Closed(c) EXCEPT !.content = <<>>, !.torn = TRUE]
       \/ catalogFile.mixed /\ catalogFile' = Closed(c)
    /\ request' = [request EXCEPT ![c].page = <<CatalogCreated(request[c])>>]
    /\ UNCHANGED <<language, host>>

WriteFails(c) ==
    /\ c \in catalogFile.writers
    /\ catalogFile' = Closed(c)
    /\ request' = [request EXCEPT ![c].page = Refused("write-failed"), ![c].error = TRUE]
    /\ UNCHANGED <<language, host>>

(* ------------------------------ Profiles ------------------------------- *)
ListProfiles(c) ==
    /\ Ready(c, "list_profiles")
    /\ Reply(c, <<Part(request[c].labels, "root", 0),
                  FormatProfileTable(language, ListMcpProfiles(request[c].read["profileRoot"]))>>)

SuggestProfileFor(c) ==
    /\ Ready(c, "suggest_profile")
    /\ Reply(c, <<Part(language, "suggested", SuggestProfile(request[c].args.task))>>)

ResolveProfile(c) ==
    LET r == request[c]
    IN  /\ Ready(c, "resolve_profile")
        /\ Reply(c, <<Part(r.labels, "resolved", DOMAIN r.read["profile"].value.servers)>>)

SwitchProfile(c) ==
    LET r == request[c]
    IN  /\ Ready(c, "switch_profile")
        /\ Reply(c, <<Part(r.labels, "switched", [servers |-> DOMAIN r.read["profile"].value.servers,
                                                  written |-> r.args.write])>>)

(* The wording of a finding is chosen when the audit is made.              *)
AuditProfile(c) ==
    LET r == request[c]
        rules == LoadPolicyRules(r.read["policy"]).value
        findings == AuditResolvedProfile(r.read["profile"].value.servers, rules)
    IN  /\ Ready(c, "audit_profile")
        /\ Reply(c, <<Part(r.labels, "audit",
                           [active  |-> Cardinality({i \in RuleIds : rules[i].enabled}),
                            summary |-> SummarizePolicyFindings(findings)]),
                      Part(language, "findings", findings)>>)

(* ---------------------- Stacks, skills, plugins ------------------------ *)
ListStacks(c) ==
    LET r == request[c]
    IN  /\ Ready(c, "list_stacks")
        /\ Reply(c, <<FormatStackTable(ScanStacks(r.read["stackCatalog"], r.read["manifests"]))>>)

StackOf(r) == DescribeStack(r.args.name, r.read["stackCatalog"], r.read["manifests"])

DescribeStackFor(c) ==
    LET stack == StackOf(request[c])
    IN  /\ Ready(c, "describe_stack")
        /\ IF stack.ok THEN Reply(c, <<Plain("stack", stack.value)>>)
           ELSE ReplyError(c, Refused(stack.code))

ContextPack(c) ==
    LET stack == StackOf(request[c])
    IN  /\ Ready(c, "context_pack")
        /\ IF stack.ok
           THEN Reply(c, <<Plain("pack", BuildStackContextPack(request[c].args.level, stack.value))>>)
           ELSE ReplyError(c, Refused(stack.code))

FindCapability(c) ==
    LET r == request[c]
        found == FindCapabilities(r.args.query, r.read["resolution"], r.args.limit)
    IN  /\ Ready(c, "find_capability")
        /\ IF found.ok THEN Reply(c, <<Plain("found", found.value)>>)
           ELSE ReplyError(c, Refused(found.code))

ToolOverview(c) ==
    LET overview == BuildCapabilityOverview(request[c].read["resolution"])
    IN  /\ Ready(c, "tool_overview")
        /\ IF overview.ok THEN Reply(c, <<Plain("overview", overview.value)>>)
           ELSE ReplyError(c, Refused(overview.code))

(* Of the deployed skills only there is no source root to scan.            *)
SkillsOf(r) ==
    ScanSkills(r.read["deployedSkills"],
               IF r.args.deployedOnly THEN [readable |-> FALSE] ELSE r.read["sourceSkills"])

ListSkills(c) ==
    LET r == request[c]
        deployed == {s \in SkillsOf(r) : s.deployed}
        rest == SkillsOf(r) \ deployed
    IN  /\ Ready(c, "list_skills")
        /\ Reply(c, <<Part(language, "title", 0),
                      Part(r.labels, "total", <<Cardinality(deployed), Cardinality(rest)>>),
                      FormatSkillsTable(language, deployed)>>
                    \o (IF r.args.deployedOnly THEN <<>> ELSE <<FormatSkillsTable(language, rest)>>))

FindSkill(c) ==
    LET r == request[c]
    IN  /\ Ready(c, "find_skill")
        /\ Reply(c, <<FormatSkillMatches(language,
                          FindSkills(r.args.intent, SkillsOf(r), r.args.limit))>>)

SemanticRoute(c) ==
    LET r == request[c]
        route == ResolveSemanticRoute(r.read["routingMap"], SkillsOf(r), r.args)
    IN  /\ Ready(c, "resolve_semantic_route")
        /\ IF route.ok THEN Reply(c, <<Plain("route", route.value)>>)
           ELSE ReplyError(c, Refused(route.code))

(* A root that is given replaces that provider's default; a claude root    *)
(* that is given drops the defaults of the other two.  A dropped codex     *)
(* root is then the empty path, below which cache/ may still be found.     *)
PluginsOf(r) ==
    LET a == r.args
        none == [direct |-> <<>>, cached |-> {}]
        codex == a.codexRoot \/ ~a.claudeRoot
        antigravity == a.antigravityRoot \/ ~a.claudeRoot
        antigravityTree == IF antigravity THEN r.read["antigravity"] ELSE none
    IN  CASE a.pluginsOnly /\ (codex \/ antigravity) ->
               ScanAllInstalledPlugins(r.read["claudeRegistry"], r.read["installedDirs"],
                   IF codex THEN r.read["codex"] ELSE [r.read["codex"] EXCEPT !.direct = <<>>],
                   antigravityTree)
          [] a.pluginsOnly /\ ~codex /\ ~antigravity ->
               ScanInstalledPlugins(r.read["claudeRegistry"], r.read["installedDirs"])
          [] ~a.pluginsOnly /\ a.modulesOnly ->
               ScanModules(r.read["moduleCatalog"], r.read["moduleDirs"])
          [] OTHER ->
               ScanPluginsAndModules(r.read["claudeRegistry"], r.read["installedDirs"],
                   IF codex THEN r.read["codex"] ELSE none, antigravityTree,
                   r.read["moduleCatalog"], r.read["moduleDirs"])

ListPlugins(c) ==
    LET r == request[c]
        of(type) == {p \in PluginsOf(r) : p.type = type}
        table(type, hidden) == IF hidden THEN <<>> ELSE <<FormatPluginsTable(language, of(type))>>
    IN  /\ Ready(c, "list_plugins")
        /\ Reply(c, <<Part(language, "title", 0),
                      Part(r.labels, "total", <<Cardinality(of("plugin")), Cardinality(of("module"))>>)>>
                    \o table("plugin", r.args.modulesOnly) \o table("module", r.args.pluginsOnly))

(* -------------------------- Host registers ----------------------------- *)
ListLocksFor(c) ==
    LET r == request[c].read
    IN  /\ Ready(c, "list_locks")
        /\ Reply(c, <<FormatLockList(ListLocks(r["lockRoots"], r["lockScans"], r["bridge"]))>>)

CheckLockFor(c) ==
    LET r == request[c].read
    IN  /\ Ready(c, "check_lock")
        /\ Reply(c, <<FormatLockCheck(CheckLock(r["lockScripts"], r["lockReply"], r["bridge"]))>>)

EvaluatePermissionFor(c) ==
    LET r == request[c].read
    IN  /\ Ready(c, "evaluate_permission")
        /\ Reply(c, <<FormatPermission(EvaluatePermission(r["lockScripts"], r["place"], r["bridge"]))>>)

ListDecisionsFor(c) ==
    LET r == request[c].read
    IN  /\ Ready(c, "list_decisions")
        /\ Reply(c, <<FormatDecisions(ListDecisions(r["index"], r["chain"], r["bridge"],
                                                    request[c].args.limit))>>)

ListGovernanceFor(c) ==
    LET r == request[c].read
    IN  /\ Ready(c, "list_governance")
        /\ Reply(c, <<FormatGovernance(ListGovernance(r["index"], r["chain"], r["registry"], r["plans"],
                                                      r["bridge"], request[c].args.limit))>>)

ListResourcesFor(c) ==
    LET r == request[c]
    IN  /\ Ready(c, "list_resources")
        /\ Reply(c, <<FormatResources(ListResources(r.read["inventory"], r.read["bridge"],
                                                    r.args.type, r.args.host, r.args.limit))>>)

DescribeResourceFor(c) ==
    LET r == request[c]
    IN  /\ Ready(c, "describe_resource")
        /\ Reply(c, <<FormatResource(DescribeResource(r.read["inventory"], r.read["bridge"],
                                                      r.args.id, r.args.type))>>)

(* --------------------------- Gateway, receipt -------------------------- *)
ListAvailableTools(c) ==
    LET r == request[c]
    IN  /\ Ready(c, "list_available_tools")
        /\ Reply(c, <<FormatGatewayToolListing(ListGatewayTools(r.read["gatewayScope"],
                                                  r.read["serverTools"], r.args.server))>>)

(* Any outcome but ok is flagged; how it comes about is in GatewayInvoke.  *)
Invoke(c) ==
    LET result == request[c].read["invocation"]
    IN  /\ Ready(c, "invoke")
        /\ IF result.outcome = "ok" THEN Reply(c, <<FormatGatewayInvocation(result)>>)
           ELSE ReplyError(c, <<FormatGatewayInvocation(result)>>)

ActualSelfReceipt(c) ==
    LET r == request[c].read
    IN  /\ Ready(c, "actual_self_receipt")
        /\ Reply(c, <<Plain("receipt", ProduceActualSelfReceipt(r["receiptConfig"], r["key"],
                                                                r["version"], r["probe"]))>>)

--------------------------------------------------------------------------------
(* The answer is delivered.                                                *)
Delivered(c) ==
    /\ request[c].page # <<>>
    /\ request' = [request EXCEPT ![c] = Idle]
    /\ UNCHANGED <<language, catalogFile, host>>

(* The process ends and is started again.                                  *)
Crash ==
    /\ request # [c \in Clients |-> Idle]
    /\ request' = [c \in Clients |-> Idle]
    /\ language' = StartLanguage
    /\ catalogFile' = [catalogFile EXCEPT !.writers = {}, !.mixed = FALSE]
    /\ UNCHANGED host

Happens(event, changed) ==
    /\ host' = changed
    /\ request' = Noted(event, {})
    /\ UNCHANGED <<language, catalogFile>>

Upgrade == host.release < MaxReleases /\ Happens("upgrade", [host EXCEPT !.release = @ + 1])
Decide == host.decided < MaxDecided /\ Happens("decide", [host EXCEPT !.decided = @ + 1])
Reindex == host.indexed < host.decided /\ Happens("reindex", [host EXCEPT !.indexed = host.decided])

Answer(c) ==
    \/ GetLanguage(c) \/ SetLanguage(c) \/ Status(c) \/ ListLocalServers(c) \/ DescribeMcp(c)
    \/ ListTools(c) \/ AssignToolBundles(c) \/ ListBundles(c) \/ SuggestBundles(c)
    \/ WriteBegin(c) \/ WriteEnd(c) \/ WriteFails(c)
    \/ ListProfiles(c) \/ SuggestProfileFor(c) \/ ResolveProfile(c) \/ SwitchProfile(c)
    \/ AuditProfile(c) \/ ListStacks(c) \/ DescribeStackFor(c) \/ ContextPack(c)
    \/ FindCapability(c) \/ ToolOverview(c) \/ ListSkills(c) \/ FindSkill(c) \/ SemanticRoute(c)
    \/ ListPlugins(c) \/ ListLocksFor(c) \/ CheckLockFor(c) \/ EvaluatePermissionFor(c)
    \/ ListDecisionsFor(c) \/ ListGovernanceFor(c) \/ ListResourcesFor(c) \/ DescribeResourceFor(c)
    \/ ListAvailableTools(c) \/ Invoke(c) \/ ActualSelfReceipt(c)

Next ==
    \/ \E c \in Clients : Begin(c) \/ Read(c) \/ Answer(c) \/ Delivered(c)
    \/ Crash \/ Upgrade \/ Decide \/ Reindex

Spec == Init /\ [][Next]_vars

--------------------------------------------------------------------------------
Answered(c, tool) == request[c].tool = tool /\ request[c].page # <<>> /\ ~request[c].error
Shown(c, i) == request[c].page[i].shows

(* Whatever a server of the audited profile matches is among the findings, *)
(* unless a rule file that could be understood as a whole switched that    *)
(* very rule off: no trouble with the file silences a rule                 *)
(* (src/src/policy.ts:221, src/src/index.ts:933).                          *)
AuditNeverSilent ==
    \A c \in Clients : Answered(c, "audit_profile") =>
        LET servers == request[c].read["profile"].value.servers
            file == request[c].read["policy"]
        IN  \A s \in DOMAIN servers : \A r \in Matches(servers[s]) :
                \/ \E f \in Shown(c, 2) : f.rule = r /\ f.server = s
                \/ /\ file.state = "list"
                   /\ \A e \in Elements(file.entries) : e.id \in RuleIds
                   /\ \E e \in Elements(file.entries) : e.id = r /\ e.enabled = "false"

(* A receipt is signed with the pinned key, for this host, for at most the *)
(* longest lifetime, and only when the probed process itself listed the    *)
(* receipt tool.  Its version, read before the probe, is that of the       *)
(* probed release unless the package was replaced in between               *)
(* (src/src/actualSelfReceipt.ts:207).                                     *)
ReceiptBacked ==
    \A c \in Clients : Answered(c, "actual_self_receipt") =>
        LET receipt == Shown(c, 1)
            config == request[c].read["receiptConfig"]
        IN  /\ receipt.host = "native" /\ receipt.signedWith = config.pin
            /\ receipt.expiresAfter \in 1..MaxTtlSeconds
            /\ "controlcenter_actual_self_receipt" \in receipt.readback.tools
            /\ receipt.readback.version # receipt.probed => "upgrade" \in request[c].during

(* The server's own words in an answer are in more than one language only  *)
(* if another request changed the language while it was made: some of them *)
(* are chosen before the readings and some after                           *)
(* (src/src/i18n/index.ts:29).  Not counted are wordings that are English  *)
(* once for all, content of files, and the descriptions of the bundles     *)
(* that the source defines: these are German beside words in any language  *)
(* (src/src/bundles.ts:75, src/src/index.ts:170).                          *)
Translated(c) == {i \in DOMAIN request[c].page : request[c].page[i].of # "description"}
LanguagesOf(c) == {request[c].page[i].in : i \in Translated(c)} \ {"none"}
LanguageMixExplained ==
    \A c \in Clients : Cardinality(LanguagesOf(c)) > 1 => "set_language" \in request[c].during

(* When build_catalog has answered, the file holds what it read, complete, *)
(* unless another request wrote the file at the same time or since         *)
(* (src/src/index.ts:1008).                                                *)
SuccessMeansWritten ==
    \A c \in Clients : Answered(c, "build_catalog") /\ "write" \notin request[c].during =>
        ~catalogFile.torn /\ catalogFile.content = <<Payload(request[c])>>

(* What a limit cuts off is told: in each group of a handoff the lines     *)
(* left out are counted; a first candidate that another equals is told to  *)
(* be ambiguous even where the limit hides the other; and the number of    *)
(* matching decisions counts those not shown (src/src/contextPack.ts:26,   *)
(* src/src/capabilityFinder.ts:243). A line is an item's first 160         *)
(* characters. Of two items with the same line one is dropped before the   *)
(* count and told nowhere.                                                 *)
CutsAreTold ==
    /\ \A c \in Clients : Answered(c, "context_pack") =>
          LET groups == StackOf(request[c]).value.groups
              told == Shown(c, 1).groups
              lines(g) == Lines(Elements(groups[g]))
          IN  \A g \in DOMAIN groups :
                 /\ Elements(told[g].shown) \subseteq lines(g)
                 /\ Cardinality(lines(g) \ Elements(told[g].shown)) = told[g].omitted
    /\ \A c \in Clients : Answered(c, "find_capability") =>
          LET all == ClaimedNativeComponents(request[c].read["resolution"]).value
              query == request[c].args.query
              first == Shown(c, 1).candidates[1]
          IN  Shown(c, 1).status = "declared-not-observed" =>
                 \A other \in all \ {first} : Score(query, other) < Score(query, first)
    /\ \A c \in Clients : Answered(c, "list_decisions") /\ ~Shown(c, 1).reason =>
          Shown(c, 1).matches = Len(request[c].read["index"].entries)

(* A resolved route leads to skills that are deployed, have a SKILL.md,    *)
(* and share their name with no other such skill; each was declared by the *)
(* chosen expert or is the candidate the caller confirmed                  *)
(* (src/src/semanticRouting.ts:247).                                       *)
RouteVerified ==
    \A c \in Clients : Answered(c, "resolve_semantic_route") =>
        LET route == Shown(c, 1)
            skills == SkillsOf(request[c])
            named(name) == {s \in skills : Normalize(s.name) = Normalize(name)}
            offered == UNION {{d.skill : d \in Elements(e.endpoints)} : e \in route.selection.expert}
            confirmed == UNION {Elements(e.candidates) : e \in route.selection.expert}
        IN  /\ route.status = "resolved" <=> route.endpoints # {}
            /\ \A s \in route.endpoints :
                 /\ s.deployed /\ s.hasSkillMd
                 /\ {o \in named(s.name) : o.deployed /\ o.hasSkillMd} = {s}
                 /\ \/ Normalize(s.name) \in {Normalize(n) : n \in offered}
                    \/ Normalize(s.name) = Normalize(request[c].args.confirmed)
                       /\ Normalize(s.name) \in {Normalize(n) : n \in confirmed}

(* A list of decisions that lacks one made before its sources were looked  *)
(* at is told to be stale, unless the index was generated anew between the *)
(* reading of it and the look at its age                                   *)
(* (src/scripts/controlroom_bridge.py:555).                                *)
StaleUnlessReindexed ==
    \A c \in Clients : Answered(c, "list_decisions") \/ Answered(c, "list_governance") =>
        LET shown == Shown(c, 1)
            listed == IF request[c].tool = "list_decisions" THEN ~shown.reason
                      ELSE shown.status["decisions"] = "available"
            read == request[c].read
        IN  listed /\ ~shown.stale /\ Len(read["index"].entries) < read["chain"].decided =>
                "reindex" \in request[c].during

(* What reassures was read: a scan of locks that is told to be complete    *)
(* reached every root, a path told to be clear or an action told to be     *)
(* allowed was decided by the register, governance that is complete has    *)
(* all of its sources, a complete tool listing heard every server asked    *)
(* (src/src/index.ts:1265).                                                *)
UnknownNeverReassures ==
    \A c \in Clients : request[c].page # <<>> =>
        LET read == request[c].read
            told(tool) == Answered(c, tool)
            asked == read["bridge"] = "answered"
        IN  /\ told("list_locks") /\ Shown(c, 1).complete =>
                 /\ asked /\ read["lockRoots"].state = "list"
                 /\ \A s \in Elements(read["lockScans"]) : s.readable /\ ~s.late
            /\ told("check_lock") /\ (Shown(c, 1).safe \/ Shown(c, 1).banner = "clear") =>
                 /\ asked /\ read["lockScripts"].state = "list" /\ read["lockReply"].verdict = "clear"
            /\ told("evaluate_permission") /\ Shown(c, 1) = "allow" =>
                 /\ asked /\ read["lockScripts"].state = "list" /\ read["place"].exists
                 /\ \E r \in Elements(read["place"].registers) : r = "allow"
            /\ told("list_governance") /\ Shown(c, 1).complete =>
                 /\ asked /\ {read[s].state : s \in {"index", "registry", "plans"}} = {"list"}
            /\ told("list_available_tools") /\ Shown(c, 1).complete =>
                 /\ ~read["gatewayScope"].error
                 /\ \A s \in read["gatewayScope"].targets :
                      request[c].args.server \in {0, s} => read["serverTools"][s].status = "ok"
================================================================================
