----------------------------- MODULE MCControlCenter ----------------------------
(* One client that makes every call, and one that changes the language or  *)
(* writes the catalog beside it.  Each source holds what is wanted of it,  *)
(* and what may be wrong with it.                                          *)
EXTENDS ControlCenter, TLC
CONSTANTS c1, c2

Call(tool, argses) == {[tool |-> tool, args |-> a] : a \in argses}
Build(tools, assign, profile) == [tools |-> tools, assign |-> assign, profile |-> profile]
Roots(p, m, a, b, g) ==
    [pluginsOnly |-> p, modulesOnly |-> m, claudeRoot |-> a, codexRoot |-> b, antigravityRoot |-> g]
Route(r, e, p, k) ==
    [role |-> r, expert |-> e, persona |-> p, confirmed |-> k, intent |-> {1, 5}, limit |-> 1,
     deployedOnly |-> FALSE]
Pick(name) == [name |-> name]
Up(level) == [name |-> 2, level |-> level]

LanguageCalls == Call("set_language", {[language |-> "de"]})

CatalogCalls ==
    UNION {Call(t, {<<>>}) : t \in {"get_language", "status", "list_local_servers", "list_bundles"}}
    \union Call("describe_mcp", {Pick(3), Pick(7), Pick(8)})
    \union UNION {Call(t, {[profile |-> 0, server |-> 0], [profile |-> 0, server |-> 1],
                           [profile |-> 5, server |-> 0]}) : t \in {"list_tools", "assign_tool_bundles"}}
    \union Call("suggest_bundles", {[task |-> {"file", "document", "security"}]})
    \union Call("build_catalog", {Build(TRUE, FALSE, 5), Build(FALSE, TRUE, 0)})

ProfileCalls ==
    UNION {Call(t, {<<>>}) : t \in {"list_profiles", "resolve_profile", "audit_profile"}}
    \union Call("suggest_profile", {[task |-> {"code", "paper"}], [task |-> {}]})
    \union Call("switch_profile", {[write |-> TRUE], [write |-> FALSE]})

FindingCalls ==
    Call("list_stacks", {<<>>}) \union Call("describe_stack", {Pick(1), Pick(2)})
    \union Call("context_pack", {Up("short"), Up("full")}) \union Call("tool_overview", {<<>>})
    \union Call("find_capability", {[query |-> {1, 5}, limit |-> 1], [query |-> {5}, limit |-> 1]})
    \union Call("list_skills", {[deployedOnly |-> TRUE], [deployedOnly |-> FALSE]})
    \union Call("find_skill", {[intent |-> {1, 5}, limit |-> 2, deployedOnly |-> FALSE]})
    \union Call("resolve_semantic_route",
             {Route(0, 0, 0, 0), Route(1, 0, 0, 0), Route(1, 2, 3, 0), Route(0, 2, 0, 2), Route(9, 2, 0, 0)})
    \union Call("list_plugins", {Roots(FALSE, FALSE, FALSE, FALSE, FALSE), Roots(TRUE, FALSE, TRUE, FALSE, TRUE),
                                 Roots(TRUE, FALSE, TRUE, FALSE, FALSE), Roots(FALSE, TRUE, FALSE, FALSE, FALSE)})

HostCalls ==
    UNION {Call(t, {<<>>}) : t \in {"list_locks", "check_lock", "evaluate_permission",
                                    "actual_self_receipt", "invoke"}}
    \union UNION {Call(t, {[limit |-> 1]}) : t \in {"list_decisions", "list_governance"}}
    \union Call("list_resources", {[type |-> "all", host |-> 0, limit |-> 1]})
    \union Call("describe_resource", {[id |-> 1, type |-> "software"], [id |-> 1, type |-> "systems"]})
    \union Call("list_available_tools", {[server |-> 0], [server |-> 1], [server |-> 7]})

MCOffered ==
    c1 :> (CatalogCalls \union ProfileCalls \union FindingCalls \union HostCalls)
      @@ c2 :> (LanguageCalls \union Call("build_catalog", {Build(FALSE, FALSE, 0)}))

MCTogether ==
    {{t, "set_language"} : t \in {"list_tools", "list_skills", "audit_profile"}}
    \union {{"build_catalog"}}

MCEnvironment == <<"none", "fr", "en">>

--------------------------------------------------------------------------------
Package(name, text, count) == [json |-> TRUE, name |-> name, text |-> text, toolCount |-> count]
Entry(id, npm) == [id |-> id, npm |-> npm, wellFormed |-> TRUE, persistent |-> "yes"]
Asked(status, tools) == [status |-> status, tools |-> tools]
Config(command, env) ==
    [record |-> TRUE, command |-> command, env |-> env, sensitive |-> FALSE, url |-> FALSE]
Rule(id, enabled) == [id |-> id, enabled |-> enabled, severity |-> "unset"]
List(entries) == [state |-> "list", entries |-> entries]
State(s) == [state |-> s]

CatalogContents ==
    "listing" :> {[readable |-> FALSE], [readable |-> TRUE, names |-> {1, 2, 4}]}
    @@ "packages" :> {<<Package(0, {"file"}, 2), Package(3, {"document", "security"}, -1), [json |-> FALSE],
                        [json |-> FALSE]>>}
    @@ "mcpCatalog" :> {State("absent"), List(<<Entry(8, 3), Entry(1, 0)>>), List(<<Entry(1, 0), Entry(1, 3)>>)}
    @@ "bundleConfig" :> {State("absent"), State("notJson"),
                          List(<<[id |-> 1, titled |-> TRUE, keywords |-> {{"file"}, {}}]>>)}
    @@ "serverTools" :> {<<Asked("ok", <<{"file"}, {"zip"}>>), Asked("unsupported", <<>>),
                           Asked("error", <<>>)>>}
    @@ "profileRoot" :> {[readable |-> FALSE],
                         [readable |-> TRUE, files |-> <<[json |-> TRUE, extends |-> <<>>, servers |-> {1}],
                                                         [json |-> FALSE]>>]}
    @@ "profile" :> {Error("profile-missing"),
                     Ok([name |-> 5, servers |-> <<Config("npx", TRUE), Config("", FALSE), [record |-> FALSE]>>])}
    @@ "profileWritten" :> {Ok(0), Error("write-failed")}
    @@ "policy" :> {State("absent"), State("notJson"), List(<<Rule("missing-command", "false")>>),
                    List(<<Rule("missing-command", "false"), Rule("other", "unset")>>)}

--------------------------------------------------------------------------------
Component(ref, class, role, provides) ==
    [ref |-> ref, prefix |-> "mcp", type |-> "mcp", class |-> class, role |-> role,
     provides |-> provides, consumes |-> {}, binding |-> ref]
Resolved(hashed, components) ==
    [state |-> "object", schema |-> TRUE, hashed |-> hashed, verified |-> TRUE,
     bundles |-> <<[id |-> 1, components |-> components]>>]
(* What an item's line does not show of it is its tail.                    *)
Item(line, tail) == [line |-> line, tail |-> tail]
Skill(dir, md, name, text) ==
    [dir |-> dir, md |-> md, name |-> name, category |-> 7, aliases |-> {}, tags |-> {}, text |-> text]
Dir(caps, manifests, version) ==
    [caps |-> caps, manifests |-> manifests, versions |-> <<0, version, 0, 0, 0>>]
Bare == Dir({}, <<>>, 0)
Described == <<[name |-> 4, version |-> 0, declares |-> {"hooks"}]>>

FindingContents ==
    "stackCatalog" :> {State("absent"),
                       List(<<[id |-> 1, object |-> TRUE, wellFormed |-> TRUE, inside |-> FALSE],
                              [id |-> 2, object |-> TRUE, wellFormed |-> TRUE, inside |-> TRUE]>>)}
    @@ "manifests" :> {<<[object |-> FALSE], [object |-> FALSE]>>,
                       <<[object |-> FALSE],
                         [object |-> TRUE, schema |-> TRUE, id |-> 2, groups |-> "skills" :> <<Item(3, 0), Item(1, 1), Item(3, 0), Item(3, 2)>>,
                          roles |-> {Item(1, 0), Item(2, 0)}, policies |-> "shown" :> "flat" @@ "kept" :> "flat"]>>}
    @@ "resolution" :> {State("absent"), Resolved(FALSE, <<>>),
                        Resolved(TRUE, <<Component(1, "native-binding", 3, {5}), Component(2, "other", 3, {5}),
                                         Component(3, "native-binding", 6, {1, 5})>>),
                        Resolved(TRUE, <<Component(1, "native-binding", 1, {5}),
                                         Component(2, "native-binding", 6, {5}),
                                         Component(3, "native-binding", 4, {5})>>),
                        Resolved(TRUE, <<Component(1, "native-binding", 3, {5}),
                                         [Component(1, "native-binding", 3, {}) EXCEPT !.binding = 2]>>)}
    @@ "deployedSkills" :> {[readable |-> FALSE],
                            [readable |-> TRUE, dirs |-> {Skill(1, TRUE, 0, {5}), Skill(2, FALSE, 0, {})}],
                            [readable |-> TRUE, dirs |-> {Skill(1, TRUE, 0, {5}), Skill(4, TRUE, 11, {5}),
                                                          Skill(2, TRUE, 0, {})}]}
    @@ "sourceSkills" :> {[readable |-> TRUE,
                           categories |-> 6 :> [readable |-> TRUE, dirs |-> {Skill(1, TRUE, 0, {5}),
                                                                             Skill(3, TRUE, 2, {1})}]]}
    @@ "routingMap" :> {State("absent"),
                        [state |-> "map", skills |-> {1, 2}, gaps |-> {},
                         coordinators |-> <<[id |-> 1, experts |-> {2}, personas |-> {3}]>>,
                         experts |-> <<[id |-> 2, parents |-> {1}, personas |-> {3}, candidates |-> <<2>>,
                                        endpoints |-> <<[skill |-> 1]>>]>>,
                         personas |-> <<[id |-> 3, roles |-> {1}, skills |-> {1}]>>]}
    @@ "claudeRegistry" :> {State("absent"),
                            [state |-> "list", installs |-> <<[name |-> 1, version |-> 2, path |-> 1],
                                                              [name |-> 2, version |-> 1, path |-> 0]>>]}
    @@ "installedDirs" :> {<<Dir({"skills"}, <<>>, 0)>>}
    @@ "codex" :> {[cached |-> {[name |-> 1, dir |-> Bare, versions |-> <<Dir({"skills"}, <<>>, 0)>>],
                                [name |-> 2, dir |-> Dir({}, Described, 0), versions |-> <<>>]},
                    direct |-> <<Bare>>]}
    @@ "antigravity" :> {[direct |-> <<Dir({"hooks"}, <<>>, 0), Bare>>]}
    @@ "moduleCatalog" :> {State("absent"), List(<<[id |-> 1, version |-> 0, path |-> 2, surfaces |-> {"cli"}],
                                                   [id |-> 0, version |-> 1, path |-> 1, surfaces |-> {}]>>)}
    @@ "moduleDirs" :> {<<Dir({}, Described, 0), Dir({"skills"}, <<>>, 3)>>}

--------------------------------------------------------------------------------
Scan(readable, late, locks) == [readable |-> readable, late |-> late, locks |-> locks]
Place(exists, registers) == [exists |-> exists, registers |-> registers]
Receipt(ttl, at) == [shape |-> "exact", enabled |-> TRUE, ttl |-> ttl, host |-> at, pin |-> "pinned"]
Outcome(outcome, delivered, content) ==
    [outcome |-> outcome, delivered |-> delivered, audit |-> "written", content |-> content]

HostContents ==
    "receiptConfig" :> {[shape |-> "unset"], Receipt(MaxTtlSeconds, "native"), Receipt(MaxTtlSeconds + 1, "native"),
                        Receipt(1, "container")}
    @@ "key" :> {[readable |-> TRUE, digest |-> d, type |-> "ed25519"] : d \in {"pinned", "other"}}
    @@ "version" :> BOOLEAN
    @@ "probe" :> {Asked("ok", {"controlcenter_actual_self_receipt", "controlcenter_status"}),
                   Asked("ok", {"controlcenter_status"}), Asked("timeout", {})}
    @@ "lockRoots" :> {State(s) : s \in {"unconfigured", "list", "unreadable"}}
    @@ "lockScans" :> {<<Scan(TRUE, FALSE, {1}), Scan(TRUE, FALSE, {})>>,
                       <<Scan(FALSE, FALSE, {}), Scan(TRUE, FALSE, {2})>>,
                       <<Scan(TRUE, TRUE, {}), Scan(TRUE, FALSE, {2})>>}
    @@ "lockScripts" :> {State("unconfigured"), State("list")}
    @@ "lockReply" :> {[verdict |-> "clear", safe |-> TRUE, locks |-> {}],
                       [verdict |-> "locked", safe |-> FALSE, locks |-> {1}], Unknown}
    @@ "bridge" :> {"answered", "failed"}
    @@ "place" :> {Place(FALSE, <<>>), Place(TRUE, <<"none", "allow">>), Place(TRUE, <<"invalid", "allow">>),
                   Place(TRUE, <<"deny", "allow">>)}
    @@ "index" :> {"unconfigured", "rootless", "absent", "list"}
    @@ "chain" :> BOOLEAN
    @@ "registry" :> {State("unconfigured"),
                      List(<<[kind |-> "norm", valid |-> TRUE], [kind |-> "other", valid |-> FALSE]>>)}
    @@ "plans" :> {State("unconfigured"), List(<<[valid |-> TRUE]>>), List(<<[valid |-> FALSE]>>)}
    @@ "inventory" :> {State("unconfigured"), State("unopenable"), State("unreadable"),
                       [state |-> "list", rows |-> <<[id |-> 1, type |-> "software", host |-> 1],
                                                     [id |-> 2, type |-> "systems", host |-> 2]>>]}
    @@ "gatewayScope" :> {[error |-> TRUE, targets |-> {}], [error |-> FALSE, targets |-> {1, 3}]}
    @@ "invocation" :> {Outcome("ok", TRUE, {"text"}), Outcome("target-error", TRUE, {"text"}),
                        Outcome("policy-denied", FALSE, {})}

MCContents == CatalogContents @@ FindingContents @@ HostContents
=============================================================================
