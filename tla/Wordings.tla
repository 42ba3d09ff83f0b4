-------------------------------- MODULE Wordings --------------------------------
(***************************************************************************)
(* The texts that answers are made of: of each, the language it is written *)
(* in ("none" where the wording is fixed) and what it tells a reader.      *)
(* Layout is left out.                                                     *)
(***************************************************************************)
EXTENDS Answers

Part(language, of, shows) == [in |-> language, of |-> of, shows |-> shows]
Plain(of, shows) == Part("none", of, shows)
Field(result, f, default) == IF f \in DOMAIN result THEN result[f] ELSE default

(* ---------------------------- src/src/index.ts ------------------------- *)
PersistentState(entry) == IF entry = {} THEN "unset" ELSE (CHOOSE e \in entry : TRUE).persistent

(* An unknown tool count is told as not available, here and below as -1.   *)
FormatServerTable(language, rows) ==
    Part(language, "servers",
         {[dir |-> r.server.dir, tools |-> r.server.toolCount,
           state |-> PersistentState(r.entry)] : r \in rows})

FormatCatalogNote(language, catalog) ==
    Part(language, "catalog", [status |-> catalog.status, entries |-> Len(catalog.entries)])

FormatProfileTable(language, profiles) ==
    Part(language, "profiles", {[name |-> p.name, servers |-> Cardinality(p.servers)] : p \in profiles})

FormatBundleTable(language, bundles) ==
    Part(language, "bundles",
         [i \in DOMAIN bundles |-> [id |-> bundles[i].id, tools |-> bundles[i].totalTools,
                                    servers |-> Cardinality(bundles[i].servers)]])

(* The last column of that table: the descriptions as they are defined.    *)
(* Definitions are loaded as a whole: of one file, or all built in.        *)
BundleDescriptions(bundles) ==
    Part(IF \E i \in DOMAIN bundles : bundles[i].about = "de" THEN "de" ELSE "none",
         "description", {bundles[i].id : i \in DOMAIN bundles})

FormatStackTable(stacks) ==
    Plain("stacks", [i \in DOMAIN stacks |-> [id |-> stacks[i].id, warnings |-> stacks[i].warnings,
                                              counts |-> stacks[i].counts]])

FormatToolCatalog(language, catalog) ==
    Part(language, "tools",
         [i \in DOMAIN catalog |-> [server |-> catalog[i].server, status |-> catalog[i].status,
                                    tools |-> DOMAIN catalog[i].tools]])

(* A target without a supported start form was explained when the targets *)
(* were made, in the language of that moment.                              *)
ProbeNotes(catalog) ==
    LET noted == AtPlaces(catalog, {i \in DOMAIN catalog : catalog[i].note # "none"})
    IN  [i \in DOMAIN noted |-> Part(noted[i].note, "note", noted[i].server)]

FormatBundleToolAssignments(language, assignments) == Part(language, "assignments", assignments)

FormatLanguageReport(language) == Part(language, "language", language)

(* Operators named Broken... are plausible mistakes in the definition that *)
(* shares their name; no specification uses them.                          *)
BrokenFormatSkillsTable(language, skills) ==
    Part("de", "skills", {<<s.name, s.category, s.deployed>> : s \in skills})

FormatSkillsTable(language, skills) ==
    Part(language, "skills", {<<s.name, s.category, s.deployed>> : s \in skills})

FormatPluginsTable(language, plugins) ==
    Part(language, "plugins",
         {[type |-> p.type, name |-> p.name, version |-> p.version, caps |-> p.caps] : p \in plugins})

FormatSkillMatches(language, matches) ==
    Part(language, "matches", [i \in DOMAIN matches |-> <<matches[i].name, matches[i].deployed>>])

(* --------------------------- src/src/gateway.ts ------------------------ *)
(* A listing that could not be made, or of an unknown server, shows no     *)
(* rows; a server that could not be asked shows no tools.                  *)
FormatGatewayToolListing(listing) ==
    Plain("gateway",
          [complete |-> listing.complete,
           rows |-> IF listing.scopeError \/ listing.unknownServer THEN {}
                    ELSE {[server |-> r.server, toolCount |-> r.toolCount,
                           tools |-> IF r.status = "ok" THEN r.tools ELSE {}] : r \in listing.servers}])

(* Content of another server is shown below a banner that says so, and     *)
(* only where there is any.                                                *)
FormatGatewayInvocation(result) ==
    Plain("invocation",
          [outcome |-> result.outcome, delivered |-> result.delivered, audit |-> result.audit,
           content |-> IF result.outcome \in {"ok", "target-error"} THEN result.content ELSE {},
           banner  |-> result.outcome \in {"ok", "target-error"} /\ result.content # {}])

(* ------------------------- src/src/controlroom.ts ---------------------- *)
VerdictBanner(result) ==
    CASE result.verdict = "clear"   -> "clear"
      [] result.verdict = "unknown" -> "treat as locked"
      [] OTHER                      -> "do not modify"

FormatLockCheck(result) ==
    Plain("lock", [banner |-> VerdictBanner(result), safe |-> Field(result, "safe", FALSE),
                   locks |-> Field(result, "locks", {})])

FormatLockList(result) ==
    Plain("locks", [complete |-> result.verdict = "complete",
                    reason |-> result.verdict = "unknown", skipped |-> Field(result, "skipped", {}),
                    locks |-> Field(result, "locks", {})])

FormatPermission(result) == Plain("permission", result.verdict)

(* The number of matches is the number of rows where none is given: also   *)
(* where there was no register to read.                                    *)
FormatDecisions(result) ==
    LET rows == Field(result, "decisions", <<>>)
    IN  Plain("decisions", [stale |-> result.verdict = "stale",
                            reason |-> result.verdict \notin {"ok", "stale"},
                            matches |-> Field(result, "matches", Len(rows)), rows |-> rows])

FormatGovernance(result) ==
    Plain("governance",
          [complete |-> result.verdict = "complete",
           stale    |-> Field(result.sources.decisions, "stale", FALSE),
           status   |-> [s \in DOMAIN result.sources |-> result.sources[s].status],
           rows     |-> [s \in DOMAIN result.sources |-> result.sources[s].rows]])

FormatResources(result) ==
    LET rows == Field(result, "resources", <<>>)
    IN  Plain("resources", [reason |-> result.verdict # "ok", matches |-> Field(result, "matches", Len(rows)), rows |-> rows])

FormatResource(result) ==
    Plain("resource", [verdict |-> result.verdict, row |-> Field(result, "resource", {})])
================================================================================
