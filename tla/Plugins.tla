-------------------------------- MODULE Plugins ---------------------------------
(***************************************************************************)
(* src/src/plugins.ts: the plugins of three providers and the local        *)
(* modules.  A directory is [caps, manifests, versions]: the capabilities  *)
(* its listing shows, {} if it cannot be listed; the manifests it has, in  *)
(* the order they are looked for; and, for a module, the version that each *)
(* of five files gives, 0 for none.  Names and versions are numbers.       *)
(***************************************************************************)
EXTENDS Answers, FiniteSetsExt

Plugin(provider, name, version, caps) ==
    [type |-> "plugin", provider |-> provider, name |-> name, version |-> version, caps |-> caps]

Module(name, version, caps) == [type |-> "module", name |-> name, version |-> version, caps |-> caps]

(* Every install of the registry is listed, its directory there or not.    *)
ScanInstalledPlugins(registry, dirs) ==
    IF registry.state # "list" THEN {}
    ELSE {Plugin("claude-code", i.name, i.version, IF i.path = 0 THEN {} ELSE dirs[i.path].caps) :
            i \in Elements(registry.installs)}

(* The name or version that the first manifest gives, or else the other.   *)
FirstManifest(dir) == IF dir.manifests = <<>> THEN {} ELSE {dir.manifests[1]}
Given(manifests, Field(_), other) ==
    IF \E m \in manifests : Field(m) # 0 THEN Field(CHOOSE m \in manifests : TRUE) ELSE other

(* A directory that has neither a manifest nor a capability is no plugin.  *)
InspectDir(dir, provider, name, version) ==
    LET manifest == FirstManifest(dir)
        declared == IF provider = "codex" THEN UNION {m.declares : m \in manifest} ELSE {}
    IN  IF manifest = {} /\ dir.caps = {} THEN {}
        ELSE {Plugin(provider, Given(manifest, LAMBDA m : m.name, name),
                     Given(manifest, LAMBDA m : m.version, version), dir.caps \union declared)}

(* Below cache/ a plugin's directory, or else its versions' directories;   *)
(* then the directories beside cache/.                                     *)
ScanCodexPlugins(tree) ==
    (UNION {IF p.dir.manifests # <<>> THEN InspectDir(p.dir, "codex", p.name, 0)
            ELSE UNION {InspectDir(p.versions[v], "codex", p.name, v) : v \in DOMAIN p.versions} :
               p \in tree.cached})
    \union UNION {InspectDir(tree.direct[n], "codex", n, 0) : n \in DOMAIN tree.direct}

ScanAntigravityPlugins(tree) ==
    UNION {InspectDir(tree.direct[n], "antigravity", n, 0) : n \in DOMAIN tree.direct}

ScanAllInstalledPlugins(registry, dirs, codex, antigravity) ==
    ScanInstalledPlugins(registry, dirs) \union ScanCodexPlugins(codex)
        \union ScanAntigravityPlugins(antigravity)

(* ellmos-module.v2.json, ellmos-module.json, package.json, pyproject.toml,*)
(* VERSION.                                                                *)
ReadModuleVersion(dir) ==
    LET given == {i \in DOMAIN dir.versions : dir.versions[i] # 0}
    IN  IF given = {} THEN 0 ELSE dir.versions[Min(given)]

(* With a catalog the modules are its entries, without one the directories.*)
ScanModules(catalog, dirs) ==
    IF catalog.state = "list"
    THEN {Module(e.id, IF e.version # 0 THEN e.version ELSE ReadModuleVersion(dirs[e.path]),
                 dirs[e.path].caps \union e.surfaces) :
            e \in {e \in Elements(catalog.entries) : e.id # 0 /\ e.path # 0}}
    ELSE {Module(Given(FirstManifest(dirs[d]), LAMBDA m : m.name, d), ReadModuleVersion(dirs[d]),
                 dirs[d].caps) : d \in DOMAIN dirs \ {0}}

ScanPluginsAndModules(registry, installed, codex, antigravity, catalog, modules) ==
    ScanAllInstalledPlugins(registry, installed, codex, antigravity) \union ScanModules(catalog, modules)
================================================================================
