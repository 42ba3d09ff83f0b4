------------------------------ MODULE McpLandscape ------------------------------
(***************************************************************************)
(* src/src/catalog.ts and src/src/mcpCatalog.ts: the servers below the MCP *)
(* root, from the directory listing and the package.json of each, joined   *)
(* with the hand-kept catalog.  The three are read at different times.     *)
(* Names are compared without regard to case, and those of the model       *)
(* differ in more than case.                                               *)
(***************************************************************************)
EXTENDS Answers

(* A listing: [readable, names], the names that end in -mcp.  The plain    *)
(* scan does not tell an unreadable root from an empty one.                *)
DiscoverLocalServerDirectories(listing) == IF listing.readable THEN listing.names ELSE {}

(* The summary of a directory, from what its package.json holds when it is *)
(* read: nothing if that is unreadable by then, [json |-> FALSE].          *)
ReadLocalServerSummary(dir, package) ==
    IF ~package.json THEN {}
    ELSE {[dir |-> dir, package |-> IF package.name = 0 THEN dir ELSE package.name,
           text |-> package.text, toolCount |-> package.toolCount]}

Summaries(dirs, packages) == UNION {ReadLocalServerSummary(d, packages[d]) : d \in dirs}

ScanLocalServers(listing, packages) ==
    Summaries(DiscoverLocalServerDirectories(listing), packages)

(* An entry's fields other than its id and npm name are told as one: they  *)
(* are well-formed or not.                                                 *)
LoadMcpCatalog(file) ==
    LET empty(status) == [status |-> status, entries |-> <<>>]
    IN  CASE file.state \in {"absent", "unreadable"} -> empty("missing")
          [] file.state = "notJson" -> empty("unreadable")
          [] file.state = "notList" -> empty("schema_mismatch")
          [] file.state = "list" ->
               IF /\ \A e \in Elements(file.entries) : e.id # 0 /\ e.wellFormed
                  /\ Unique(file.entries, LAMBDA e : e.id)
               THEN [status |-> "ok", entries |-> file.entries]
               ELSE empty("invalid")

FirstWith(entries, P(_)) ==
    {entries[i] : i \in {i \in DOMAIN entries :
        P(entries[i]) /\ \A j \in 1..(i - 1) : ~P(entries[j])}}

(* By the directory's name first, then by the package's.                   *)
FindCatalogEntry(entries, server) ==
    LET byDirectory == FirstWith(entries, LAMBDA e : e.id = server.dir)
    IN  IF byDirectory # {} THEN byDirectory
        ELSE FirstWith(entries, LAMBDA e : server.package \in {e.npm, e.id})

(* [server, entry], both sets of one or none, of each directory read.      *)
ScanLocalServerLandscape(listing, catalogFile, packages) ==
    LET catalog == LoadMcpCatalog(catalogFile)
        servers == {[server |-> s, entry |-> FindCatalogEntry(catalog.entries, s)] :
                      s \in ScanLocalServers(listing, packages)}
        matched == UNION {s.entry : s \in servers}
    IN  [rootReadable |-> listing.readable, catalog |-> catalog, servers |-> servers,
         catalogOnly |-> IF listing.readable THEN Elements(catalog.entries) \ matched
                         ELSE Elements(catalog.entries)]

(* The first server of that directory, package or catalog id, and the      *)
(* entry it carries or else the one of that id or npm name.                *)
DescribeMcpServer(name, landscape) ==
    LET called == {s \in landscape.servers :
                     name \in {s.server.dir, s.server.package} \union {e.id : e \in s.entry}}
        found == {s \in called : \A o \in called : s.server.dir <= o.server.dir}
        carried == UNION {s.entry : s \in found}
    IN  [server |-> {s.server : s \in found},
         entry |-> IF carried # {} THEN carried
                   ELSE FirstWith(landscape.catalog.entries, LAMBDA e : name \in {e.id, e.npm})]
================================================================================
