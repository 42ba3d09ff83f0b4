------------------------------ MODULE ToolBundles -------------------------------
(***************************************************************************)
(* src/src/bundles.ts: servers and tools are assigned to capability        *)
(* bundles by keywords.  A text is the set of its tokens, a keyword the    *)
(* set of the tokens it is split into: {} if it has no ASCII letter or     *)
(* digit at all.                                                           *)
(***************************************************************************)
EXTENDS Answers, FiniteSetsExt

(* Two bundles stand for the eleven that the source defines, each with a   *)
(* description in German, whatever the language of the process; one read   *)
(* from a file is content of that file, in no language of the server's.    *)
DefaultBundles ==
    << [id |-> 1, about |-> "de", keywords |-> {{"file"}, {"zip"}}],
       [id |-> 2, about |-> "de",
        keywords |-> {{"privacy"}, {"document", "security"}, {"schl", "ssel"}}] >>

(* An entry of the file: id, title and description must be there, and at   *)
(* least one keyword that is a string.                                     *)
BundleMalformed(entry) == entry.id = 0 \/ ~entry.titled \/ entry.keywords = {}

NormalizeBundles(entries) ==
    CASE \E i \in DOMAIN entries : BundleMalformed(entries[i]) -> Error("bundle-schema-invalid")
      [] ~Unique(entries, LAMBDA e : e.id) -> Error("bundle-id-duplicate")
      [] OTHER -> Ok([i \in DOMAIN entries |->
                        [id |-> entries[i].id, about |-> "none", keywords |-> entries[i].keywords]])

LoadBundleDefinitions(file) ==
    CASE file.state = "absent"     -> Ok(DefaultBundles)
      [] file.state = "unreadable" -> Error("bundle-read-failed")
      [] file.state = "notJson"    -> Error("bundle-json-invalid")
      [] file.state = "notList"    -> Error("bundle-schema-invalid")
      [] file.state = "list"       -> NormalizeBundles(file.entries)

MatchesKeyword(tokens, keyword) == keyword # {} /\ keyword \subseteq tokens

MatchedKeywords(tokens, definition) ==
    {k \in definition.keywords : MatchesKeyword(tokens, k)}

(* Servers have a name, a text and a tool count, -1 when it is not known.  *)
BuildCapabilityBundles(servers, definitions) ==
    [i \in DOMAIN definitions |->
        LET matched == {s \in servers : MatchedKeywords(s.text, definitions[i]) # {}}
            counted == {s \in matched : s.toolCount >= 0}
        IN  [id |-> definitions[i].id, about |-> definitions[i].about,
             keywords |-> definitions[i].keywords,
             servers |-> matched,
             totalTools |-> IF counted = {} THEN -1
                            ELSE MapThenSumSet(LAMBDA s : s.toolCount, counted)]]

SuggestCapabilityBundles(task, bundles) ==
    LET score(b) == Cardinality(MatchedKeywords(task, b))
        suggested == {b \in Elements(bundles) : score(b) > 0}
    IN  SetToSortSeq(suggested, LAMBDA a, b :
            score(a) > score(b) \/ (score(a) = score(b) /\ a.id < b.id))

(* A tool catalog is a sequence of the entries of a scan; a tool is told   *)
(* by its entry's place and its name, for a server may be listed twice.    *)
ToolsOf(catalog) ==
    UNION {{<<i, t>> : t \in DOMAIN catalog[i].tools} : i \in DOMAIN catalog}

AssignTools(catalog, definitions) ==
    [p \in ToolsOf(catalog) |->
        {i \in DOMAIN definitions :
            MatchedKeywords(catalog[p[1]].text \union catalog[p[1]].tools[p[2]],
                            definitions[i]) # {}}]

BuildBundleToolAssignments(catalog, definitions) ==
    LET assigned == AssignTools(catalog, definitions)
    IN  [i \in DOMAIN definitions |-> {p \in DOMAIN assigned : i \in assigned[p]}]
================================================================================
