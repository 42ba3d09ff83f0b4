------------------------------ MODULE StackContext ------------------------------
(***************************************************************************)
(* src/src/stacks.ts and src/src/contextPack.ts: the registered stacks,    *)
(* each with its manifest, and the handoff text made from one.             *)
(***************************************************************************)
EXTENDS Answers, FiniteSetsExt

CONSTANTS
    MaxItemsPerGroup,   \* items that a group of a handoff shows, 40 in the source
    SafePolicyKeys      \* policy keys that a handoff may show

ASSUME MaxItemsAssumption == MaxItemsPerGroup \in Nat \ {0}

(* An entry needs an id and two paths; paths must stay inside the root.    *)
Registered(entry) == entry.wellFormed /\ entry.inside

(* Groups of components, required roles and policies that a manifest has.  *)
DeclaredIn(manifest) ==
    IF manifest.object THEN manifest
    ELSE [groups |-> [g \in {} |-> <<>>], roles |-> {}, policies |-> [k \in {} |-> "flat"]]

Warnings(entry, manifest) ==
    (IF manifest.object /\ manifest.schema THEN {} ELSE {"manifest_schema_invalid"})
    \union (IF manifest.object /\ manifest.id \notin {0, entry.id} THEN {"manifest_id_mismatch"} ELSE {})
    \union (IF manifest.object THEN {} ELSE {"manifest_unreadable"})

ReadStackEntry(entry, manifest) ==
    [id |-> entry.id, warnings |-> Warnings(entry, manifest),
     groups |-> DeclaredIn(manifest).groups, roles |-> DeclaredIn(manifest).roles,
     policies |-> DeclaredIn(manifest).policies]

Summary(stack) ==
    [id |-> stack.id, warnings |-> stack.warnings,
     counts |-> [g \in DOMAIN stack.groups |-> Len(stack.groups[g])]]

(* A catalog that is no list of the known schema registers nothing.        *)
Entries(catalog) == IF catalog.state = "list" THEN catalog.entries ELSE <<>>

ScanStacks(catalog, manifests) ==
    LET places == Increasing({i \in DOMAIN Entries(catalog) : Registered(catalog.entries[i])})
    IN  [i \in DOMAIN places |->
           Summary(ReadStackEntry(catalog.entries[places[i]], manifests[places[i]]))]

(* The first entry of that id, even where a later one could be read.       *)
DescribeStack(id, catalog, manifests) ==
    LET called == {i \in DOMAIN Entries(catalog) :
                     catalog.entries[i].object /\ catalog.entries[i].id = id}
    IN  IF called = {} \/ ~Registered(catalog.entries[Min(called)]) THEN Error("not-found")
        ELSE Ok(ReadStackEntry(catalog.entries[Min(called)], manifests[Min(called)]))

(* An item is told by the line it makes: the first 160 characters of the   *)
(* text, line breaks as spaces, Markdown escaped.  Longer texts make the   *)
(* same line where they differ only behind them (or in their breaks).      *)
EscapeMarkdown(item) == item.line

Lines(items) == {EscapeMarkdown(item) : item \in items}

(* Lines are compared, sorted and counted, not the items.                  *)
BulletList(items) ==
    LET sorted == Increasing(Lines(items))
    IN  [shown   |-> SubSeq(sorted, 1, Min({MaxItemsPerGroup, Len(sorted)})),
         omitted |-> Max({0, Len(sorted) - MaxItemsPerGroup})]

(* Sections that only some levels have are <<>> at the others.             *)
BuildStackContextPack(level, stack) ==
    [id |-> stack.id, warnings |-> stack.warnings,
     groups |-> [g \in DOMAIN stack.groups |-> BulletList(Elements(stack.groups[g]))],
     roles  |-> IF level = "short" THEN <<>> ELSE <<BulletList(stack.roles)>>,
     policies |-> IF level # "full" THEN <<>>
                  ELSE <<{k \in DOMAIN stack.policies \intersect SafePolicyKeys :
                            stack.policies[k] # "nested"}>>]
================================================================================
