------------------------------ MODULE Capabilities ------------------------------
(***************************************************************************)
(* src/src/capabilityFinder.ts: the components that a resolution file      *)
(* declares, and which of them a query could mean.  Each name is a token   *)
(* of its own.                                                             *)
(***************************************************************************)
EXTENDS Answers, FiniteSetsExt

(* A component is a candidate if its reference is stable and has the       *)
(* prefix of its type, and its registry resolution is a native binding.    *)
Claims(component) == component.ref # 0 /\ component.prefix = component.type
                     /\ component.class = "native-binding"

(* A component is told by its bundle's place and its own. Of several with  *)
(* one reference the first gives the role; a different type or binding     *)
(* refuses the whole resolution.                                           *)
ClaimedNativeComponents(resolution) ==
    LET bundles == resolution.bundles
        of(p) == bundles[p[1]].components[p[2]]
        declared == UNION {{<<i, j>> : j \in DOMAIN bundles[i].components} : i \in DOMAIN bundles}
        claimed == {p \in declared : Claims(of(p))}
        same(r) == {p \in claimed : of(p).ref = r}
        first(r) == of(CHOOSE p \in same(r) : \A q \in same(r) :
                          p[1] < q[1] \/ (p[1] = q[1] /\ p[2] <= q[2]))
    IN  IF \E p, q \in claimed : /\ of(p).ref = of(q).ref
                                 /\ <<of(p).type, of(p).binding>> # <<of(q).type, of(q).binding>>
        THEN Error("conflicting-bindings")
        ELSE Ok({[ref |-> r, type |-> first(r).type, role |-> first(r).role,
                  bundles  |-> {bundles[p[1]].id : p \in same(r)},
                  provides |-> UNION {of(p).provides : p \in same(r)},
                  consumes |-> UNION {of(p).consumes : p \in same(r)}] :
                   r \in {of(p).ref : p \in claimed}})

LoadSelfConsistentResolution(file) ==
    CASE file.state # "object" -> Error(file.state)
      [] ~file.schema   -> Error("schema")
      [] ~file.hashed   -> Error("content-hash")
      [] ~file.verified -> Error("registry-not-verified")
      [] OTHER          -> Ok(file)

Score(query, c) ==
    LET hits(tokens) == Cardinality(query \intersect tokens)
    IN  5 * hits({c.ref}) + 4 * hits(c.provides) + 2 * hits({c.role}) + hits(c.consumes)

Matched(query, c) == query \intersect ({c.ref, c.role} \union c.provides \union c.consumes)

(* By score, then by how many terms matched, then by reference.            *)
RankedAbove(query, a, b) ==
    LET rank(c) == <<Score(query, c), Cardinality(Matched(query, c)), -c.ref>>
    IN  \E i \in 1..3 : rank(a)[i] > rank(b)[i] /\ \A j \in 1..(i - 1) : rank(a)[j] = rank(b)[j]

Ranked(query, components) ==
    LET found == {c \in components : Score(query, c) > 0}
    IN  Ordered(found, [c \in found |-> {d \in found : RankedAbove(query, d, c)}])

BrokenTied(query, ranked, limit) ==
    Min({limit, Len(ranked)}) > 1 /\ Score(query, ranked[1]) = Score(query, ranked[2])

(* Told from all that were ranked, before the list is cut.                 *)
Tied(query, ranked, limit) ==
    Len(ranked) > 1 /\ Score(query, ranked[1]) = Score(query, ranked[2])

FindCapabilities(query, resolution, limit) ==
    LET components == ClaimedNativeComponents(resolution)
        ranked == Ranked(query, components.value)
        status == IF ranked = <<>> THEN "not-found"
                  ELSE IF Tied(query, ranked, limit) THEN "ambiguous"
                  ELSE "declared-not-observed"
    IN  IF ~components.ok THEN components
        ELSE Ok([candidates |-> SubSeq(ranked, 1, Min({limit, Len(ranked)})),
                 status |-> status])

BuildCapabilityOverview(resolution) == ClaimedNativeComponents(resolution)
================================================================================
