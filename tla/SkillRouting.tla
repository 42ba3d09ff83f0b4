------------------------------ MODULE SkillRouting ------------------------------
(***************************************************************************)
(* src/src/skills.ts, skillFinder.ts and semanticRouting.ts: the skills    *)
(* below the two roots, which of them an intent could mean, and the live   *)
(* skills that a selected role and expert lead to.  A name above ten is    *)
(* another spelling of the name that is ten less.                          *)
(***************************************************************************)
EXTENDS Answers, FiniteSetsExt

Normalize(name) == name % 10

(* A directory: its own name, whether SKILL.md can be read, and from that  *)
(* file's frontmatter the name (0 if none), category and tokens.           *)
ReadSkillMd(d, deployed) ==
    [dir |-> d.dir, deployed |-> deployed, hasSkillMd |-> d.md,
     name     |-> IF d.md /\ d.name # 0 THEN d.name ELSE d.dir,
     category |-> IF d.md THEN d.category ELSE 0,
     aliases  |-> IF d.md THEN d.aliases ELSE {},
     tags     |-> IF d.md THEN d.tags ELSE {},
     text     |-> IF d.md THEN d.text ELSE {}]

ScanSkillsRoot(root, deployed) ==
    IF root.readable THEN {ReadSkillMd(d, deployed) : d \in root.dirs} ELSE {}

(* Below the source root there is a directory of skills for each category. *)
ScanSourceSkillsRoot(root) ==
    IF ~root.readable THEN {}
    ELSE UNION {{[s EXCEPT !.category = IF @ = 0 THEN c ELSE @] :
                    s \in ScanSkillsRoot(root.categories[c], FALSE)} : c \in DOMAIN root.categories}

ScanSkills(deployedRoot, sourceRoot) ==
    LET deployed == ScanSkillsRoot(deployedRoot, TRUE)
        names == {s.name : s \in deployed}
    IN  deployed \union {s \in ScanSourceSkillsRoot(sourceRoot) : s.name \notin names}

ScoreSkill(intent, s) ==
    LET hits(tokens) == Cardinality(intent \intersect tokens)
    IN  5 * hits({s.name}) + 4 * hits(s.aliases) + 3 * hits(s.tags) + 2 * hits(s.text)
        + hits({s.category})

MatchedTerms(intent, s) ==
    intent \intersect ({s.name, s.category} \union s.aliases \union s.tags \union s.text)

(* The normalized score divides every score by the same number.            *)
FindSkills(intent, skills, limit) ==
    LET rank(s) == <<ScoreSkill(intent, s), Cardinality(MatchedTerms(intent, s)),
                     IF s.deployed THEN 1 ELSE 0, -s.name, -s.category, -s.dir>>
        above(a, b) == \E i \in 1..6 : /\ rank(a)[i] > rank(b)[i]
                                       /\ \A j \in 1..(i - 1) : rank(a)[j] = rank(b)[j]
        ranked == SetToSortSeq({s \in skills : ScoreSkill(intent, s) > 0}, above)
    IN  SubSeq(ranked, 1, Min({limit, Len(ranked)}))

(* References of the map to entries that it does not have, or an entry     *)
(* twice, refuse it.                                                       *)
EndpointsValid(expert, skills) ==
    /\ Unique(expert.endpoints, LAMBDA e : e.skill)
    /\ Unique(expert.candidates, LAMBDA k : k)
    /\ {e.skill : e \in Elements(expert.endpoints)} \union Elements(expert.candidates)
         \subseteq skills
    /\ {e.skill : e \in Elements(expert.endpoints)} \intersect Elements(expert.candidates) = {}

LoadSemanticRoutingMap(file) ==
    LET ids(s) == {s[i].id : i \in DOMAIN s}
        valid ==
            /\ Unique(file.coordinators, LAMBDA r : r.id) /\ Unique(file.experts, LAMBDA e : e.id)
            /\ Unique(file.personas, LAMBDA p : p.id)
            /\ \A r \in Elements(file.coordinators) :
                 r.experts \subseteq ids(file.experts) /\ r.personas \subseteq ids(file.personas)
            /\ \A e \in Elements(file.experts) :
                 /\ e.parents \subseteq ids(file.coordinators)
                 /\ e.personas \subseteq ids(file.personas)
                 /\ EndpointsValid(e, file.skills)
            /\ \A p \in Elements(file.personas) :
                 /\ p.roles \subseteq ids(file.coordinators) \union ids(file.experts)
                 /\ p.skills \subseteq file.skills
            /\ file.gaps \subseteq ids(file.experts)
    IN  IF file.state # "map" THEN Error(file.state)
        ELSE IF valid THEN Ok(file) ELSE Error("invalid")

WithId(entries, id) == {e \in Elements(entries) : id # 0 /\ Normalize(e.id) = Normalize(id)}

(* The deployed skills that have a SKILL.md, by normalized name.           *)
Live(skills, name) ==
    {s \in skills : s.hasSkillMd /\ s.deployed /\ Normalize(s.name) = Normalize(name)}

BrokenVerified(skills, name) == {s \in skills : Normalize(s.name) = Normalize(name)}

(* A name that two live skills share verifies neither.                     *)
Verified(skills, name) == {s \in Live(skills, name) : Live(skills, name) = {s}}

Ambiguous(skills, name) == \E s, t \in Live(skills, name) : s # t

(* What the caller chose must exist and be connected.                      *)
Selection(map, options) ==
    LET role == WithId(map.coordinators, options.role)
        expert == WithId(map.experts, options.expert)
        persona == WithId(map.personas, options.persona)
    IN  CASE options.role # 0 /\ role = {} -> Error("unknown-role")
          [] options.expert # 0 /\ expert = {} -> Error("unknown-expert")
          [] \E r \in role, e \in expert : e.id \notin r.experts /\ r.id \notin e.parents ->
               Error("not-connected")
          [] options.persona # 0 /\ persona = {} -> Error("unknown-persona")
          [] \E p \in persona, e \in expert : e.id \notin p.roles /\ p.id \notin e.personas ->
               Error("not-connected")
          [] OTHER -> Ok([role |-> role, expert |-> expert, persona |-> persona])

Confirmed(skills, expert, name) ==
    CASE Normalize(name) \notin {Normalize(k) : k \in Elements(expert.candidates)} ->
           Error("not-a-candidate")
      [] Ambiguous(skills, name) -> Error("ambiguous-candidate")
      [] Verified(skills, name) = {} -> Error("not-live")
      [] OTHER -> Ok(Verified(skills, name))

(* What the lexical resolver finds, one of each name.                      *)
LexicalCandidates(options, skills) ==
    LET all == FindSkills(options.intent, skills, Cardinality(skills) + options.limit)
        first == {i \in DOMAIN all :
                    \A j \in 1..(i - 1) : Normalize(all[j].name) # Normalize(all[i].name)}
        kept == [i \in 1..Cardinality(first) |->
                    all[CHOOSE k \in first : Cardinality({j \in first : j <= k}) = i]]
    IN  SubSeq(kept, 1, Min({options.limit, Len(kept)}))

RouteOf(map, skills, options, chosen, confirmed) ==
    LET declared == UNION {Elements(e.endpoints) : e \in chosen.expert}
        endpoints == (UNION {Verified(skills, d.skill) : d \in declared}) \union confirmed
    IN  [selection |-> chosen, endpoints |-> endpoints,
         live |-> LexicalCandidates(options, skills),
         experts |-> {e.id : e \in {e \in Elements(map.experts) :
                        \E r \in chosen.role : e.id \in r.experts \/ r.id \in e.parents}},
         gaps |-> {<<"ambiguous", d.skill>> : d \in {d \in declared : Ambiguous(skills, d.skill)}}
                  \union {<<"none-live", e.id>> : e \in {e \in chosen.expert : endpoints = {}}}
                  \union {<<"second-signal", e.id>> :
                             e \in {e \in chosen.expert : e.candidates # <<>> /\ options.confirmed = 0}},
         status |-> IF chosen.expert # {} THEN IF endpoints = {} THEN "gap" ELSE "resolved"
                    ELSE IF chosen.role # {} THEN "expert-selection-required"
                    ELSE "semantic-selection-required"]

ResolveSemanticRoute(map, skills, options) ==
    LET chosen == Selection(map, options)
        asked == chosen.ok /\ chosen.value.expert # {} /\ options.confirmed # 0
        confirmed == IF asked THEN Confirmed(skills, CHOOSE e \in chosen.value.expert : TRUE,
                                             options.confirmed)
                     ELSE Ok({})
    IN  CASE ~chosen.ok    -> chosen
          [] ~confirmed.ok -> confirmed
          [] OTHER         -> Ok(RouteOf(map, skills, options, chosen.value, confirmed.value))
================================================================================
