----------------------------- MODULE ProfileResolve -----------------------------
(***************************************************************************)
(* resolveMcpProfile of src/src/profiles.ts: the servers of a profile with *)
(* those it inherits, depth first with a cache, one awaited read after     *)
(* another while others rewrite the files.  It answers for itself and at   *)
(* the end of the dashboard's request to disable a server (the write of    *)
(* which is one step here; ProfileStore has its parts).                    *)
(*                                                                         *)
(* Of a server's configuration the model keeps which profile and bucket it *)
(* comes from; `add` and `servers`, read in this order after `mcpServers`, *)
(* are one bucket, "extra".                                                *)
(***************************************************************************)
EXTENDS Integers, SequencesExt

CONSTANTS
    Profiles,   \* names of profiles
    Servers,    \* names of servers
    Contents,   \* per profile what its file may hold
    Edits       \* how often others rewrite a file meanwhile

Unreadable == [extends |-> <<>>, main |-> {}, extra |-> {}, removed |-> {}, ok |-> FALSE]

ASSUME ResolveAssumption ==
    /\ Edits \in Nat /\ IsFiniteSet(Profiles)
    /\ \A p \in Profiles :
         Contents[p] \subseteq [extends : Seq(Profiles), ok : BOOLEAN,
                               main : SUBSET Servers, extra : SUBSET Servers, removed : SUBSET Servers]

VARIABLES
    files,    \* per profile what its file holds now
    edits,    \* how often others have rewritten one
    name,     \* the profile asked for
    disabled, \* the servers the dashboard is to disable in it: none or one
    stage,    \* "begin", "call", "loop" or "done"
    called,   \* the profile resolveRecursive is called for
    stack,    \* the open calls: [name, file, next, base]
    cache,    \* resolvedCache: per profile <<>> or <<its servers>>
    sources,  \* sourceFiles
    seen,     \* per profile <<>> or <<what the file held when it was read>>
    result    \* <<>>, or <<"ok", servers>>, <<"error">> or <<"cycle", chain>>

disk == <<files, edits>>
request == <<name, disabled>>
vars == <<disk, request, stage, called, stack, cache, sources, seen, result>>

Nothing == [s \in Servers |-> <<>>]
AllContents == UNION {Contents[p] : p \in Profiles}
WithoutMain(c, S) == [c EXCEPT !.main = @ \ S]

Init ==
    /\ files \in [Profiles -> AllContents]
    /\ \A p \in Profiles : files[p] \in Contents[p]
    /\ edits = 0
    /\ name \in Profiles
    /\ disabled \in {{}} \union {{s} : s \in Servers}
    /\ stage = "begin"
    /\ called = name
    /\ stack = <<>>
    /\ cache = [p \in Profiles |-> <<>>]
    /\ sources = <<>>
    /\ seen = [p \in Profiles |-> <<>>]
    /\ result = <<>>

-----------------------------------------------------------------------------
(* Another request or the user rewrites a file.                            *)
Edit ==
    /\ edits < Edits /\ stage # "done"
    /\ edits' = edits + 1
    /\ \E p \in Profiles : \E c \in Contents[p] : files' = [files EXCEPT ![p] = c]
    /\ UNCHANGED <<request, stage, called, stack, cache, sources, seen, result>>

Conclude(answer) ==
    /\ result' = answer
    /\ stage' = "done"

(* setServerEnabled(name, s, false) deletes s from mcpServers, if it is    *)
(* there, and resolves the profile.                                        *)
Begin ==
    /\ stage = "begin"
    /\ \/ /\ disabled # {} /\ ~files[name].ok
          /\ Conclude(<<"error">>) /\ UNCHANGED files
       \/ /\ disabled = {} \/ files[name].ok
          /\ stage' = "call" /\ UNCHANGED result
          /\ files' = [files EXCEPT ![name] = WithoutMain(@, disabled)]
    /\ UNCHANGED <<edits, request, called, stack, cache, sources, seen>>

(* Operators named Broken... are plausible mistakes in the definition that *)
(* follows them; no specification uses them.                               *)
BrokenOpen == Range(sources)

(* The profiles whose resolution is under way.                             *)
Open == {stack[i].name : i \in DOMAIN stack}

Top == stack[Len(stack)]

(* resolveRecursive is called for a profile whose call is still open.      *)
Cycle ==
    /\ stage = "call" /\ called \in Open
    /\ Conclude(<<"cycle", [i \in DOMAIN stack |-> stack[i].name] \o <<called>>>>)
    /\ UNCHANGED <<disk, request, called, stack, cache, sources, seen>>

(* Object.assign(base, servers).                                           *)
Merge(base, servers) == [s \in Servers |-> IF servers[s] # <<>> THEN servers[s] ELSE base[s]]

(* The value returned becomes part of the caller's base, or the answer.    *)
Return(servers, calls) ==
    \/ /\ calls = <<>>
       /\ Conclude(<<"ok", servers>>) /\ stack' = calls
    \/ /\ calls # <<>>
       /\ stack' = [calls EXCEPT ![Len(calls)].base = Merge(@, servers)]
       /\ stage' = "loop" /\ UNCHANGED result

Cached ==
    /\ stage = "call" /\ called \notin Open /\ cache[called] # <<>>
    /\ Return(cache[called][1], stack)
    /\ UNCHANGED <<disk, request, called, cache, sources, seen>>

BrokenRead ==
    /\ stage = "call" /\ called \notin Open
    /\ seen' = [seen EXCEPT ![called] = <<files[called]>>]
    /\ LET file == files[called]
       IN  \/ ~file.ok /\ Conclude(<<"error">>) /\ UNCHANGED <<stack, sources>>
           \/ /\ file.ok
              /\ sources' = IF Contains(sources, called) THEN sources ELSE Append(sources, called)
              /\ stack' = Append(stack, [name |-> called, file |-> file, next |-> 1, base |-> Nothing])
              /\ stage' = "loop" /\ UNCHANGED result
    /\ UNCHANGED <<disk, request, called, cache>>

BrokenSameBase ==
    /\ stage = "loop" /\ Top.next <= Len(Top.file.extends)
    /\ called' = Top.file.extends[Top.next]
    /\ stage' = "call"
    /\ UNCHANGED <<disk, request, stack, cache, sources, seen, result>>

(* readProfileJson; what is not a JSON object ends the resolution.         *)
Read ==
    /\ stage = "call" /\ called \notin Open /\ cache[called] = <<>>
    /\ seen' = [seen EXCEPT ![called] = <<files[called]>>]
    /\ LET file == files[called]
       IN  \/ ~file.ok /\ Conclude(<<"error">>) /\ UNCHANGED <<stack, sources>>
           \/ /\ file.ok
              /\ sources' = IF Contains(sources, called) THEN sources ELSE Append(sources, called)
              /\ stack' = Append(stack, [name |-> called, file |-> file, next |-> 1, base |-> Nothing])
              /\ stage' = "loop" /\ UNCHANGED result
    /\ UNCHANGED <<disk, request, called, cache>>

(* The loop over the profiles the innermost one extends.                   *)
NextBase ==
    /\ stage = "loop" /\ Top.next <= Len(Top.file.extends)
    /\ called' = Top.file.extends[Top.next]
    /\ stack' = [stack EXCEPT ![Len(stack)].next = @ + 1]
    /\ stage' = "call"
    /\ UNCHANGED <<disk, request, cache, sources, seen, result>>

(* extractServerMap.                                                       *)
Own(p, c) ==
    [s \in Servers |-> CASE s \in c.extra -> <<p, "extra">>
                         [] s \in c.main \ c.extra -> <<p, "main">>
                         [] OTHER -> <<>>]

BrokenSources ==
    /\ stage = "loop" /\ Top.next > Len(Top.file.extends)
    /\ LET servers == Merge(Top.base, Own(Top.name, Top.file))
       IN  /\ cache' = [cache EXCEPT ![Top.name] = <<servers>>]
           /\ Return(servers, Front(stack))
    /\ sources' = SelectSeq(sources, LAMBDA p : p # Top.name) \o <<Top.name>>
    /\ UNCHANGED <<disk, request, called, seen>>

(* All bases are merged: removed servers go, the profile's own are added.  *)
Finish ==
    /\ stage = "loop" /\ Top.next > Len(Top.file.extends)
    /\ LET kept == [s \in Servers |-> IF s \in Top.file.removed THEN <<>> ELSE Top.base[s]]
           servers == Merge(kept, Own(Top.name, Top.file))
       IN  /\ cache' = [cache EXCEPT ![Top.name] = <<servers>>]
           /\ Return(servers, Front(stack))
    /\ UNCHANGED <<disk, request, called, sources, seen>>

Step == Begin \/ Cycle \/ Cached \/ Read \/ NextBase \/ Finish
Next == Edit \/ Step

(* A read settles, with a profile or an error.                             *)
Spec == Init /\ [][Next]_vars
FairSpec == Spec /\ WF_vars(Step)

-----------------------------------------------------------------------------
(* The reference: inheritance among the profiles as they were read.        *)
File(p) == IF seen[p] = <<>> THEN Unreadable ELSE seen[p][1]
Extends(p) == Range(File(p).extends)

(* Where profiles get their servers from if their bases get them from      *)
(* there: from themselves; otherwise from nowhere if they remove it;       *)
(* otherwise from the last of their bases that has it.                     *)
Inherited(origins) ==
    [p \in Profiles |-> [s \in Servers |->
        LET file == File(p)
            giving == {i \in DOMAIN file.extends : origins[file.extends[i]][s] # <<>>}
        IN  CASE s \in file.extra -> <<p, "extra">>
              [] s \in file.main \ file.extra -> <<p, "main">>
              [] s \notin file.main \union file.extra ->
                   IF s \in file.removed \/ giving = {} THEN <<>>
                   ELSE origins[file.extends[Max(giving)]][s]]]

(* Along chains of at most n profiles.  Those longer than the number of    *)
(* profiles are cycles.                                                    *)
Origins[n \in 0..Cardinality(Profiles)] ==
    IF n = 0 THEN [p \in Profiles |-> Nothing] ELSE Inherited(Origins[n - 1])

Succeeded == result # <<>> /\ result[1] = "ok"

(* "single inheritance, multiple inheritance, and inherited-server         *)
(* removal" (README.md:702): whatever is rewritten meanwhile, the answer   *)
(* is the inheritance of the files as they were read, each in one version. *)
ResolvedAsRead == Succeeded => result[2] = Origins[Cardinality(Profiles)][name]

(* sourceFiles are the files the answer depends on: the profile and all it *)
(* inherits from, each once, an heir before what only it leads to.         *)
SourcesComplete ==
    Succeeded =>
        /\ IsInjective(sources) /\ Head(sources) = name
        /\ \A i \in DOMAIN sources :
             /\ Extends(sources[i]) \subseteq Range(sources)
             /\ i > 1 => \E j \in 1..(i - 1) : sources[i] \in Extends(sources[j])

(* "inheritance cycles now return explicit profile errors with the ...     *)
(* chain" (README.md:702): a cycle is only reported where there is one,    *)
(* not for a profile inherited twice, and the chain shows it; and no       *)
(* answer is given for profiles that inherit from each other in a circle.  *)
CyclesReported ==
    /\ result # <<>> /\ result[1] = "cycle" =>
         LET chain == result[2]
         IN  /\ \A i \in 1..(Len(chain) - 1) : chain[i + 1] \in Extends(chain[i])
             /\ chain[1] = name
             /\ chain[Len(chain)] \in {chain[i] : i \in 1..(Len(chain) - 1)}
    /\ Succeeded =>
         \A P \in (SUBSET Range(sources)) \ {{}} : \E p \in P : Extends(p) \intersect P = {}

(* Also with cycles, and while files are rewritten, there is an answer.    *)
ResolutionEnds == <>(stage = "done")

-----------------------------------------------------------------------------
(* What the documentation says and the code does not do.                   *)

(* "enable or disable servers per profile" (README.md:557): a server the   *)
(* dashboard has disabled is still there if the profile inherits it or has *)
(* it under `add` or `servers`.                                            *)
DisabledIsInactive ==
    Succeeded /\ edits = 0 => \A s \in disabled : result[2][s] = <<>>
=============================================================================
