---------------------------- MODULE MCProfileResolve ----------------------------
(* Profiles that form a chain, a diamond or a cycle.  Servers do not       *)
(* influence each other, so one is enough.                                 *)
EXTENDS ProfileResolve, TLC
CONSTANTS top, left, right, base, s1

MCProfiles == {top, left, right, base}

File4(extends, main, extra, removed) ==
    [extends |-> extends, ok |-> TRUE, main |-> main, extra |-> extra, removed |-> removed]

(* What the profiles say of the server: nothing, that it is not to be      *)
(* inherited, their own; the one in the middle also their own twice.       *)
Plain(E) ==
    UNION {{File4(e, {}, {}, {}), File4(e, {s1}, {}, {}), File4(e, {}, {}, {s1})} : e \in E}
Rich(E) == Plain(E) \union UNION {{File4(e, {s1}, {s1}, {}), File4(e, {s1}, {}, {s1})} : e \in E}

MCContents ==
    top :> Plain({<<left, right>>}) @@ left :> Rich({<<base>>, <<>>}) \union {Unreadable}
      @@ right :> Plain({<<base>>, <<base, left>>}) @@ base :> Plain({<<>>, <<left>>})
=============================================================================
