------------------------------- MODULE LockCheck -------------------------------
(***************************************************************************)
(* cmd_check_lock of src/scripts/controlroom_bridge.py: is a path locked,  *)
(* counting locks of its ancestors, of the main clone of its worktree and  *)
(* of its twins on other trees?  The walk reads one directory after        *)
(* another while others place and release locks.                           *)
(*                                                                         *)
(* Reading a directory, finding the main clone and finding the twins are   *)
(* the host's canonical modules; each may fail.  For a directory as target *)
(* the canonical module walks its ancestors and those of the main clone by *)
(* itself, in place of the walk modelled here for a file.                  *)
(***************************************************************************)
EXTENDS Integers, SequencesExt

CONSTANTS
    Dirs,   \* the directories
    Chain,  \* per query target "target", "main" and twin: its ancestors, nearest first
    Twins   \* per directory: [status, targets], what twin_dirs_for_path says of it

ASSUME LockCheckAssumption ==
    /\ {"target", "main"} \subseteq DOMAIN Chain
    /\ \A q \in DOMAIN Chain : Chain[q] \in Seq(Dirs) /\ Chain[q] # <<>>
    /\ \A d \in Dirs :
         /\ Twins[d].status \in {"ok", "not-applicable", "unmapped"}
         /\ IsFiniteSet(Twins[d].targets)
         /\ Twins[d].targets \subseteq DOMAIN Chain

VARIABLES
    locks,    \* the directories with an active lock now
    constant, \* those that have had one ever since the query began
    ever,     \* those that had one at some moment since
    stage,    \* "begin", "main", "walk" or "done"
    main,     \* the target lies in a worktree whose main clone was found
    twinCfg,  \* the twin_resolution block: "none", "read", or "lost" to a failed read
    agenda,   \* what is left to do: <<"collect", q>> or <<"twins", q>>
    pos,      \* position in the chain of the first item of the agenda
    active,   \* the locks collect() has seen for its query target
    found,    \* the locks described so far
    checked,  \* checked_twin_targets
    errors,   \* errors is not empty
    verdict   \* "none" until the answer is printed

world == <<locks, constant, ever>>
vars == <<world, stage, main, twinCfg, agenda, pos, active, found, checked, errors, verdict>>

Init ==
    /\ locks \in SUBSET Dirs /\ constant = locks /\ ever = locks
    /\ stage = "begin"
    /\ main = FALSE /\ errors = FALSE
    /\ twinCfg \in {"none", "read"}
    /\ agenda = <<>> /\ pos = 1
    /\ active = {} /\ found = {} /\ checked = {}
    /\ verdict = "none"

-----------------------------------------------------------------------------
(* Others at work.                                                         *)
PlaceLock(d) ==
    /\ locks' = locks \union {d} /\ ever' = ever \union {d}
    /\ UNCHANGED <<constant, stage, main, twinCfg, agenda, pos, active, found, checked,
                   errors, verdict>>

ReleaseLock(d) ==
    /\ locks' = locks \ {d} /\ constant' = constant \ {d}
    /\ UNCHANGED <<ever, stage, main, twinCfg, agenda, pos, active, found, checked,
                   errors, verdict>>

-----------------------------------------------------------------------------
Kind == Head(agenda)[1]
Query == Head(agenda)[2]
Here == Chain[Query][pos]

Answer(v) == verdict' = v /\ stage' = "done"
NoAnswer == UNCHANGED <<stage, verdict>>

(* The next item of the agenda, or the next ancestor of the current one.   *)
Proceed(items) == agenda' = items /\ pos' = 1
Climb == IF pos < Len(Chain[Query]) THEN pos' = pos + 1 /\ UNCHANGED agenda
                                    ELSE Proceed(Tail(agenda))

(* The path is missing, redirected or cannot be resolved; or all is well.  *)
Begin ==
    /\ stage = "begin"
    /\ \/ Answer("unknown")
       \/ stage' = "main" /\ UNCHANGED verdict
    /\ UNCHANGED <<world, main, twinCfg, agenda, pos, active, found, checked, errors>>

(* Operators named Broken... are plausible mistakes in the definition that *)
(* follows them; no specification uses them.                               *)

(* _twin_config reads the file again that the canonical module has read    *)
(* before; a failure now looks like a file without the block.              *)
ReadTwinConfig == twinCfg' \in IF twinCfg = "read" THEN {"read", "lost"} ELSE {twinCfg}

(* collect() for each query target, then the search for its twins.         *)
Plan(queries, twins) ==
    LET items(kind) == [i \in DOMAIN queries |-> <<kind, queries[i]>>]
    IN  items("collect") \o (IF twins THEN items("twins") ELSE <<>>)

(* The main clone: not a worktree, found, or an error that is remembered.  *)
MapMain ==
    /\ stage = "main" /\ stage' = "walk"
    /\ ReadTwinConfig
    /\ \/ main' \in BOOLEAN /\ UNCHANGED errors
       \/ main' = FALSE /\ errors' = TRUE
    /\ Proceed(Plan(IF main' THEN <<"target", "main">> ELSE <<"target">>, twinCfg' = "read"))
    /\ UNCHANGED <<world, active, found, checked, verdict>>

BrokenReadFails ==
    /\ stage = "walk" /\ agenda # <<>> /\ Kind = "collect"
    /\ active' = {}
    /\ Proceed(Tail(agenda))
    /\ UNCHANGED <<world, main, twinCfg, found, checked, errors>> /\ NoAnswer

(* collect(): the locks of one more ancestor, which are described once the *)
(* last one is read.                                                       *)
ReadDir ==
    /\ stage = "walk" /\ agenda # <<>> /\ Kind = "collect"
    /\ pos < Len(Chain[Query])
    /\ active' = active \union ({Here} \intersect locks)
    /\ Climb
    /\ UNCHANGED <<world, main, twinCfg, found, checked, errors>> /\ NoAnswer

(* The canonical module raises: what this collect() saw is dropped.        *)
ReadFails ==
    /\ stage = "walk" /\ agenda # <<>> /\ Kind = "collect"
    /\ errors' = TRUE /\ active' = {}
    /\ Proceed(Tail(agenda))
    /\ UNCHANGED <<world, main, twinCfg, found, checked>> /\ NoAnswer

(* The last ancestor, and the description of every lock seen: a file that  *)
(* is gone by then may raise, which ends the command in `main`.            *)
Describe ==
    /\ stage = "walk" /\ agenda # <<>> /\ Kind = "collect"
    /\ pos = Len(Chain[Query])
    /\ LET seen == active \union ({Here} \intersect locks)
       IN  \/ found' = found \union seen /\ Proceed(Tail(agenda)) /\ NoAnswer
           \/ ~(seen \subseteq locks) /\ Answer("unknown") /\ UNCHANGED <<found, agenda, pos>>
    /\ active' = {}
    /\ UNCHANGED <<world, main, twinCfg, checked, errors>>

BrokenFindTwins ==
    /\ stage = "walk" /\ agenda # <<>> /\ Kind = "twins"
    /\ \/ Twins[Here].status \in {"ok", "not-applicable"} /\ UNCHANGED errors
       \/ errors' = TRUE
    /\ Proceed(Tail(agenda)) /\ UNCHANGED checked
    /\ UNCHANGED <<world, main, twinCfg, active, found>> /\ NoAnswer

BrokenFartherUp ==
    /\ stage = "walk" /\ agenda # <<>> /\ Kind = "twins"
    /\ LET new == SetToSeq((UNION {Twins[d].targets : d \in Range(Chain[Query])}) \ checked)
       IN  Proceed([i \in DOMAIN new |-> <<"collect", new[i]>>] \o Tail(agenda))
           /\ checked' = checked \union Range(new)
    /\ UNCHANGED <<world, main, twinCfg, active, found, errors>> /\ NoAnswer

BrokenNoClimb ==
    /\ stage = "walk" /\ agenda # <<>> /\ Kind = "twins"
    /\ \/ Twins[Here].status = "not-applicable" /\ UNCHANGED <<agenda, pos, errors>>
       \/ Twins[Here].status # "not-applicable" /\ Proceed(Tail(agenda)) /\ errors' = TRUE
    /\ UNCHANGED <<world, main, twinCfg, active, found, checked>> /\ NoAnswer

(* One ancestor's twins: none known here, so ask the next ancestor; a      *)
(* failure; or targets on other trees, to be collected before anything     *)
(* else.  A target that cannot be mapped into its twin leaves an error and *)
(* the search goes on.                                                     *)
FindTwins ==
    /\ stage = "walk" /\ agenda # <<>> /\ Kind = "twins"
    /\ \/ Twins[Here].status = "not-applicable" /\ Climb /\ UNCHANGED <<checked, errors>>
       \/ Proceed(Tail(agenda)) /\ errors' = TRUE /\ UNCHANGED checked
       \/ /\ Twins[Here].status = "ok"
          /\ LET new == SetToSeq(Twins[Here].targets \ checked)
             IN  Proceed([i \in DOMAIN new |-> <<"collect", new[i]>>] \o Tail(agenda))
          /\ checked' = checked \union Twins[Here].targets
          /\ UNCHANGED errors
       \/ /\ Twins[Here].status = "ok" /\ Twins[Here].targets # {}
          /\ Climb /\ errors' = TRUE /\ UNCHANGED checked
    /\ UNCHANGED <<world, main, twinCfg, active, found>> /\ NoAnswer

(* An error anywhere makes the absence of a lock no proof of absence.      *)
Conclude ==
    /\ stage = "walk" /\ agenda = <<>>
    /\ \/ errors /\ Answer("unknown")
       \/ ~errors /\ found # {} /\ Answer("locked")
       \/ ~errors /\ found = {} /\ Answer("clear")
    /\ UNCHANGED <<world, main, twinCfg, agenda, pos, active, found, checked, errors>>

Step == Begin \/ MapMain \/ ReadDir \/ ReadFails \/ Describe \/ FindTwins \/ Conclude
Next == Step \/ \E d \in Dirs : PlaceLock(d) \/ ReleaseLock(d)

(* The program runs on, whatever the others do with their locks.           *)
Spec == Init /\ [][Next]_vars
FairSpec == Spec /\ WF_vars(Step)

-----------------------------------------------------------------------------
Queries == IF main THEN {"target", "main"} ELSE {"target"}

(* The targets on other trees, by the nearest ancestor that has a say.     *)
TwinTargets(q) ==
    LET says == {i \in DOMAIN Chain[q] : Twins[Chain[q][i]].status # "not-applicable"}
    IN  IF says = {} THEN {} ELSE Twins[Chain[q][Min(says)]].targets

Covering(queries) == UNION {Range(Chain[q]) : q \in queries}

(* "Saying `free` here would be exactly the dangerous answer this tool     *)
(* exists to avoid" (controlroom_bridge.py:233): no lock that stood over   *)
(* the path during the whole query is missed, on the path's own tree or    *)
(* the main clone's, whatever happens to other locks and whichever         *)
(* directories cannot be read.                                             *)
ClearMeansFree ==
    verdict = "clear" => constant \intersect Covering(Queries) = {}

(* The same for the twins, if the twin configuration could be read.        *)
ClearMeansTwinsFree ==
    verdict = "clear" /\ twinCfg = "read"
      => constant \intersect Covering(UNION {TwinTargets(q) : q \in Queries}) = {}

(* `locked` is no invention: some lock did cover the path, or a twin of    *)
(* it, while the query ran.                                                *)
LockedMeansSeen ==
    verdict = "locked" =>
        ever \intersect Covering(Queries \union UNION {TwinTargets(q) : q \in Queries}) # {}

(* The walk ends although locks come and go while it runs.                 *)
CheckEnds == <>(stage = "done")
=============================================================================
