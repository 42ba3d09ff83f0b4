------------------------- MODULE ConcurrencyLimiter -------------------------
(***************************************************************************)
(* ConcurrencyLimiter of src/src/gatewayHardening.ts: an integer counter,  *)
(* an array of waiting entries and one timer per entry.  JavaScript runs   *)
(* each of acquire(), the timer callback and release() to completion, so   *)
(* each is one action; they interleave freely.                             *)
(***************************************************************************)
EXTENDS Integers, SequencesExt

CONSTANTS Callers,  \* the asynchronous calls that share the limiter
          Limit     \* constructor argument `limit`

(* envInt clamps ELLMOS_GATEWAY_MAX_CONCURRENT to 1..64.                   *)
ASSUME LimitAssumption == Limit \in Nat \ {0}
ASSUME CallersAssumption == IsFiniteSet(Callers)

VARIABLES
    active,   \* this.active
    waiting,  \* this.waiting: each entry is named by the caller whose promise it holds
    slot      \* per caller, what its acquire() promise came to

vars == <<active, waiting, slot>>

SlotState == {"idle", "waiting", "held", "refused"}

TypeOK ==
    /\ active \in Nat
    /\ waiting \in Seq(Callers)
    /\ slot \in [Callers -> SlotState]

Init ==
    /\ active = 0
    /\ waiting = <<>>
    /\ slot = [c \in Callers |-> "idle"]

(* A promise settles once; resolving it again is ignored.                  *)
Settle(c, outcome) ==
    slot' = IF slot[c] = "waiting" THEN [slot EXCEPT ![c] = outcome] ELSE slot

-----------------------------------------------------------------------------
(* Operators named Broken... are plausible mistakes in the definition that *)
(* follows them; no specification uses them.  PROJECT.json names the       *)
(* property that rejects each one.                                         *)

(* acquire() with a slot free: the promise is resolved on the spot.        *)
GrantNow(c) ==
    /\ slot[c] \in {"idle", "refused"}
    /\ active < Limit
    /\ active' = active + 1
    /\ slot' = [slot EXCEPT ![c] = "held"]
    /\ UNCHANGED waiting

(* acquire() at the limit: an entry with its timer joins the queue.        *)
Enqueue(c) ==
    /\ slot[c] \in {"idle", "refused"}
    /\ active >= Limit
    /\ waiting' = Append(waiting, c)
    /\ slot' = [slot EXCEPT ![c] = "waiting"]
    /\ UNCHANGED active

BrokenTimerKeepsEntry(c) ==
    /\ slot[c] = "waiting"
    /\ Settle(c, "refused")
    /\ UNCHANGED <<active, waiting>>

BrokenTimerNotArmed(c) == slot[c] = "waiting" /\ slot[c] = "idle" /\ UNCHANGED vars

(* The entry's timer callback: splice the entry out, resolve(false).       *)
TimerFires(c) ==
    /\ slot[c] = "waiting"
    /\ \E i \in DOMAIN waiting : waiting[i] = c /\ waiting' = RemoveAt(waiting, i)
    /\ Settle(c, "refused")
    /\ UNCHANGED active

BrokenHandOverNewestFirst(c) ==
    /\ slot[c] = "held"
    /\ waiting # <<>>
    /\ waiting' = Front(waiting)
    /\ slot' = [slot EXCEPT ![c] = "idle", ![Last(waiting)] = "held"]
    /\ UNCHANGED active

(* release() with an entry queued: the slot changes hands, `active` stays. *)
HandOver(c) ==
    /\ slot[c] = "held"
    /\ waiting # <<>>
    /\ waiting' = Tail(waiting)
    /\ LET next == Head(waiting)
           left == [slot EXCEPT ![c] = "idle"]
       IN  slot' = IF slot[next] = "waiting" THEN [left EXCEPT ![next] = "held"] ELSE left
    /\ UNCHANGED active

(* release() with nobody queued.                                           *)
Free(c) ==
    /\ slot[c] = "held"
    /\ waiting = <<>>
    /\ active' = IF active > 0 THEN active - 1 ELSE 0
    /\ slot' = [slot EXCEPT ![c] = "idle"]
    /\ UNCHANGED waiting

Acquire(c) == GrantNow(c) \/ Enqueue(c)
Release(c) == HandOver(c) \/ Free(c)

Next == \E c \in Callers : Acquire(c) \/ TimerFires(c) \/ Release(c)

(* The event loop runs every timer that is due.  Nothing is assumed of the *)
(* holders: a caller may keep its slot for ever.                           *)
Fairness == \A c \in Callers : WF_vars(TimerFires(c))

Spec == Init /\ [][Next]_vars
FairSpec == Spec /\ Fairness

-----------------------------------------------------------------------------
Holders == {c \in Callers : slot[c] = "held"}

(* Every slot counted in `active` belongs to exactly one caller that will  *)
(* release it.  A slot handed to an entry whose timer already refused it   *)
(* would be counted for ever and owned by nobody.                          *)
SlotsAccounted == active = Cardinality(Holders)

(* "Maximum gateway invocations in flight at the same time"                *)
(* (gatewayHardening.ts:23).                                               *)
AtMostLimit == Cardinality(Holders) <= Limit

(* Nobody queues while a slot is free, although acquire() never looks at   *)
(* the queue and release() never looks at the limit.                       *)
QueuedOnlyWhenFull == waiting # <<>> => active = Limit

(* The queue holds exactly the unsettled promises, each once: the timer    *)
(* callback finds its entry, and release() never wakes a settled one.      *)
QueueMatchesPromises ==
    /\ Range(waiting) = {c \in Callers : slot[c] = "waiting"}
    /\ \A i, j \in DOMAIN waiting : waiting[i] = waiting[j] => i = j

(* The limiter keeps the promise of SlotPool: bounded, first come first    *)
(* served, no overtaking by a caller that arrives at a lucky moment.       *)
Pool == INSTANCE SlotPool WITH holders <- Holders, queue <- waiting
ImplementsSlotPool == Pool!Spec

(* "A call that gets no slot is refused, not queued forever"               *)
(* (README.md:394), even if no holder ever releases.                       *)
NotQueuedForever == \A c \in Callers : slot[c] = "waiting" ~> slot[c] # "waiting"
=============================================================================
