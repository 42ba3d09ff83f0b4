------------------------------ MODULE SlotPool ------------------------------
(***************************************************************************)
(* What the gateway's concurrency budget promises its callers, whatever    *)
(* counters and timers realise it: a fixed number of slots, a strict       *)
(* first-come first-served queue for the callers that found none free, and *)
(* nobody queueing while a slot is free.                                   *)
(***************************************************************************)
EXTENDS Integers, SequencesExt

CONSTANTS Callers,  \* whoever may ask for a slot
          Limit     \* the number of slots

VARIABLES holders,  \* the callers that hold a slot now
          queue     \* the callers that wait for one, oldest first

poolVars == <<holders, queue>>

Init == holders = {} /\ queue = <<>>

(* A newcomer: served at once when a slot is free and nobody was first.    *)
Take(c) ==
    /\ c \notin holders
    /\ queue = <<>>
    /\ Cardinality(holders) < Limit
    /\ holders' = holders \union {c}
    /\ UNCHANGED queue

LineUp(c) ==
    /\ c \notin holders
    /\ c \notin Range(queue)
    /\ Cardinality(holders) = Limit
    /\ queue' = Append(queue, c)
    /\ UNCHANGED holders

GiveUp(c) ==
    /\ \E i \in DOMAIN queue : queue[i] = c /\ queue' = RemoveAt(queue, i)
    /\ UNCHANGED holders

(* A slot given back goes to the oldest waiter in the same step.           *)
GiveBack(c) ==
    /\ c \in holders
    /\ \/ /\ queue = <<>>
          /\ holders' = holders \ {c}
          /\ UNCHANGED queue
       \/ /\ queue # <<>>
          /\ holders' = (holders \ {c}) \union {Head(queue)}
          /\ queue' = Tail(queue)

Next == \E c \in Callers : Take(c) \/ LineUp(c) \/ GiveUp(c) \/ GiveBack(c)

Spec == Init /\ [][Next]_poolVars
=============================================================================
