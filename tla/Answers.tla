------------------------------- MODULE Answers ---------------------------------
(***************************************************************************)
(* What the awaited functions of the server return or throw: a value, or   *)
(* an error of some code.  Names (of servers, bundles, skills, stacks) are *)
(* numbers in their alphabetical order; 0 is an empty name.                *)
(***************************************************************************)
EXTENDS Integers, FiniteSets, SequencesExt

Ok(v) == [ok |-> TRUE, value |-> v]
Error(c) == [ok |-> FALSE, code |-> c]

(* The elements of a sequence.                                             *)
Elements(s) == {s[i] : i \in DOMAIN s}

(* The elements of a finite set in the order that says which ones come     *)
(* before each: their number is its place.                                 *)
Ordered(S, before) ==
    [i \in 1..Cardinality(S) |-> CHOOSE x \in S : Cardinality(before[x]) = i - 1]

Increasing(numbers) == Ordered(numbers, [n \in numbers |-> {m \in numbers : m < n}])

(* The entries at some places of a sequence, in their order.               *)
AtPlaces(s, places) == [k \in 1..Cardinality(places) |-> s[Increasing(places)[k]]]

(* No two entries of a sequence have the same key.                         *)
Unique(s, Key(_)) == \A i, j \in DOMAIN s : Key(s[i]) = Key(s[j]) => i = j
================================================================================
