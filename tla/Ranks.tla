--------------------------------- MODULE Ranks ---------------------------------
(***************************************************************************)
(* Ranks of five numbers, compared from the first on.  No rank can be      *)
(* lowered for ever (RanksAreFounded of ProfileResolve_proofs), so that a  *)
(* program each step of which lowers one comes to an end.                  *)
(***************************************************************************)
EXTENDS Integers

Ranks == Nat \X Nat \X Nat \X Nat \X Nat

Lower(r, s) == \E i \in 1..5 : r[i] < s[i] /\ \A j \in 1..(i - 1) : r[j] = s[j]
================================================================================
