------------------------ MODULE MCConcurrencyLimiter ------------------------
(* Model checking of ConcurrencyLimiter, with the mutated operators that   *)
(* each property is shown to reject.                                       *)
EXTENDS ConcurrencyLimiter
=============================================================================
