-------------------------- MODULE MCServiceBreaker --------------------------
(* Instances of ServiceBreaker; the callers are interchangeable. *)
EXTENDS ServiceBreaker, TLC

Symmetry == Permutations(Calls)
=============================================================================
