-------------------------- MODULE MCConditionSet ---------------------------
(* A living resource with two dependents and one more condition, for TLC. *)
EXTENDS ConditionSet, TLC

CONSTANTS Ready, A, B, X

Interchangeable == Permutations({A, B})
=============================================================================
