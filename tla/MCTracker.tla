----------------------------- MODULE MCTracker -----------------------------
(* A small tracker for TLC. *)
EXTENDS Tracker, TLC

CONSTANTS w1, w2, red, blue

AllLabels == {red, blue}
OneSelector == {{red}}
TwoSelectors == {{red}, {red, blue}}
Interchangeable == Permutations({w1, w2})
=============================================================================
