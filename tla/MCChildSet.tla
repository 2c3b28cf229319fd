----------------------------- MODULE MCChildSet -----------------------------
(***************************************************************************)
(* Specs, setups and bounds for model checking ChildSet.                   *)
(***************************************************************************)
EXTENDS ChildSet, TLC

CONSTANTS v1, v2, bad

\* All, the second refused or all but the first unwanted, none.
MCSets == {1 :> v1 @@ 2 :> v1, 1 :> bad @@ 2 :> v1, 1 :> v2 @@ 2 :> NoChild, 1 :> NoChild @@ 2 :> NoChild}

\* A Finalizer together with SkipOwnerReference, or owner references alone.
MCSetups == {[skip |-> TRUE, finalizer |-> TRUE], [skip |-> FALSE, finalizer |-> FALSE]}

Once(kinds) == [d \in Disturbances |-> IF d \in kinds THEN 1 ELSE 0]

\* Three disturbances at a time.
MCBudgets == {Once({"edits", "deletes", "faults"}), Once({"faults", "crashes", "deletes"}),
              Once({"drifts", "crashes", "deletes"}), Once({"edits", "drifts", "foreign"})}

=============================================================================
