------------------------- MODULE MCChildReconciler -------------------------
(***************************************************************************)
(* Bounds for model checking ChildReconciler: how often each disturbance   *)
(* of Cluster may happen.  Which of them a run has is what the run asks.   *)
(***************************************************************************)
EXTENDS ChildReconciler

Once(kinds) == [d \in Disturbances |-> IF d \in kinds THEN 1 ELSE 0]

Lifecycle == {Once({"edits", "deletes", "drifts", "faults", "crashes"})}
Contention == {Once({"edits", "deletes", "drifts"}), Once({"edits", "drifts", "foreign"}),
               Once({"edits", "foreign", "blind"}), [Once({}) EXCEPT !["edits"] = 2]}
Restarts == {Once({"edits", "faults", "crashes"})}
Drifting == {Once({"edits", "deletes", "drifts"})}
Editing == {Once({"edits"})}

=============================================================================
