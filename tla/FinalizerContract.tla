------------------------- MODULE FinalizerContract -------------------------
(***************************************************************************)
(* What ChildReconciler.Finalizer (and ResourceManager.Finalizer) promise: *)
(* "set on the reconciled resource before a child resource is created, and *)
(* cleared after a child resource is deleted" (src/reconcilers/child.go).  *)
(* Nothing is said of caches, calls, retries or crashes: a detailed        *)
(* specification is right if each of its steps is one of these, or none.   *)
(***************************************************************************)
CONSTANT Names

VARIABLES
  exists,    \* the parent exists
  guarded,   \* it carries the finalizer
  children   \* the children that exist on its behalf

contractVars == <<exists, guarded, children>>

Guard ==
  /\ exists /\ ~guarded
  /\ guarded' = TRUE
  /\ UNCHANGED <<exists, children>>

Allocate(n) ==
  /\ exists /\ guarded
  /\ children' = children \cup {n}
  /\ UNCHANGED <<exists, guarded>>

Release(n) ==
  /\ children' = children \ {n}
  /\ UNCHANGED <<exists, guarded>>

\* The parent may go away together with its last finalizer.
Unguard ==
  /\ guarded /\ children = {}
  /\ guarded' = FALSE
  /\ exists' \in {exists, FALSE}
  /\ UNCHANGED children

Vanish ==
  /\ exists /\ ~guarded
  /\ exists' = FALSE
  /\ UNCHANGED <<guarded, children>>

Init == exists = TRUE /\ guarded = FALSE /\ children = {}

Next ==
  \/ Guard \/ Unguard \/ Vanish
  \/ \E n \in Names : Allocate(n) \/ Release(n)

Spec == Init /\ [][Next]_contractVars

=============================================================================
