------------------------------ MODULE Cluster ------------------------------
(***************************************************************************)
(* The Kubernetes API server and the informer caches, as the reconcilers   *)
(* of src/reconcilers use them.  One reconciled resource (the parent) and  *)
(* the resources of one child kind are stored on the server.  Every write  *)
(* produces a new version, and an informer sees the versions in order but  *)
(* after an arbitrary delay: what a reconciler reads may be old.           *)
(* Nothing here is code of this repository: all of it is external.         *)
(***************************************************************************)
EXTENDS Integers, FiniteSets

CONSTANTS
  Values,      \* the desired states a child can have
  Invalid,     \* those among them that the API server rejects as invalid
  NoChild,     \* "no child is desired", and the value of an absent child
  Paused,      \* specs that ask for the child to be left as it is
  Names,       \* the names children can have
  SlowDelete,  \* children carry finalizers of their own: a delete only marks them
  Budgets      \* how often each disturbance may happen (bounds the model)

Disturbances == {"edits", "deletes", "drifts", "foreign", "faults", "blind", "crashes"}

ASSUME ClusterAssumption ==
  /\ Invalid \subseteq Values
  /\ NoChild \notin Values
  /\ Paused \cap (Values \cup {NoChild}) = {}
  /\ SlowDelete \in BOOLEAN
  /\ Budgets \subseteq [Disturbances -> Nat]

VARIABLES
  parent,   \* the parent as stored by the API server
  pCache,   \* the parent as the informer cache has it
  pWatch,   \* versions of the parent the informer has not delivered yet
  kids,     \* the children as stored by the API server, with the revision
  kCache,   \* the children as the informer cache has them
  kWatch,   \* versions of the children the informer has not delivered yet
  env       \* how many disturbances of each kind may still happen

clusterVars == <<parent, pCache, pWatch, kids, kCache, kWatch, env>>

Contents == Values \cup {NoChild}
Specs == Contents \cup Paused
Reasons == {"none", "unknown", "ok", "conflict", "invalid"}
Status == [obs : Nat, ref : Contents, reason : Reasons]

\* fin: the finalizer of the reconciler under study; held: any other finalizer.
Parent == [there : BOOLEAN, deleting : BOOLEAN, held : BOOLEAN, fin : BOOLEAN,
           spec : Specs, gen : Nat, rv : Nat, status : Status]

\* owned: has a controller reference to the parent; marked: OurChild accepts it.
Kid == [there : BOOLEAN, owned : BOOLEAN, marked : BOOLEAN, deleting : BOOLEAN,
        value : Contents, rv : Nat]

Kids == [rev : Nat, obj : [Names -> Kid]]

Absent == [there |-> FALSE, owned |-> FALSE, marked |-> FALSE, deleting |-> FALSE,
           value |-> NoChild, rv |-> 0]

ClusterTypeOK ==
  /\ parent \in Parent /\ pCache \in Parent /\ pWatch \in SUBSET Parent
  /\ kids \in Kids /\ kCache \in Kids /\ kWatch \in SUBSET Kids
  /\ env \in [Disturbances -> Nat]

ClusterInit ==
  /\ \E spec \in Specs, held \in BOOLEAN :
       parent = [there |-> TRUE, deleting |-> FALSE, held |-> held, fin |-> FALSE,
                 spec |-> spec, gen |-> 1, rv |-> 1,
                 status |-> [obs |-> 0, ref |-> NoChild, reason |-> "none"]]
  /\ pCache = parent
  /\ pWatch = {}
  /\ kids = [rev |-> 0, obj |-> [n \in Names |-> Absent]]
  /\ kCache = kids
  /\ kWatch = {}
  /\ env \in Budgets

Spend(kind) == env[kind] > 0 /\ env' = [env EXCEPT ![kind] = @ - 1]

-----------------------------------------------------------------------------
(* The writes the API server performs. *)

\* A terminating object goes away once its last finalizer is removed.
StoreParent(p) ==
  LET new == [p EXCEPT !.rv = parent.rv + 1,
                       !.there = ~p.deleting \/ p.fin \/ p.held]
  IN  parent' = new /\ pWatch' = pWatch \cup {new}

\* Optimistic concurrency: a write that carries a resource version succeeds
\* only against that version.
Current(p) == parent.there /\ parent.rv = p.rv

StoreKid(n, k) ==
  LET rev == kids.rev + 1
      new == [rev |-> rev, obj |-> [kids.obj EXCEPT ![n] = [k EXCEPT !.rv = rev]]]
  IN  kids' = new /\ kWatch' = kWatch \cup {new}

\* Deletes are by name and carry no precondition.
DeleteKid(n) ==
  IF ~SlowDelete
    THEN StoreKid(n, Absent)
    ELSE IF kids.obj[n].deleting
           THEN UNCHANGED <<kids, kWatch>>
           ELSE StoreKid(n, [kids.obj[n] EXCEPT !.deleting = TRUE])

-----------------------------------------------------------------------------
(* What users, other controllers and the garbage collector do. *)

EditSpec ==
  /\ parent.there
  /\ Spend("edits")
  /\ \E spec \in Specs \ {parent.spec} :
       StoreParent([parent EXCEPT !.spec = spec, !.gen = @ + 1])
  /\ UNCHANGED <<pCache, kids, kCache, kWatch>>

DeleteParent ==
  /\ parent.there /\ ~parent.deleting
  /\ Spend("deletes")
  /\ StoreParent([parent EXCEPT !.deleting = TRUE, !.gen = @ + 1])
  /\ UNCHANGED <<pCache, kids, kCache, kWatch>>

\* Another controller removes its finalizer from the terminating parent.
ReleaseHold ==
  /\ parent.there /\ parent.deleting /\ parent.held
  /\ StoreParent([parent EXCEPT !.held = FALSE])
  /\ UNCHANGED <<pCache, kids, kCache, kWatch, env>>

\* Somebody else changes or deletes a child.
Drift(n) ==
  /\ kids.obj[n].there /\ kids.obj[n].marked
  /\ Spend("drifts")
  /\ \/ DeleteKid(n)
     \/ \E v \in Values \ (Invalid \cup {kids.obj[n].value}) :
          StoreKid(n, [kids.obj[n] EXCEPT !.value = v])
  /\ UNCHANGED <<parent, pCache, pWatch, kCache>>

\* Somebody else creates, or later deletes, an unrelated object of that kind.
Foreign(n) ==
  /\ Spend("foreign")
  /\ \/ /\ ~kids.obj[n].there
        /\ \E v \in Values \ Invalid : StoreKid(n, [Absent EXCEPT !.there = TRUE, !.value = v])
     \/ /\ kids.obj[n].there /\ ~kids.obj[n].marked
        /\ StoreKid(n, Absent)
  /\ UNCHANGED <<parent, pCache, pWatch, kCache>>

\* The finalizers of a terminating child are removed: it is gone.
FinishDelete(n) ==
  /\ kids.obj[n].there /\ kids.obj[n].deleting
  /\ StoreKid(n, Absent)
  /\ UNCHANGED <<parent, pCache, pWatch, kCache, env>>

\* The garbage collector deletes the dependents of an owner that is gone.
CollectGarbage(n) ==
  /\ ~parent.there
  /\ kids.obj[n].there /\ kids.obj[n].owned /\ ~kids.obj[n].deleting
  /\ DeleteKid(n)
  /\ UNCHANGED <<parent, pCache, pWatch, kCache, env>>

Environment ==
  \/ EditSpec
  \/ DeleteParent
  \/ ReleaseHold
  \/ \E n \in Names : Drift(n)
  \/ \E n \in Names : Foreign(n)
  \/ \E n \in Names : FinishDelete(n)
  \/ \E n \in Names : CollectGarbage(n)

=============================================================================
