------------------------------ MODULE ChildSet ------------------------------
(***************************************************************************)
(* A ResourceReconciler whose Reconciler is one ChildSetReconciler: many   *)
(* children, one for each identifier, one ChildReconciler made for each of *)
(* them in every request, and one finalizer (WithFinalizer) for all.       *)
(*                                                                         *)
(* The children are listed once; every later call to the API server is a   *)
(* step.  Lists are live and watches deliver at once: how one child fares  *)
(* with caches that lag is the subject of module ChildReconciler, here it  *)
(* is what the children of one parent do to each other.  A child's name is *)
(* its identifier.                                                         *)
(***************************************************************************)
EXTENDS Integers, FiniteSetsExt

CONSTANTS
  N,         \* identifiers are 1 .. N, in the order of their names
  Values,    \* the desired states a child can have
  Invalid,   \* those among them that the API server rejects as invalid
  NoChild,   \* no child; also: nothing to report of one
  Sets,      \* specs that desire a set of children
  Paused,    \* specs for which DesiredChildren returns OnlyReconcileChildStatus
  Broken,    \* specs for which it returns another error, or bad identifiers
  Setups,    \* what authors may have set
  SlowDelete, \* children carry finalizers of their own: a delete only marks them
  Budgets    \* how often each disturbance may happen (bounds the model)

Ids == 1 .. N
Specs == Sets \cup Paused \cup Broken
Disturbances == {"edits", "deletes", "drifts", "foreign", "faults", "crashes"}
\* skip: SkipOwnerReference, as the author wrote it.  finalizer: Finalizer # "".
Setup == [skip : BOOLEAN, finalizer : BOOLEAN]

ASSUME ChildSetAssumption ==
  /\ N \in Nat
  /\ Invalid \subseteq Values /\ {NoChild, "conflict", "invalid"} \cap Values = {}
  /\ Sets \subseteq [Ids -> Values \cup {NoChild}]
  /\ Sets \cap (Paused \cup Broken) = {} /\ Paused \cap Broken = {}
  /\ Setups \subseteq Setup
  /\ SlowDelete \in BOOLEAN
  /\ Budgets \subseteq [Disturbances -> Nat]

VARIABLES
  setup,    \* what the author has set
  parent,   \* the parent as stored by the API server
  kids,     \* the object of each name as stored by the API server
  env,      \* disturbances left
  queued,   \* the parent's key is in the work queue
  tracked,  \* children the tracker observes for the parent
  pc,       \* the call the worker makes next
  res,      \* the in-memory resource
  original, \* the status as it was read
  known,    \* the children that were listed
  todo,     \* identifiers whose turn is still to come
  found,    \* the partial results so far
  failed,   \* the request ends in an error
  unseen    \* children that changed since they were listed, and nobody was told (history)

workerVars == <<pc, res, original, known, todo, found, failed>>
vars == <<setup, parent, kids, env, queued, tracked, workerVars, unseen>>

Reports == Values \cup {NoChild, "conflict", "invalid"}
Found == [Ids -> Reports]
Status == [obs : Nat, seen : Found]
Parent == [there : BOOLEAN, deleting : BOOLEAN, fin : BOOLEAN, spec : Specs,
           gen : Nat, rv : Nat, status : Status]
\* owned: has a controller reference to the parent; marked: OurChild accepts it.
Kid == [there : BOOLEAN, owned : BOOLEAN, marked : BOOLEAN, deleting : BOOLEAN,
        value : Values \cup {NoChild}, rv : Nat]

PCs == {"idle", "list", "finalize", "turn", "clear", "status"}
Answers == {"ok", "rejected", "lost"}

NothingFound == [i \in Ids |-> NoChild]

TypeOK ==
  /\ setup \in Setups
  /\ parent \in Parent /\ kids \in [Ids -> Kid] /\ env \in [Disturbances -> Nat]
  /\ queued \in BOOLEAN /\ tracked \subseteq Ids
  /\ pc \in PCs /\ res \in Parent /\ original \in Status
  /\ known \in [Ids -> Kid] /\ todo \subseteq Ids /\ found \in Found /\ failed \in BOOLEAN
  /\ unseen \subseteq Ids
  /\ pc \in {"idle", "list"} => found = NothingFound

Absent == [there |-> FALSE, owned |-> FALSE, marked |-> FALSE, deleting |-> FALSE,
           value |-> NoChild, rv |-> 0]
Nobody == [there |-> FALSE, deleting |-> FALSE, fin |-> FALSE,
           spec |-> CHOOSE s \in Specs : TRUE, gen |-> 0, rv |-> 0,
           status |-> [obs |-> 0, seen |-> NothingFound]]

Spend(kind) == env[kind] > 0 /\ env' = [env EXCEPT ![kind] = @ - 1]
Fate(o) == o \in Answers /\ IF o = "ok" THEN UNCHANGED env ELSE Spend("faults")

-----------------------------------------------------------------------------
(* What the fields mean. *)

\* init() makes the void reconciler, which lists and watches, and the resource
\* manager, before validate() lets a finalizer imply SkipOwnerReference; the
\* reconcilers for the children are made in each request, after it.
SkipOwner == setup.skip \/ setup.finalizer
TrackDesired == setup.skip

Void(k) == k.there /\ k.marked /\ (setup.skip \/ k.owned)
OurChild(k) == k.there /\ k.marked /\ (SkipOwner \/ k.owned)

\* The watch handler finds the parent: by the owner, or by the tracker.
Notifies(i, before, after) ==
  IF setup.skip THEN i \in tracked ELSE before.owned \/ after.owned

StoreParent(p) ==
  /\ parent' = [p EXCEPT !.rv = parent.rv + 1, !.there = ~p.deleting \/ p.fin]
Current_Exists(p) == parent.there
Current(p) == parent.there /\ parent.rv = p.rv

StoreKid(i, k) == kids' = [kids EXCEPT ![i] = [k EXCEPT !.rv = kids[i].rv + 1]]
DeleteKid(i) ==
  CASE ~SlowDelete -> StoreKid(i, Absent)
    [] SlowDelete /\ kids[i].deleting -> UNCHANGED kids
    [] OTHER -> StoreKid(i, [kids[i] EXCEPT !.deleting = TRUE])

\* A change of a child queues the parent (Owns, or Watches with EnqueueTracked).
Woken == \E i \in Ids : kids'[i] # kids[i] /\ Notifies(i, kids[i], kids'[i])

-----------------------------------------------------------------------------
(* How a request ends.  wake: something was stored that wakes the parent. *)

Rest_KeepsResult(wake) ==
  /\ pc' = "idle" /\ res' = Nobody /\ original' = Nobody.status /\ failed' = FALSE
  /\ known' = [i \in Ids |-> Absent] /\ todo' = {} /\ UNCHANGED found
  /\ queued' = (queued \/ wake)
Rest(wake) ==
  /\ pc' = "idle" /\ res' = Nobody /\ original' = Nobody.status /\ failed' = FALSE
  /\ known' = [i \in Ids |-> Absent] /\ todo' = {} /\ found' = NothingFound
  /\ queued' = (queued \/ wake)

\* ResourceReconciler: the status is written only if it changed.
Conclude_NoRequeue(r, err, wake) ==
  IF r.status # original /\ ~r.deleting
    THEN /\ pc' = "status" /\ res' = r /\ failed' = FALSE
         /\ queued' = (queued \/ wake)
         /\ UNCHANGED <<original, known, todo, found>>
    ELSE Rest(wake)
Conclude(r, err, wake) ==
  IF r.status # original /\ ~r.deleting
    THEN /\ pc' = "status" /\ res' = r /\ failed' = err
         /\ queued' = (queued \/ wake)
         /\ UNCHANGED <<original, known, todo, found>>
    ELSE Rest(wake \/ err)

\* reflectStatus runs whether the sequence failed or not; copyGeneration does not.
Reflect(r, results, err, wake) ==
  Conclude([r EXCEPT !.status = [obs |-> IF err THEN @.obs ELSE r.gen, seen |-> results]],
           err, wake)

Fail(wake) == Reflect(res, found, TRUE, wake)

Proceed(r, ids, results, wake) ==
  /\ pc' = "turn" /\ res' = r /\ todo' = ids /\ found' = results
  /\ queued' = (queued \/ wake)
  /\ UNCHANGED <<original, known, failed>>

-----------------------------------------------------------------------------
(* The steps of a request. *)

Begin ==
  /\ pc = "idle" /\ queued
  /\ queued' = FALSE
  /\ IF ~parent.there \/ (parent.deleting /\ ~parent.fin)
       THEN UNCHANGED workerVars
       ELSE /\ pc' = "list" /\ res' = parent /\ original' = parent.status
            /\ UNCHANGED <<known, todo, found, failed>>
  /\ UNCHANGED <<setup, parent, kids, env, tracked, unseen>>

\* What one ChildReconciler desires: nothing for a terminating parent.
Desired(i) == IF res.deleting \/ res.spec \notin Sets THEN NoChild ELSE res.spec[i]

\* The identifiers desired, and those of the children there are.
Identifiers_Desired(listed) == {i \in Ids : res.spec \in Sets /\ res.spec[i] # NoChild}
Identifiers(listed) ==
  {i \in Ids : (res.spec \in Sets /\ res.spec[i] # NoChild) \/ Void(listed[i])}

\* knownChildren and composeChildReconcilers.  DesiredChildren is called for a
\* terminating parent as well, and its error ends the request with no reflection.
Compose(o) ==
  /\ pc = "list"
  /\ Fate(o)
  /\ IF o # "ok" \/ res.spec \in Broken
       THEN Conclude(res, TRUE, FALSE) /\ UNCHANGED unseen
       ELSE /\ known' = [i \in Ids |-> IF Void(kids[i]) THEN kids[i] ELSE Absent]
            /\ unseen' = {} /\ todo' = Identifiers(kids)
            /\ pc' = IF setup.finalizer /\ ~res.deleting /\ ~res.fin THEN "finalize" ELSE "turn"
            /\ UNCHANGED <<queued, res, original, found, failed>>
  /\ UNCHANGED <<setup, parent, kids, tracked>>

PatchFinalizer(add, o) ==
  /\ Fate(o)
  /\ IF o # "rejected" /\ Current(res)
       THEN StoreParent([parent EXCEPT !.fin = add])
       ELSE UNCHANGED parent

\* The resource takes its new version over from the answer.
Patched(add) == [res EXCEPT !.fin = add, !.rv = parent.rv + 1, !.gen = parent.gen]

AddFinalizer(o) ==
  /\ pc = "finalize"
  /\ PatchFinalizer(TRUE, o)
  /\ IF o = "ok" /\ Current(res)
       THEN Proceed(Patched(TRUE), todo, found, TRUE)
       ELSE Fail(parent' # parent)
  /\ UNCHANGED <<setup, kids, tracked, unseen>>

ClearFinalizer(o) ==
  /\ pc = "clear"
  /\ PatchFinalizer(FALSE, o)
  /\ IF o = "ok" /\ Current(res)
       THEN Reflect(Patched(FALSE), found, FALSE, TRUE)
       ELSE Fail(parent' # parent)
  /\ UNCHANGED <<setup, kids, tracked, unseen>>

\* The ChildReconcilers take their turns in the order of their identifiers.
Turn(i) == pc = "turn" /\ todo # {} /\ i = Min(todo)

\* ReflectChildStatusOnParent, which a terminating parent does not get.
Done(i, report, wake) ==
  Proceed(res, todo \ {i}, IF res.deleting THEN found ELSE [found EXCEPT ![i] = report], wake)

\* An error ends the sequence: the children after this one get no turn.
Stop_Continues(i, wake) == Proceed(res, todo \ {i}, found, wake)
Stop(i, wake) == Fail(wake)

\* OnlyReconcileChildStatus: the child is reported as it is.
Leave(i) ==
  /\ Turn(i) /\ res.spec \in Paused /\ ~res.deleting
  /\ Done(i, known[i].value, FALSE)
  /\ UNCHANGED <<setup, parent, kids, env, tracked, unseen>>

Unwanted(i) == Turn(i) /\ Desired(i) = NoChild /\ (res.deleting \/ res.spec \notin Paused)

\* There is none, or it is terminating already.
Skip(i) ==
  /\ Unwanted(i) /\ (~known[i].there \/ known[i].deleting)
  /\ Done(i, NoChild, FALSE)
  /\ UNCHANGED <<setup, parent, kids, env, tracked, unseen>>

Delete(i, o) ==
  /\ Unwanted(i) /\ known[i].there /\ ~known[i].deleting
  /\ Fate(o)
  /\ IF o # "rejected" /\ kids[i].there THEN DeleteKid(i) ELSE UNCHANGED kids
  /\ IF o = "ok" /\ kids[i].there THEN Done(i, NoChild, Woken) ELSE Stop(i, Woken)
  /\ UNCHANGED <<setup, parent, tracked, unseen>>

\* Refused creates are reported and do not stop the others, unless the object in
\* the way is our own.
Create(i, o) ==
  LET want == Desired(i)
      refused == want \in Invalid \/ kids[i].there
  IN  /\ Turn(i) /\ want # NoChild /\ ~known[i].there
      /\ Fate(o)
      /\ IF refused \/ o = "rejected" THEN UNCHANGED kids
         ELSE StoreKid(i, [there |-> TRUE, owned |-> ~SkipOwner, marked |-> TRUE,
                           deleting |-> FALSE, value |-> want, rv |-> 0])
      /\ CASE o # "ok" -> Stop(i, Woken)
           [] o = "ok" /\ want \in Invalid -> Done(i, "invalid", FALSE)
           [] o = "ok" /\ want \notin Invalid ->
                IF ~kids[i].there THEN Done(i, want, Woken)
                ELSE IF OurChild(kids[i]) THEN Stop(i, FALSE) ELSE Done(i, "conflict", FALSE)
      /\ tracked' = IF o = "ok" /\ ~refused /\ TrackDesired THEN tracked \cup {i} ELSE tracked
      /\ UNCHANGED <<setup, parent, unseen>>

Update(i, o) ==
  LET want == Desired(i)
      insync == known[i].value = want
      current == kids[i].there /\ kids[i].rv = known[i].rv
  IN  /\ Turn(i) /\ want # NoChild /\ known[i].there
      /\ tracked' = IF TrackDesired THEN tracked \cup {i} ELSE tracked
      /\ IF insync THEN o = "ok" /\ UNCHANGED env ELSE Fate(o)
      /\ IF ~insync /\ current /\ want \notin Invalid /\ o # "rejected"
           THEN StoreKid(i, [kids[i] EXCEPT !.value = want])
           ELSE UNCHANGED kids
      /\ IF insync \/ (current /\ o = "ok")
           THEN Done(i, IF want \in Invalid THEN "invalid" ELSE want, Woken)
           ELSE Stop(i, Woken)
      /\ UNCHANGED <<setup, parent, unseen>>

\* WithFinalizer: after the last child, the finalizer of a terminating parent goes.
Clears_Waits == res.deleting /\ setup.finalizer /\ res.fin /\ \A i \in Ids : ~known[i].there
Clears == res.deleting /\ setup.finalizer /\ res.fin

EndOfTurns ==
  /\ pc = "turn" /\ todo = {}
  /\ IF Clears
       THEN pc' = "clear" /\ UNCHANGED <<queued, res, original, known, todo, found, failed>>
       ELSE Reflect(res, found, FALSE, FALSE)
  /\ UNCHANGED <<setup, parent, kids, env, tracked, unseen>>

WriteStatus(o) ==
  /\ pc = "status"
  /\ Fate(o)
  /\ IF o # "rejected" /\ Current(res)
       THEN StoreParent([parent EXCEPT !.status = res.status])
       ELSE UNCHANGED parent
  /\ Rest(failed \/ o # "ok" \/ ~Current(res) \/ parent' # parent)
  /\ UNCHANGED <<setup, kids, tracked, unseen>>

Worker ==
  \/ Begin \/ EndOfTurns
  \/ \E o \in Answers :
       \/ Compose(o) \/ AddFinalizer(o) \/ ClearFinalizer(o) \/ WriteStatus(o)
       \/ \E i \in Ids : Delete(i, o) \/ Create(i, o) \/ Update(i, o)
  \/ \E i \in Ids : Leave(i) \/ Skip(i)

-----------------------------------------------------------------------------
(* Everybody else. *)

EditSpec ==
  /\ parent.there /\ Spend("edits")
  /\ \E s \in Specs \ {parent.spec} : StoreParent([parent EXCEPT !.spec = s, !.gen = @ + 1])
  /\ queued' = TRUE
  /\ UNCHANGED <<setup, kids, tracked, workerVars, unseen>>

DeleteParent ==
  /\ parent.there /\ ~parent.deleting /\ Spend("deletes")
  /\ StoreParent([parent EXCEPT !.deleting = TRUE, !.gen = @ + 1])
  /\ queued' = TRUE
  /\ UNCHANGED <<setup, kids, tracked, workerVars, unseen>>

KidChanges ==
  /\ queued' = (queued \/ Woken)
  /\ unseen' = unseen \cup {i \in Ids : kids'[i] # kids[i] /\ OurChild(kids[i])
                                         /\ ~Notifies(i, kids[i], kids'[i])}
  /\ UNCHANGED <<setup, parent, tracked, workerVars>>

\* Somebody else changes or deletes a child.
Drift(i) ==
  /\ kids[i].there /\ kids[i].marked /\ Spend("drifts")
  /\ \/ DeleteKid(i)
     \/ \E v \in Values \ (Invalid \cup {kids[i].value}) :
          StoreKid(i, [kids[i] EXCEPT !.value = v])
  /\ KidChanges

\* Somebody else takes a child's name, or gives it back.
Foreign(i) ==
  /\ Spend("foreign")
  /\ \/ /\ ~kids[i].there
        /\ \E v \in Values \ Invalid : StoreKid(i, [Absent EXCEPT !.there = TRUE, !.value = v])
     \/ kids[i].there /\ ~kids[i].marked /\ StoreKid(i, Absent)
  /\ KidChanges

FinishDelete(i) ==
  /\ kids[i].there /\ kids[i].deleting
  /\ StoreKid(i, Absent)
  /\ KidChanges /\ UNCHANGED env

CollectGarbage(i) ==
  /\ ~parent.there /\ kids[i].there /\ kids[i].owned /\ ~kids[i].deleting
  /\ DeleteKid(i)
  /\ KidChanges /\ UNCHANGED env

\* The process dies; its successor lists all parents first.  The tracker is empty.
Crash ==
  /\ Spend("crashes")
  /\ tracked' = {} /\ Rest(TRUE)
  /\ UNCHANGED <<setup, parent, kids, unseen>>

Init ==
  /\ setup \in Setups
  /\ \E s \in Specs :
       parent = [there |-> TRUE, deleting |-> FALSE, fin |-> FALSE, spec |-> s,
                 gen |-> 1, rv |-> 1, status |-> [obs |-> 0, seen |-> NothingFound]]
  /\ kids = [i \in Ids |-> Absent]
  /\ env \in Budgets /\ queued = TRUE /\ tracked = {}
  /\ pc = "idle" /\ res = Nobody /\ original = Nobody.status
  /\ known = [i \in Ids |-> Absent] /\ todo = {} /\ found = NothingFound /\ failed = FALSE
  /\ unseen = {}

Others ==
  \/ EditSpec \/ DeleteParent \/ Crash
  \/ \E i \in Ids : Drift(i) \/ Foreign(i) \/ FinishDelete(i) \/ CollectGarbage(i)

Next == Worker \/ Others

Spec == Init /\ [][Next]_vars

\* The work queue keeps serving, terminating children and orphans of the garbage
\* collector go away.
FairSpec ==
  /\ Spec
  /\ WF_vars(Worker)
  /\ \A i \in Ids : WF_vars(FinishDelete(i)) /\ WF_vars(CollectGarbage(i))

-----------------------------------------------------------------------------
(* Properties *)

Live == {i \in Ids : OurChild(kids[i]) /\ ~kids[i].deleting}

\* One finalizer guards all children: it is there before any of them is created,
\* and stays until every one of them has been deleted.  (A child that was deleted
\* and is slow to go does not hold it: WithFinalizer does not wait.)
Contract == INSTANCE FinalizerContract WITH
  Names <- Ids, exists <- parent.there, guarded <- parent.fin,
  children <- IF setup.finalizer THEN Live ELSE {}
ImplementsContract == Contract!Spec

\* What the status shows of any child, under the generation it claims, comes from
\* the current spec and not from the one before.
Honest ==
  parent.status.obs = parent.gen /\ parent.spec \in Sets =>
    \A i \in Ids : parent.status.seen[i] \in {parent.spec[i], NoChild, "conflict", "invalid"}

\* When the controller rests, every child has had its turn: the wanted ones are as
\* desired and reported, also those behind a refused one, and no others are left.
\* Left out are children that changed between being listed and being tracked, when
\* no watch finds the parent: it happens after a restart.
QuietIsWhole ==
  pc = "idle" /\ ~queued /\ parent.there /\ ~parent.deleting /\ parent.spec \in Sets =>
    /\ parent.status.obs = parent.gen
    /\ \A i \in Ids \ unseen : LET want == parent.spec[i]  seen == parent.status.seen[i] IN
         CASE want = NoChild -> i \notin Live /\ seen = NoChild
           [] want \in Invalid -> seen \in {"invalid", "conflict"}
           [] OTHER -> \/ seen = "conflict"
                       \/ seen = want /\ OurChild(kids[i]) /\ kids[i].value = want

\* Every disturbance of any child passes.
Converges ==
  <>[](parent.there /\ ~parent.deleting /\ parent.spec \in Sets =>
         \A i \in Ids \ unseen : parent.status.seen[i] \in {"conflict", "invalid"}
                        \/ (parent.status.seen[i] = parent.spec[i]
                            /\ (parent.spec[i] # NoChild => kids[i].value = parent.spec[i])))

\* A terminating parent goes away whatever its children do.  An error of
\* DesiredChildren, which is asked for a terminating parent too, prevents it.
Terminates == parent.deleting ~> ~parent.there \/ parent.spec \in Broken

=============================================================================
