-------------------------- MODULE ChildReconciler --------------------------
(***************************************************************************)
(* A ResourceReconciler whose Reconciler is one ChildReconciler, down to   *)
(* the ResourceManager and the finalizer helpers it calls, against the API *)
(* server and the informer caches of module Cluster.                       *)
(*                                                                         *)
(* One worker reconciles the parent (controller-runtime never runs two     *)
(* requests for one key at a time).  A reconcile request is cut at every   *)
(* call to the API server: between two of its steps users act, informers   *)
(* deliver and the process may crash.  DesiredChild is taken to be a       *)
(* function of the parent's spec: the spec IS the desired value, or asks   *)
(* for OnlyReconcileChildStatus.  A request that fails is requeued.        *)
(***************************************************************************)
EXTENDS Cluster

CONSTANTS
  SkipOwnerReference,  \* ChildReconciler.SkipOwnerReference, as the author wrote it
  UseFinalizer,        \* ChildReconciler.Finalizer # ""
  GenerateName,        \* the desired child has a generateName, not a name
  SameNamespace,       \* parent and child live in the same namespace
  CachedList,          \* the client lists children from an informer
  NoName               \* no actual child was found

ASSUME ReconcilerAssumption ==
  /\ SkipOwnerReference \in BOOLEAN
  /\ UseFinalizer \in BOOLEAN
  /\ GenerateName \in BOOLEAN
  /\ SameNamespace \in BOOLEAN
  /\ CachedList \in BOOLEAN
  /\ NoName \notin Names
  /\ ~GenerateName => \A n, m \in Names : n = m

VARIABLES
  queued,    \* the parent's key is in the work queue
  pc,        \* the call the worker makes next
  res,       \* the in-memory resource handed to the sub reconcilers
  original,  \* the status of the resource as it was read
  failed,    \* the request ends in an error
  list,      \* the children as listed for this request
  extras,    \* extra children still to be deleted
  actual,    \* the name of the actual child, or NoName
  tracked    \* names of the children the tracker observes for the parent

workerVars == <<pc, res, original, failed, list, extras, actual>>
vars == <<clusterVars, queued, workerVars, tracked>>

PCs == {"idle", "list", "extras", "clear", "delete", "finalize", "create",
        "conflict", "update", "status"}
Answers == {"ok", "rejected", "lost"}

\* What SetupWithManager makes of the two fields: init() builds the resource
\* manager, with TrackDesired, before validate() lets a finalizer imply
\* SkipOwnerReference.
SkipOwner == SkipOwnerReference \/ UseFinalizer
TrackDesired == SkipOwnerReference

OurChild(k) == k.there /\ k.marked /\ (SkipOwner \/ k.owned)

\* desiredChild: nothing is desired of a terminating parent.
Desired(p) == IF p.deleting THEN NoChild ELSE p.spec

TypeOK ==
  /\ ClusterTypeOK
  /\ queued \in BOOLEAN
  /\ pc \in PCs
  /\ res \in Parent
  /\ original \in Status
  /\ failed \in BOOLEAN
  /\ list \in [Names -> Kid]
  /\ extras \in SUBSET Names
  /\ actual \in Names \cup {NoName}
  /\ tracked \in SUBSET Names

Nobody == [there |-> FALSE, deleting |-> FALSE, held |-> FALSE, fin |-> FALSE,
           spec |-> NoChild, gen |-> 0, rv |-> 0,
           status |-> [obs |-> 0, ref |-> NoChild, reason |-> "none"]]


-----------------------------------------------------------------------------
(* How a request ends, and what the API server answers. *)

\* The worker forgets the request; the queue gets its key back on an error.
Rest ==
  /\ pc' = "idle" /\ res' = Nobody /\ original' = Nobody.status /\ failed' = FALSE
  /\ list' = [n \in Names |-> Absent] /\ extras' = {} /\ actual' = NoName

\* The status is written only if it changed, and never when terminating.
Conclude_NoRequeue(r, err) ==
  IF r.status # original /\ ~r.deleting
    THEN /\ pc' = "status" /\ res' = r /\ failed' = FALSE
         /\ UNCHANGED <<queued, original, list, extras, actual>>
    ELSE Rest /\ UNCHANGED queued
Conclude(r, err) ==
  IF r.status # original /\ ~r.deleting
    THEN /\ pc' = "status" /\ res' = r /\ failed' = err
         /\ UNCHANGED <<queued, original, list, extras, actual>>
    ELSE Rest /\ queued' = (queued \/ err)

Fail_CopiesGeneration == Conclude([res EXCEPT !.status.obs = res.gen], TRUE)
Fail == Conclude(res, TRUE)

\* ReflectChildStatusOnParent, then copyGeneration.
Reflect_Desired(r, ref, reason) ==
  Conclude([r EXCEPT !.status = [obs |-> r.gen, ref |-> r.spec, reason |-> reason]], FALSE)
Reflect(r, ref, reason) ==
  Conclude([r EXCEPT !.status = [obs |-> r.gen, ref |-> ref, reason |-> reason]], FALSE)

Finish(ref, reason) == Reflect(res, ref, reason)

\* The fate of a call: done, refused, or done with the answer lost.
Answer(o) ==
  /\ o \in Answers
  /\ IF o = "ok" THEN UNCHANGED env ELSE Spend("faults")

Goto(next) == pc' = next /\ UNCHANGED <<queued, res, original, failed, list, extras, actual>>

-----------------------------------------------------------------------------
(* The steps of a request. *)

\* There is nothing to do for a parent that is gone, or terminating without
\* finalizers.
NothingToDo_Terminating(p) == ~p.there \/ p.deleting
NothingToDo(p) == ~p.there \/ (p.deleting /\ ~p.fin /\ ~p.held)

\* ResourceReconciler.Reconcile up to the first sub reconciler: read the
\* parent from the cache and initialize its conditions.
Begin ==
  /\ pc = "idle" /\ queued
  /\ queued' = FALSE
  /\ IF NothingToDo(pCache)
       THEN UNCHANGED workerVars
       ELSE /\ pc' = "list"
            /\ res' = [pCache EXCEPT !.status.reason = IF @ = "none" THEN "unknown" ELSE @]
            /\ original' = pCache.status
            /\ UNCHANGED <<failed, list, extras, actual>>
  /\ UNCHANGED <<clusterVars, tracked>>

\* What is called next, once the actual child is known.
Route_ClearFirst(act) ==
  CASE Desired(res) = NoChild /\ res.fin  -> "clear"
    [] Desired(res) = NoChild /\ ~res.fin -> IF act = NoName THEN "clear" ELSE "delete"
    [] OTHER -> "finalize"
Route_NoFinalizer(act) ==
  CASE Desired(res) = NoChild /\ act = NoName -> "clear"
    [] Desired(res) = NoChild /\ act # NoName -> "delete"
    [] OTHER -> IF act = NoName THEN "create" ELSE "update"
Route(act) ==
  CASE Desired(res) = NoChild /\ act = NoName -> "clear"
    [] Desired(res) = NoChild /\ act # NoName -> "delete"
    [] OTHER -> "finalize"

Dispatch(known, act) ==
  IF Desired(res) \in Paused
    THEN Finish(IF act = NoName THEN NoChild ELSE known[act].value, "ok")
    ELSE /\ pc' = Route(act) /\ list' = known /\ actual' = act /\ extras' = {}
         /\ UNCHANGED <<queued, res, original, failed>>

\* len(children) == 1
Only_First(ours) == ours # {}
Only(ours) == \E n \in ours : ours = {n}

\* ChildReconciler.reconcile: list and filter the children.  An error of
\* DesiredChild ends the request like an error of List.
ListChildren(o) ==
  /\ pc = "list"
  /\ Answer(o)
  /\ LET known == IF CachedList THEN kCache.obj ELSE kids.obj
         ours == {n \in Names : OurChild(known[n])}
     IN  IF o # "ok" THEN Fail
         ELSE IF ours = {} THEN Dispatch(known, NoName)
         ELSE IF Only(ours) THEN Dispatch(known, CHOOSE n \in ours : TRUE)
         ELSE /\ pc' = "extras" /\ list' = known /\ extras' = ours
              /\ UNCHANGED <<queued, res, original, failed, actual>>
  /\ UNCHANGED <<parent, pCache, pWatch, kids, kCache, kWatch, tracked>>

\* More than one child: delete everything to a clean slate.
DeleteExtra(n, o) ==
  /\ pc = "extras" /\ n \in extras
  /\ Answer(o)
  /\ LET done == o = "ok" /\ kids.obj[n].there
     IN  /\ IF o = "rejected" \/ ~kids.obj[n].there
              THEN UNCHANGED <<kids, kWatch>>
              ELSE DeleteKid(n)
         /\ IF ~done THEN Fail
            ELSE IF extras = {n} THEN Dispatch(list, NoName)
            ELSE /\ extras' = extras \ {n}
                 /\ UNCHANGED <<queued, pc, res, original, failed, list, actual>>
  /\ UNCHANGED <<parent, pCache, pWatch, kCache, tracked>>

\* ensureFinalizer: a patch that carries the resource version.  Nothing to do
\* without a finalizer, or when the in-memory resource already agrees.
Differs(add) == UseFinalizer /\ res.fin # add

Accepted_NoLock(o) == o # "rejected" /\ parent.there
Accepted(o) == o # "rejected" /\ Current(res)

PatchFinalizer(add, o) ==
  IF ~Differs(add)
    THEN o = "ok" /\ UNCHANGED <<parent, pWatch, env>>
    ELSE /\ Answer(o)
         /\ IF Accepted(o)
              THEN StoreParent([parent EXCEPT !.fin = add])
              ELSE UNCHANGED <<parent, pWatch>>

Patches(add, o) == Differs(add) => o = "ok" /\ Accepted(o)

\* The in-memory resource takes its new version over from the answer.
Patched(add) ==
  IF Differs(add) THEN [res EXCEPT !.fin = add, !.rv = parent.rv + 1, !.gen = parent.gen]
                  ELSE res

\* Manage: there is no child and none is desired.
ClearFinalizer(o) ==
  /\ pc = "clear"
  /\ PatchFinalizer(FALSE, o)
  /\ IF Patches(FALSE, o) THEN Reflect(Patched(FALSE), NoChild, "ok") ELSE Fail
  /\ UNCHANGED <<pCache, kids, kCache, kWatch, tracked>>

\* Manage: create the child unless there is one.
Verb_Replace(act) == IF act = NoName \/ list[act].deleting THEN "create" ELSE "update"
Verb(act) == IF act = NoName THEN "create" ELSE "update"

\* Manage: a child is desired.
AddFinalizer(o) ==
  /\ pc = "finalize"
  /\ PatchFinalizer(TRUE, o)
  /\ IF Patches(TRUE, o)
       THEN /\ pc' = Verb(actual)
            /\ res' = Patched(TRUE)
            /\ UNCHANGED <<queued, original, failed, list, extras, actual>>
       ELSE Fail
  /\ UNCHANGED <<pCache, kids, kCache, kWatch, tracked>>

\* A generated name is one no object has had.
Nameable(n) == GenerateName => kids.obj[n].rv = 0

\* Manage: create the child, then track it: its name is known only now.  An
\* error of the tracker ends the request like a lost answer.
CreateChild(n, o) ==
  LET want == Desired(res)
      refused == want \in Invalid \/ kids.obj[n].there
  IN  /\ pc = "create" /\ Nameable(n)
      /\ Answer(o)
      /\ IF refused \/ o = "rejected"
           THEN UNCHANGED <<kids, kWatch>>
           ELSE StoreKid(n, [there |-> TRUE, owned |-> ~SkipOwner, marked |-> TRUE,
                             deleting |-> FALSE, value |-> want, rv |-> 0])
      /\ CASE o # "ok" -> Fail
           [] o = "ok" /\ want \in Invalid -> Finish(NoChild, "invalid")
           [] o = "ok" /\ want \notin Invalid ->
                IF kids.obj[n].there THEN Goto("conflict") ELSE Finish(want, "ok")
      /\ tracked' = IF o = "ok" /\ ~refused /\ TrackDesired THEN tracked \cup {n} ELSE tracked
  /\ UNCHANGED <<parent, pCache, pWatch, kCache>>

\* The create was refused: look, past the cache, whether the object in the way
\* is our own.  The lookup uses the parent's namespace and ignores its error.
CheckConflict_Cached(n, seen) ==
  /\ pc = "conflict"
  /\ IF seen THEN UNCHANGED env ELSE Spend("blind")
  /\ IF seen /\ SameNamespace /\ OurChild(kCache.obj[n])
       THEN Fail
       ELSE Finish(NoChild, "conflict")
  /\ UNCHANGED <<parent, pCache, pWatch, kids, kCache, kWatch, tracked>>
CheckConflict(n, seen) ==
  /\ pc = "conflict"
  /\ IF seen THEN UNCHANGED env ELSE Spend("blind")
  /\ IF seen /\ SameNamespace /\ OurChild(kids.obj[n])
       THEN Fail
       ELSE Finish(NoChild, "conflict")
  /\ UNCHANGED <<parent, pCache, pWatch, kids, kCache, kWatch, tracked>>

\* The child on the server is still the one that was listed.
AsListed_ByName(n) == kids.obj[n].there
AsListed(n) == kids.obj[n].there /\ kids.obj[n].rv = list[n].rv

\* Manage: track the child before bringing it in line with what is desired.
UpdateChild_TrackWrites(n, o) ==
  LET want == Desired(res)
      insync == list[n].value = want
      reaches == ~insync /\ AsListed(n)
  IN  /\ pc = "update" /\ n = actual
      /\ tracked' = IF TrackDesired /\ ~insync THEN tracked \cup {n} ELSE tracked
      /\ IF insync THEN o = "ok" /\ UNCHANGED env ELSE Answer(o)
      /\ IF reaches /\ o # "rejected" /\ want \notin Invalid
           THEN StoreKid(n, [kids.obj[n] EXCEPT !.value = want])
           ELSE UNCHANGED <<kids, kWatch>>
      /\ IF insync \/ (reaches /\ o = "ok")
           THEN IF want \in Invalid /\ ~insync THEN Finish(NoChild, "invalid") ELSE Finish(want, "ok")
           ELSE Fail
  /\ UNCHANGED <<parent, pCache, pWatch, kCache>>
UpdateChild(n, o) ==
  LET want == Desired(res)
      insync == list[n].value = want
      reaches == ~insync /\ AsListed(n)
  IN  /\ pc = "update" /\ n = actual
      /\ tracked' = IF TrackDesired THEN tracked \cup {n} ELSE tracked
      /\ IF insync THEN o = "ok" /\ UNCHANGED env ELSE Answer(o)
      /\ IF reaches /\ o # "rejected" /\ want \notin Invalid
           THEN StoreKid(n, [kids.obj[n] EXCEPT !.value = want])
           ELSE UNCHANGED <<kids, kWatch>>
      /\ IF insync \/ (reaches /\ o = "ok")
           THEN IF want \in Invalid /\ ~insync THEN Finish(NoChild, "invalid") ELSE Finish(want, "ok")
           ELSE Fail
  /\ UNCHANGED <<parent, pCache, pWatch, kCache>>

\* Manage: delete the unwanted child, by name, unless it is terminating.
DeleteChild(n, o) ==
  /\ pc = "delete" /\ n = actual
  /\ IF list[n].deleting
       THEN /\ o = "ok" /\ Finish(NoChild, "ok")
            /\ UNCHANGED <<kids, kWatch, env>>
       ELSE /\ Answer(o)
            /\ IF kids.obj[n].there /\ o # "rejected"
                 THEN DeleteKid(n)
                 ELSE UNCHANGED <<kids, kWatch>>
            /\ IF kids.obj[n].there /\ o = "ok" THEN Finish(NoChild, "ok") ELSE Fail
  /\ UNCHANGED <<parent, pCache, pWatch, kCache, tracked>>

\* ResourceReconciler.Reconcile: update the status.
WriteStatus(o) ==
  /\ pc = "status"
  /\ Answer(o)
  /\ IF o # "rejected" /\ Current(res)
       THEN StoreParent([parent EXCEPT !.status = res.status])
       ELSE UNCHANGED <<parent, pWatch>>
  /\ queued' = (queued \/ failed \/ o # "ok" \/ ~Current(res))
  /\ Rest
  /\ UNCHANGED <<pCache, kids, kCache, kWatch, tracked>>

Worker ==
  \/ Begin
  \/ \E o \in Answers :
       \/ ListChildren(o) \/ ClearFinalizer(o) \/ AddFinalizer(o) \/ WriteStatus(o)
       \/ \E n \in Names : DeleteExtra(n, o) \/ CreateChild(n, o)
                           \/ UpdateChild(n, o) \/ DeleteChild(n, o)
  \/ \E n \in Names, seen \in BOOLEAN : CheckConflict(n, seen)

-----------------------------------------------------------------------------
(* Informers, crashes, and the whole system. *)

\* Informers deliver every version, in order.  For() queues the key of a
\* changed parent.
DeliverParent ==
  \E p \in pWatch :
    /\ \A q \in pWatch : p.rv <= q.rv
    /\ pCache' = p /\ pWatch' = pWatch \ {p}
    /\ queued' = TRUE
    /\ UNCHANGED <<parent, kids, kCache, kWatch, env, workerVars, tracked>>

\* Owns() queues the owner of a changed child, Watches(EnqueueTracked) those
\* that track it.
Notifies_Removals(n, old, new) ==
  ~new.there /\ (IF SkipOwner THEN n \in tracked ELSE old.owned)
Notifies(n, old, new) ==
  IF SkipOwner THEN n \in tracked ELSE old.owned \/ new.owned

DeliverKids ==
  \E k \in kWatch :
    /\ \A q \in kWatch : k.rev <= q.rev
    /\ kCache' = k /\ kWatch' = kWatch \ {k}
    /\ queued' = (queued \/ \E n \in Names : /\ k.obj[n] # kCache.obj[n]
                                             /\ Notifies(n, kCache.obj[n], k.obj[n]))
    /\ UNCHANGED <<parent, pCache, pWatch, kids, env, workerVars, tracked>>

\* The process dies and starts again: only the API server remembers.  The new
\* informers list what is there.
Crash ==
  /\ Spend("crashes")
  /\ Rest
  /\ tracked' = {}
  /\ pCache' = parent /\ pWatch' = {}
  /\ kCache' = kids /\ kWatch' = {}
  /\ queued' = parent.there
  /\ UNCHANGED <<parent, kids>>

Init ==
  /\ ClusterInit
  /\ queued = TRUE
  /\ pc = "idle" /\ res = Nobody /\ original = Nobody.status /\ failed = FALSE
  /\ list = [n \in Names |-> Absent] /\ extras = {} /\ actual = NoName
  /\ tracked = {}

Others == Environment /\ UNCHANGED <<queued, workerVars, tracked>>

Next == Worker \/ DeliverParent \/ DeliverKids \/ Crash \/ Others

Spec == Init /\ [][Next]_vars

\* The work queue keeps serving, informers keep delivering, and what Kubernetes
\* promises to finish gets finished.  Users, faults and crashes owe nothing.
Fairness ==
  /\ WF_vars(Worker)
  /\ WF_vars(DeliverParent)
  /\ WF_vars(DeliverKids)
  /\ WF_vars(ReleaseHold /\ UNCHANGED <<queued, workerVars, tracked>>)
  /\ \A n \in Names : /\ WF_vars(FinishDelete(n) /\ UNCHANGED <<queued, workerVars, tracked>>)
                      /\ WF_vars(CollectGarbage(n) /\ UNCHANGED <<queued, workerVars, tracked>>)

FairSpec == Spec /\ Fairness

-----------------------------------------------------------------------------
(* Properties *)

Ours == {n \in Names : OurChild(kids.obj[n])}

\* No child of ours comes into being unless the stored parent carries the
\* finalizer at that very moment, however old what the worker read was: the
\* optimistic lock of ensureFinalizer is what makes a cached "already there" safe.
CreateUnderFinalizer ==
  [][UseFinalizer /\ ~(Ours' \subseteq Ours) => parent.there /\ parent.fin]_vars

\* "Removed after the child is deleted": while a child of ours exists, the
\* parent and its finalizer do too.  (ChildReconciler.Finalizer)
NoOrphan == UseFinalizer /\ Ours # {} => parent.there /\ parent.fin

\* Each step is one the finalizer's contract allows.
Contract == INSTANCE FinalizerContract WITH
  exists <- parent.there, guarded <- parent.fin, children <- Ours
ImplementsContract == Contract!Spec

\* A ChildReconciler manages one child: its creates never add a second one.
AtMostOne == \A n, m \in Ours : n = m

\* A status that claims to have observed the current generation speaks of the
\* current spec.  (copyGeneration with what ensureFinalizer read back)
Honest ==
  LET s == parent.status
  IN  s.obs = parent.gen /\ ~parent.deleting /\ parent.spec \notin Paused =>
        \/ s.reason = "ok" /\ s.ref = parent.spec
        \/ s.reason = "invalid" /\ s.ref = NoChild /\ parent.spec \in Invalid
        \/ s.reason = "conflict" /\ s.ref = NoChild /\ parent.spec \in Values

\* Nothing is under way and no notification is pending.
Quiet == pc = "idle" /\ ~queued /\ pWatch = {} /\ kWatch = {}

\* No wakeup is lost: when the controller has gone quiet there is no work left.
\* The exceptions are what it waits for: a foreign object in the way (nobody
\* retries), another finalizer, a child that is still terminating.
NoLostWakeup ==
  Quiet /\ parent.there =>
    \/ /\ Desired(parent) \in Values \ Invalid
       /\ \/ parent.status.reason = "conflict"
          \/ /\ parent.status = [obs |-> parent.gen, ref |-> parent.spec, reason |-> "ok"]
             /\ \E n \in Ours : kids.obj[n].value = parent.spec
    \/ Desired(parent) \in Invalid /\ parent.status.reason \in {"invalid", "conflict"}
    \/ Desired(parent) = NoChild /\ (\E n \in Ours : kids.obj[n].deleting)
    \/ parent.spec = NoChild /\ ~parent.deleting /\ ~parent.fin /\ Ours = {}
    \/ parent.deleting /\ parent.held /\ ~(UseFinalizer /\ parent.fin)
    \/ parent.spec \in Paused /\ ~parent.deleting

\* Once quiet, the next change of a wanted child of ours will queue the parent:
\* the child is tracked (or owned).  Not so for a child that is unwanted, or that
\* OnlyReconcileChildStatus leaves alone: those are not tracked after a restart.
ObservedWanted ==
  Quiet /\ Desired(parent) \in Values \ Invalid =>
    \A n \in Ours : Notifies(n, kids.obj[n], kids.obj[n])

\* An update never overwrites an object that took the child's name since the
\* children were listed: Update carries the resource version of what was listed.
ForeignKept ==
  [][\A n \in Names :
       kids.obj[n].there /\ ~kids.obj[n].marked /\ pc \in {"create", "conflict", "update"} =>
         kids'.obj[n] \in {kids.obj[n], [Absent EXCEPT !.rv = kids'.rev]}]_vars

\* The reconciler reports a conflict only while the name is not its own child's:
\* a create that ran ahead of the informer is no reason to fail the parent.  The
\* exception is a lookup that fails itself: the code ignores its error.
NoFalseConflict ==
  [][res.status.reason # "conflict" /\ res'.status.reason = "conflict" /\ pc # "idle"
       => Ours = {} \/ env'["blind"] < env["blind"]]_vars

\* Children that slipped in behind the cache are gone once the controller is
\* quiet: "delete everything to a clean slate" starts over until one is left, not
\* counting those that are on their way out.
SettlesOnOne ==
  Quiet /\ parent.there =>
    \A n, m \in Ours : kids.obj[n].deleting \/ kids.obj[m].deleting \/ n = m

\* Every disturbance passes: for good, the child and the status match the spec.
Converges ==
  <>[](\/ ~parent.there \/ parent.deleting
       \/ parent.spec \notin Values \ Invalid
       \/ parent.status.reason = "conflict"
       \/ /\ parent.status = [obs |-> parent.gen, ref |-> parent.spec, reason |-> "ok"]
          /\ \E n \in Ours : kids.obj[n].value = parent.spec)

\* The finalizer never blocks the deletion of the parent for ever.
Terminates == parent.deleting ~> ~parent.there

=============================================================================
