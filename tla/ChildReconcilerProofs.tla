----------------------- MODULE ChildReconcilerProofs -----------------------
(***************************************************************************)
(* What holds of ChildReconciler for every value of its constants.         *)
(***************************************************************************)
EXTENDS ChildReconciler, TLAPS

\* The versions of the parent an informer has delivered or still will.
Versions == {pCache} \cup pWatch

\* Something is desired of this version of the parent.
Wants(p) == Desired(p) # NoChild

\* Informers are behind, never ahead, and deliver in order.
Behind ==
  /\ \A v \in Versions : v.rv <= parent.rv /\ (v.rv = parent.rv => v = parent)
  /\ \A v \in pWatch : pCache.rv < v.rv
  /\ \A v, w \in pWatch : v.rv = w.rv => v = w

\* So is the resource r a worker holds, when the stored parent is p.  If it shows
\* the finalizer and wants a child, the finalizer is still there.
Knows(r, p) ==
  /\ r.rv <= p.rv
  /\ r.rv = p.rv => r.gen = p.gen /\ r.spec = p.spec /\ r.deleting = p.deleting
  /\ r.fin /\ Wants(r) => p.fin

\* Until it patches the parent the worker knows no more than the cache does.
WorkerBehind ==
  pc # "idle" =>
    /\ Knows(res, parent)
    /\ pc \in {"list", "extras", "clear", "delete", "finalize"} => res.rv <= pCache.rv

\* A version that shows the finalizer and wants a child is no older than the
\* last removal of the finalizer.
StillGuarded ==
  /\ parent.fin => parent.there
  /\ \A v \in Versions : v.fin /\ Wants(v) => parent.fin

\* Where the worker is tells what it knows.
Stages ==
  /\ pc \in {"clear", "delete"} => ~Wants(res)
  /\ pc \in {"finalize", "create", "conflict", "update"} =>
       Desired(res) \in Values /\ ~res.deleting
  /\ pc = "create" /\ UseFinalizer => res.fin

GuardInv == TypeOK /\ Behind /\ WorkerBehind /\ StillGuarded /\ Stages

\* A status that claims the generation of a version speaks of that version.
HonestVersion(v) ==
  /\ v.status.obs <= v.gen
  /\ v.status.obs = v.gen /\ ~v.deleting /\ v.spec \notin Paused =>
        \/ v.status.reason = "ok" /\ v.status.ref = v.spec
        \/ v.status.reason = "invalid" /\ v.status.ref = NoChild /\ v.spec \in Invalid
        \/ v.status.reason = "conflict" /\ v.status.ref = NoChild /\ v.spec \in Values

HonestInv ==
  /\ \A v \in Versions \cup {parent} : HonestVersion(v)
  /\ pc # "idle" => HonestVersion(res)

\* With a live list, there is no child of ours where the worker believes so.
LiveInv ==
  /\ AtMostOne
  /\ pc # "extras"
  /\ pc \in {"clear", "create"} \/ (pc = "finalize" /\ actual = NoName) => Ours = {}

-----------------------------------------------------------------------------
(* Types.  First the types of what the helpers write. *)

\* A write of the parent leaves a parent on the server and in the watch.
LEMMA StoreParentType ==
  ASSUME ClusterTypeOK, NEW p \in Parent, StoreParent(p)
  PROVE  parent' \in Parent /\ pWatch' \in SUBSET Parent
<1> DEFINE there == ~p.deleting \/ p.fin \/ p.held
           new == [p EXCEPT !.rv = parent.rv + 1, !.there = there]
<1>1. there \in BOOLEAN
  OBVIOUS
<1>2. parent.rv + 1 \in Nat
  BY DEF ClusterTypeOK, Parent
<1>3. new \in Parent
  <2> HIDE DEF there
  <2> QED
    BY <1>1, <1>2 DEF Parent
<1> QED
  BY <1>3 DEF ClusterTypeOK, StoreParent

\* A write of a child leaves children on the server and in the watch.
LEMMA StoreKidType ==
  ASSUME ClusterTypeOK, NEW n \in Names, NEW k \in Kid, StoreKid(n, k)
  PROVE  kids' \in Kids /\ kWatch' \in SUBSET Kids
<1> DEFINE stored == [k EXCEPT !.rv = kids.rev + 1]
           obj == [kids.obj EXCEPT ![n] = stored]
<1>1. kids.rev \in Nat /\ kids.obj \in [Names -> Kid] /\ kWatch \in SUBSET Kids
  BY DEF ClusterTypeOK, Kids
<1>2. stored \in Kid  BY <1>1 DEF Kid
<1>3. kids' = [rev |-> kids.rev + 1, obj |-> obj] /\ kWatch' = kWatch \cup {kids'}
  BY DEF StoreKid
<1> HIDE DEF stored
<1>4. obj \in [Names -> Kid]  BY <1>1, <1>2
<1> HIDE DEF obj
<1> QED  BY <1>1, <1>3, <1>4 DEF Kids

\* So does a delete.
LEMMA DeleteKidType ==
  ASSUME ClusterTypeOK, NEW n \in Names, DeleteKid(n)
  PROVE  kids' \in Kids /\ kWatch' \in SUBSET Kids
<1>1. Absent \in Kid
  BY DEF Absent, Kid, Contents
<1>2. [kids.obj[n] EXCEPT !.deleting = TRUE] \in Kid
  BY DEF ClusterTypeOK, Kids, Kid
<1> QED
  BY <1>1, <1>2, StoreKidType DEF DeleteKid, ClusterTypeOK

\* Budgets stay natural numbers.
LEMMA SpendType ==
  ASSUME ClusterTypeOK, NEW kind, Spend(kind) \/ UNCHANGED env
  PROVE  env' \in [Disturbances -> Nat]
BY DEF ClusterTypeOK, Spend

\* The end of a request, with or without a status to write.
WorkerTypeOK ==
  /\ queued \in BOOLEAN /\ pc \in PCs /\ res \in Parent
  /\ original \in Status /\ failed \in BOOLEAN
  /\ list \in [Names -> Kid] /\ extras \in SUBSET Names
  /\ actual \in Names \cup {NoName}

\* The worker forgets a request.
LEMMA RestType ==
  ASSUME WorkerTypeOK, Rest, queued' \in BOOLEAN
  PROVE  WorkerTypeOK'
<1>1. Nobody \in Parent /\ Nobody.status \in Status
  BY DEF Nobody, Parent, Status, Specs, Contents, Reasons
<1>2. Absent \in Kid
  BY DEF Absent, Kid, Contents
<1> QED
  BY <1>1, <1>2 DEF WorkerTypeOK, Rest, PCs

\* Conclude keeps the worker's types.
LEMMA ConcludeType ==
  ASSUME WorkerTypeOK, NEW r \in Parent, NEW err \in BOOLEAN, Conclude(r, err)
  PROVE  WorkerTypeOK'
<1>1. CASE r.status # original /\ ~r.deleting
  BY <1>1 DEF Conclude, WorkerTypeOK, PCs
<1>2. CASE ~(r.status # original /\ ~r.deleting)
  <2>1. Rest /\ queued' \in BOOLEAN
    BY <1>2 DEF Conclude, WorkerTypeOK
  <2> QED
    BY <2>1, RestType
<1> QED
  BY <1>1, <1>2

\* So do its uses.
LEMMA FailType ==
  ASSUME WorkerTypeOK, Fail
  PROVE  WorkerTypeOK'
BY ConcludeType DEF Fail, WorkerTypeOK

\* Reflecting the child's status on the parent keeps the worker's types.
LEMMA ReflectType ==
  ASSUME WorkerTypeOK, NEW r \in Parent, NEW ref \in Contents, NEW reason \in Reasons,
         Reflect(r, ref, reason)
  PROVE  WorkerTypeOK'
<1> DEFINE q == [r EXCEPT !.status = [obs |-> r.gen, ref |-> ref, reason |-> reason]]
<1>1. q \in Parent
  BY DEF Parent, Status
<1> QED
  BY <1>1, ConcludeType DEF Reflect

\* So does reflecting it on the resource in hand.
LEMMA FinishType ==
  ASSUME WorkerTypeOK, NEW ref \in Contents, NEW reason \in Reasons, Finish(ref, reason)
  PROVE  WorkerTypeOK'
BY ReflectType DEF Finish, WorkerTypeOK

\* The actions of the worker and of the cluster, one by one.
LEMMA BeginType ==
  ASSUME TypeOK, Begin
  PROVE  TypeOK'
<1> DEFINE shown == [pCache EXCEPT !.status.reason = IF @ = "none" THEN "unknown" ELSE @]
<1>1. shown \in Parent /\ pCache.status \in Status
  BY DEF TypeOK, ClusterTypeOK, Parent, Status, Reasons
<1> HIDE DEF shown
<1>2. UNCHANGED workerVars \/
      (pc' = "list" /\ res' = shown /\ original' = pCache.status
       /\ UNCHANGED <<failed, list, extras, actual>>)
  BY DEF Begin, shown
<1> QED
  BY <1>1, <1>2 DEF Begin, TypeOK, ClusterTypeOK, clusterVars, workerVars, PCs

\* The answer of a call costs at most a fault.
LEMMA AnswerType ==
  ASSUME ClusterTypeOK, NEW o, Answer(o)
  PROVE  env' \in [Disturbances -> Nat]
BY SpendType DEF Answer

\* Going on with the actual child keeps the worker's types.
LEMMA DispatchType ==
  ASSUME WorkerTypeOK, NEW known \in [Names -> Kid], NEW act \in Names \cup {NoName},
         Dispatch(known, act)
  PROVE  WorkerTypeOK'
<1>1. CASE Desired(res) \in Paused
  <2>1. (IF act = NoName THEN NoChild ELSE known[act].value) \in Contents
    BY DEF Kid, Contents
  <2> QED
    BY <1>1, <2>1, FinishType DEF Dispatch, Reasons
<1>2. CASE Desired(res) \notin Paused
  <2>1. Route(act) \in PCs
    BY DEF Route, PCs
  <2> QED
    BY <1>2, <2>1 DEF Dispatch, WorkerTypeOK
<1> QED
  BY <1>1, <1>2

\* Listing the children keeps the types.
LEMMA ListChildrenType ==
  ASSUME TypeOK, NEW o \in Answers, ListChildren(o)
  PROVE  TypeOK'
<1> DEFINE known == IF CachedList THEN kCache.obj ELSE kids.obj
           ours == {n \in Names : OurChild(known[n])}
<1>1. known \in [Names -> Kid] /\ ours \subseteq Names
  BY DEF TypeOK, ClusterTypeOK, Kids
<1>2. WorkerTypeOK
  BY DEF TypeOK, WorkerTypeOK
<1>3. WorkerTypeOK'
  <2>1. CASE o # "ok"
    BY <1>2, <2>1, FailType DEF ListChildren
  <2>2. CASE o = "ok" /\ ours = {}
    BY <1>1, <1>2, <2>2, DispatchType DEF ListChildren
  <2>3. CASE o = "ok" /\ ours # {} /\ Only(ours)
    <3>1. (CHOOSE n \in ours : TRUE) \in Names
      BY <1>1, <2>3
    <3>2. Dispatch(known, CHOOSE n \in ours : TRUE)
      BY <2>3 DEF ListChildren
    <3> QED
      BY <1>1, <1>2, <3>1, <3>2, DispatchType
  <2>4. CASE o = "ok" /\ ours # {} /\ ~Only(ours)
    <3>1. /\ pc' = "extras" /\ list' = known /\ extras' = ours
          /\ UNCHANGED <<queued, res, original, failed, actual>>
      BY <2>4 DEF ListChildren
    <3> QED
      BY <1>1, <1>2, <3>1 DEF WorkerTypeOK, PCs
  <2> QED
    BY <2>1, <2>2, <2>3, <2>4
<1>4. env' \in [Disturbances -> Nat]
  BY AnswerType DEF ListChildren, TypeOK
<1> QED
  BY <1>3, <1>4 DEF ListChildren, TypeOK, WorkerTypeOK, ClusterTypeOK

\* Deleting an extra child keeps the types.
LEMMA DeleteExtraType ==
  ASSUME TypeOK, NEW n \in Names, NEW o \in Answers, DeleteExtra(n, o)
  PROVE  TypeOK'
<1>1. ClusterTypeOK /\ WorkerTypeOK
  BY DEF TypeOK, WorkerTypeOK
<1>2. env' \in [Disturbances -> Nat]
  BY <1>1, AnswerType DEF DeleteExtra
<1>3. kids' \in Kids /\ kWatch' \in SUBSET Kids
  BY <1>1, DeleteKidType DEF DeleteExtra, ClusterTypeOK
<1>4. WorkerTypeOK'
  <2>1. CASE Fail
    BY <1>1, <2>1, FailType
  <2>2. CASE Dispatch(list, NoName)
    BY <1>1, <2>2, DispatchType DEF WorkerTypeOK
  <2>3. CASE extras' = extras \ {n} /\ UNCHANGED <<queued, pc, res, original, failed, list, actual>>
    BY <1>1, <2>3 DEF WorkerTypeOK
  <2> QED
    BY <2>1, <2>2, <2>3 DEF DeleteExtra
<1> QED
  BY <1>1, <1>2, <1>3, <1>4 DEF DeleteExtra, TypeOK, WorkerTypeOK, ClusterTypeOK

\* The patch of the finalizer, on the server and in memory.
LEMMA PatchFinalizerType ==
  ASSUME TypeOK, NEW add \in BOOLEAN, NEW o \in Answers, PatchFinalizer(add, o)
  PROVE  /\ parent' \in Parent /\ pWatch' \in SUBSET Parent
         /\ env' \in [Disturbances -> Nat]
         /\ Patched(add) \in Parent
<1>1. [parent EXCEPT !.fin = add] \in Parent
  BY DEF TypeOK, ClusterTypeOK, Parent
<1>2. [res EXCEPT !.fin = add, !.rv = parent.rv + 1, !.gen = parent.gen] \in Parent
  <2>1. parent.rv + 1 \in Nat /\ parent.gen \in Nat
    BY DEF TypeOK, ClusterTypeOK, Parent
  <2> DEFINE rv == parent.rv + 1
  <2> HIDE DEF rv
  <2>2. [res EXCEPT !.fin = add, !.rv = rv, !.gen = parent.gen] \in Parent
    BY <2>1 DEF rv, TypeOK, Parent
  <2> QED
    BY <2>2 DEF rv
<1>3. parent' \in Parent /\ pWatch' \in SUBSET Parent
  BY <1>1, StoreParentType DEF PatchFinalizer, TypeOK, ClusterTypeOK
<1>4. env' \in [Disturbances -> Nat]
  BY AnswerType DEF PatchFinalizer, TypeOK, ClusterTypeOK
<1> QED
  BY <1>2, <1>3, <1>4 DEF Patched, TypeOK

\* Removing the finalizer keeps the types.
LEMMA ClearFinalizerType ==
  ASSUME TypeOK, NEW o \in Answers, ClearFinalizer(o)
  PROVE  TypeOK'
<1>1. WorkerTypeOK
  BY DEF TypeOK, WorkerTypeOK
<1>2. /\ parent' \in Parent /\ pWatch' \in SUBSET Parent
      /\ env' \in [Disturbances -> Nat] /\ Patched(FALSE) \in Parent
  BY PatchFinalizerType DEF ClearFinalizer
<1>3. NoChild \in Contents /\ "ok" \in Reasons
  BY DEF Contents, Reasons
<1>4. WorkerTypeOK'
  BY <1>1, <1>2, <1>3, ReflectType, FailType DEF ClearFinalizer
<1> QED
  BY <1>2, <1>4 DEF ClearFinalizer, TypeOK, WorkerTypeOK, ClusterTypeOK

\* Adding the finalizer keeps the types.
LEMMA AddFinalizerType ==
  ASSUME TypeOK, NEW o \in Answers, AddFinalizer(o)
  PROVE  TypeOK'
<1>1. WorkerTypeOK
  BY DEF TypeOK, WorkerTypeOK
<1>2. /\ parent' \in Parent /\ pWatch' \in SUBSET Parent
      /\ env' \in [Disturbances -> Nat] /\ Patched(TRUE) \in Parent
  BY PatchFinalizerType DEF AddFinalizer
<1>3. WorkerTypeOK'
  <2>1. CASE Patches(TRUE, o)
    BY <1>1, <1>2, <2>1 DEF AddFinalizer, WorkerTypeOK, Verb, PCs
  <2>2. CASE ~Patches(TRUE, o)
    BY <1>1, <2>2, FailType DEF AddFinalizer
  <2> QED
    BY <2>1, <2>2
<1> QED
  BY <1>2, <1>3 DEF AddFinalizer, TypeOK, WorkerTypeOK, ClusterTypeOK

\* What is created is a child.
LEMMA CreateChildType ==
  ASSUME TypeOK, Stages, NEW n \in Names, NEW o \in Answers, CreateChild(n, o)
  PROVE  TypeOK'
<1>1. ClusterTypeOK /\ WorkerTypeOK
  BY DEF TypeOK, WorkerTypeOK
<1>2. Desired(res) \in Contents /\ NoChild \in Contents /\ {"ok", "invalid"} \subseteq Reasons
  BY DEF Stages, CreateChild, Contents, Reasons
<1> DEFINE made == [there |-> TRUE, owned |-> ~SkipOwner, marked |-> TRUE,
                    deleting |-> FALSE, value |-> Desired(res), rv |-> 0]
<1>3. made \in Kid
  <2>1. (~SkipOwner) \in BOOLEAN
    OBVIOUS
  <2> HIDE DEF SkipOwner
  <2> QED
    BY <1>2, <2>1 DEF Kid
<1>4. kids' \in Kids /\ kWatch' \in SUBSET Kids
  <2>1. CASE UNCHANGED <<kids, kWatch>>
    BY <1>1, <2>1 DEF ClusterTypeOK
  <2>2. CASE StoreKid(n, made)
    BY <1>1, <1>3, <2>2, StoreKidType
  <2> QED
    BY <2>1, <2>2 DEF CreateChild
<1>5. env' \in [Disturbances -> Nat]
  BY <1>1, AnswerType DEF CreateChild, ClusterTypeOK
<1>6. WorkerTypeOK'
  <2>1. CASE Fail
    BY <1>1, <2>1, FailType
  <2>2. CASE Finish(Desired(res), "ok") \/ Finish(NoChild, "invalid")
    BY <1>1, <1>2, <2>2, FinishType
  <2>3. CASE Goto("conflict")
    BY <1>1, <2>3 DEF Goto, WorkerTypeOK, PCs
  <2> QED
    BY <2>1, <2>2, <2>3 DEF CreateChild
<1>7. tracked' \in SUBSET Names
  BY DEF CreateChild, TypeOK
<1> QED
  BY <1>1, <1>4, <1>5, <1>6, <1>7 DEF CreateChild, TypeOK, WorkerTypeOK, ClusterTypeOK

\* Looking past the cache keeps the types.
LEMMA CheckConflictType ==
  ASSUME TypeOK, NEW n \in Names, NEW seen \in BOOLEAN, CheckConflict(n, seen)
  PROVE  TypeOK'
<1>1. ClusterTypeOK /\ WorkerTypeOK
  BY DEF TypeOK, WorkerTypeOK
<1>2. NoChild \in Contents /\ "conflict" \in Reasons
  BY DEF Contents, Reasons
<1>3. WorkerTypeOK'
  BY <1>1, <1>2, FailType, FinishType DEF CheckConflict
<1>4. env' \in [Disturbances -> Nat]
  BY <1>1, SpendType DEF CheckConflict
<1> QED
  BY <1>1, <1>3, <1>4 DEF CheckConflict, TypeOK, WorkerTypeOK, ClusterTypeOK

\* Updating the child keeps the types: only a real value is ever desired here.
LEMMA UpdateChildType ==
  ASSUME TypeOK, Stages, NEW n \in Names, NEW o \in Answers, UpdateChild(n, o)
  PROVE  TypeOK'
<1>1. ClusterTypeOK /\ WorkerTypeOK
  BY DEF TypeOK, WorkerTypeOK
<1>2. Desired(res) \in Contents /\ NoChild \in Contents /\ {"ok", "invalid"} \subseteq Reasons
  BY DEF Stages, UpdateChild, Contents, Reasons
<1>3. [kids.obj[n] EXCEPT !.value = Desired(res)] \in Kid
  BY <1>1, <1>2 DEF ClusterTypeOK, Kids, Kid
<1>4. kids' \in Kids /\ kWatch' \in SUBSET Kids
  <2>1. CASE UNCHANGED <<kids, kWatch>>
    BY <1>1, <2>1 DEF ClusterTypeOK
  <2>2. CASE StoreKid(n, [kids.obj[n] EXCEPT !.value = Desired(res)])
    BY <1>1, <1>3, <2>2, StoreKidType
  <2> QED
    BY <2>1, <2>2 DEF UpdateChild
<1>5. env' \in [Disturbances -> Nat]
  BY <1>1, AnswerType DEF UpdateChild, ClusterTypeOK
<1>6. WorkerTypeOK'
  <2>1. CASE Fail
    BY <1>1, <2>1, FailType
  <2>2. CASE Finish(Desired(res), "ok") \/ Finish(NoChild, "invalid")
    BY <1>1, <1>2, <2>2, FinishType
  <2> QED
    BY <2>1, <2>2 DEF UpdateChild
<1>7. tracked' \in SUBSET Names
  BY DEF UpdateChild, TypeOK
<1> QED
  BY <1>1, <1>4, <1>5, <1>6, <1>7 DEF UpdateChild, TypeOK, WorkerTypeOK, ClusterTypeOK

\* Deleting the child keeps the types.
LEMMA DeleteChildType ==
  ASSUME TypeOK, NEW n \in Names, NEW o \in Answers, DeleteChild(n, o)
  PROVE  TypeOK'
<1>1. ClusterTypeOK /\ WorkerTypeOK
  BY DEF TypeOK, WorkerTypeOK
<1>2. NoChild \in Contents /\ "ok" \in Reasons
  BY DEF Contents, Reasons
<1>3. kids' \in Kids /\ kWatch' \in SUBSET Kids
  BY <1>1, DeleteKidType DEF DeleteChild, ClusterTypeOK
<1>4. env' \in [Disturbances -> Nat]
  BY <1>1, AnswerType DEF DeleteChild, ClusterTypeOK
<1>5. WorkerTypeOK'
  BY <1>1, <1>2, FailType, FinishType DEF DeleteChild
<1> QED
  BY <1>1, <1>3, <1>4, <1>5 DEF DeleteChild, TypeOK, WorkerTypeOK, ClusterTypeOK

\* Writing the status keeps the types.
LEMMA WriteStatusType ==
  ASSUME TypeOK, NEW o \in Answers, WriteStatus(o)
  PROVE  TypeOK'
<1>1. ClusterTypeOK /\ WorkerTypeOK
  BY DEF TypeOK, WorkerTypeOK
<1>2. [parent EXCEPT !.status = res.status] \in Parent
  BY DEF TypeOK, ClusterTypeOK, Parent
<1>3. parent' \in Parent /\ pWatch' \in SUBSET Parent
  BY <1>1, <1>2, StoreParentType DEF WriteStatus, ClusterTypeOK
<1>4. env' \in [Disturbances -> Nat]
  BY <1>1, AnswerType DEF WriteStatus
<1>5. queued' \in BOOLEAN
  BY DEF WriteStatus
<1>6. WorkerTypeOK'
  BY <1>1, <1>5, RestType DEF WriteStatus
<1> QED
  BY <1>1, <1>3, <1>4, <1>6 DEF WriteStatus, TypeOK, WorkerTypeOK, ClusterTypeOK

\* What the informers deliver are versions the server had.
LEMMA DeliveryType ==
  ASSUME TypeOK, DeliverParent \/ DeliverKids
  PROVE  TypeOK'
<1>1. CASE DeliverParent
  BY <1>1 DEF DeliverParent, TypeOK, ClusterTypeOK, workerVars
<1>2. CASE DeliverKids
  <2>1. queued' \in BOOLEAN
    BY <1>2 DEF DeliverKids
  <2>2. kCache' \in Kids /\ kWatch' \in SUBSET Kids
    BY <1>2 DEF DeliverKids, TypeOK, ClusterTypeOK
  <2> QED
    BY <1>2, <2>1, <2>2 DEF DeliverKids, TypeOK, ClusterTypeOK, workerVars
<1> QED
  BY <1>1, <1>2

\* A restart reads everything anew.
LEMMA CrashType ==
  ASSUME TypeOK, Crash
  PROVE  TypeOK'
<1>1. ClusterTypeOK /\ WorkerTypeOK
  BY DEF TypeOK, WorkerTypeOK
<1>2. queued' \in BOOLEAN
  BY DEF Crash, TypeOK, ClusterTypeOK, Parent
<1>3. WorkerTypeOK'
  BY <1>1, <1>2, RestType DEF Crash
<1>4. env' \in [Disturbances -> Nat]
  BY <1>1, SpendType DEF Crash
<1> QED
  BY <1>1, <1>3, <1>4 DEF Crash, TypeOK, WorkerTypeOK, ClusterTypeOK

\* Users, other controllers and the garbage collector keep the cluster's types.
LEMMA EnvironmentType ==
  ASSUME ClusterTypeOK, Environment
  PROVE  ClusterTypeOK'
<1>1. env' \in [Disturbances -> Nat]
  BY SpendType DEF Environment, EditSpec, DeleteParent, ReleaseHold, Drift, Foreign,
     FinishDelete, CollectGarbage
<1>2. CASE EditSpec
  <2>1. PICK spec \in Specs : StoreParent([parent EXCEPT !.spec = spec, !.gen = @ + 1])
    BY <1>2 DEF EditSpec
  <2>2. parent.gen + 1 \in Nat
    BY DEF ClusterTypeOK, Parent
  <2> DEFINE gen == parent.gen + 1
  <2>3. [parent EXCEPT !.spec = spec, !.gen = gen] \in Parent
    <3> HIDE DEF gen
    <3> QED
      BY <2>2 DEF gen, ClusterTypeOK, Parent
  <2> QED
    BY <1>1, <1>2, <2>1, <2>3, StoreParentType DEF EditSpec, ClusterTypeOK
<1>3. CASE DeleteParent
  <2>1. parent.gen + 1 \in Nat
    BY DEF ClusterTypeOK, Parent
  <2> DEFINE gen == parent.gen + 1
  <2>2. [parent EXCEPT !.deleting = TRUE, !.gen = gen] \in Parent
    <3> HIDE DEF gen
    <3> QED
      BY <2>1 DEF gen, ClusterTypeOK, Parent
  <2> QED
    BY <1>1, <1>3, <2>2, StoreParentType DEF DeleteParent, ClusterTypeOK
<1>4. CASE ReleaseHold
  <2>1. [parent EXCEPT !.held = FALSE] \in Parent
    BY DEF ClusterTypeOK, Parent
  <2> QED
    BY <1>1, <1>4, <2>1, StoreParentType DEF ReleaseHold, ClusterTypeOK
<1>5. Absent \in Kid
  BY DEF Absent, Kid, Contents
<1>6. ASSUME NEW n \in Names, Drift(n)
      PROVE  ClusterTypeOK'
  <2>1. ASSUME NEW v \in Values
        PROVE  [kids.obj[n] EXCEPT !.value = v] \in Kid
    BY DEF ClusterTypeOK, Kids, Kid, Contents
  <2>2. kids' \in Kids /\ kWatch' \in SUBSET Kids
    BY <1>6, <2>1, StoreKidType, DeleteKidType DEF Drift
  <2> QED
    BY <1>1, <1>6, <2>2 DEF Drift, ClusterTypeOK
<1>7. ASSUME NEW n \in Names, Foreign(n)
      PROVE  ClusterTypeOK'
  <2>1. ASSUME NEW v \in Values
        PROVE  [Absent EXCEPT !.there = TRUE, !.value = v] \in Kid
    BY DEF Absent, Kid, Contents
  <2>2. kids' \in Kids /\ kWatch' \in SUBSET Kids
    BY <1>5, <1>7, <2>1, StoreKidType DEF Foreign
  <2> QED
    BY <1>1, <1>7, <2>2 DEF Foreign, ClusterTypeOK
<1>8. ASSUME NEW n \in Names, FinishDelete(n) \/ CollectGarbage(n)
      PROVE  ClusterTypeOK'
  <2>1. kids' \in Kids /\ kWatch' \in SUBSET Kids
    BY <1>5, <1>8, StoreKidType, DeleteKidType DEF FinishDelete, CollectGarbage
  <2> QED
    BY <1>1, <1>8, <2>1 DEF FinishDelete, CollectGarbage, ClusterTypeOK
<1> QED
  BY <1>2, <1>3, <1>4, <1>6, <1>7, <1>8 DEF Environment

-----------------------------------------------------------------------------
(* The finalizer is there when a child is created. *)

WorkerInv == WorkerBehind /\ Stages
ParentInv == Behind /\ StillGuarded

\* A write keeps the informer behind.
LEMMA StoreParentBehind ==
  ASSUME TypeOK, Behind, NEW p \in Parent, StoreParent(p), UNCHANGED pCache
  PROVE  Behind' /\ parent'.rv = parent.rv + 1
<1>1. parent.rv \in Nat /\ pCache.rv \in Nat /\ \A v \in pWatch : v.rv \in Nat
  BY DEF TypeOK, ClusterTypeOK, Parent
<1>2. parent'.rv = parent.rv + 1 /\ pWatch' = pWatch \cup {parent'}
  BY DEF StoreParent, Parent
<1> QED
  BY <1>1, <1>2 DEF Behind, Versions

\* A write that leaves the finalizer alone keeps what the versions show.
LEMMA StoreParentGuarded ==
  ASSUME TypeOK, StillGuarded, NEW p \in Parent, StoreParent(p), UNCHANGED pCache,
         p.fin = parent.fin
  PROVE  StillGuarded' /\ parent'.fin = parent.fin
<1>1. /\ parent'.fin = p.fin /\ pWatch' = pWatch \cup {parent'}
      /\ parent'.there = (~p.deleting \/ p.fin \/ p.held)
  BY DEF StoreParent, Parent
<1> QED
  BY <1>1 DEF StillGuarded, Versions

\* The worker knows enough of a parent that only moved on.
LEMMA KnowsLater ==
  ASSUME NEW r \in Parent, NEW p \in Parent, NEW q \in Parent, Knows(r, p),
         p.rv < q.rv, p.fin => q.fin \/ ~Wants(r)
  PROVE  Knows(r, q)
BY DEF Knows, Parent

\* A request that ends knows what it knew.
LEMMA ConcludeInv ==
  ASSUME NEW r, NEW err, Conclude(r, err), Knows(r, parent')
  PROVE  WorkerInv'
<1>1. (pc' = "status" /\ res' = r) \/ pc' = "idle"
  BY DEF Conclude, Rest
<1> QED
  BY <1>1 DEF WorkerInv, WorkerBehind, Stages

\* So does one that ends with a new status.
LEMMA ReflectInv ==
  ASSUME NEW r \in Parent, NEW ref, NEW reason, Reflect(r, ref, reason), Knows(r, parent')
  PROVE  WorkerInv'
<1> DEFINE q == [r EXCEPT !.status = [obs |-> r.gen, ref |-> ref, reason |-> reason]]
<1>1. Knows(q, parent')
  BY DEF Knows, Parent, Wants, Desired
<1> QED
  BY <1>1, ConcludeInv DEF Reflect

\* A request that ends without touching the parent.
LEMMA EndInv ==
  ASSUME TypeOK, WorkerInv, pc # "idle", UNCHANGED parent,
         \/ Fail
         \/ \E ref \in Contents, reason \in Reasons : Finish(ref, reason)
  PROVE  WorkerInv'
<1>1. res \in Parent /\ Knows(res, parent')
  BY DEF TypeOK, WorkerInv, WorkerBehind
<1> QED
  BY <1>1, ConcludeInv, ReflectInv DEF Fail, Finish

\* Nothing happens to the parent.
LEMMA ParentUntouched ==
  ASSUME ParentInv, UNCHANGED <<parent, pCache, pWatch>>
  PROVE  ParentInv'
BY DEF ParentInv, Behind, StillGuarded, Versions

\* Going on with the actual child enters each stage as Stages demands.
LEMMA DispatchInv ==
  ASSUME TypeOK, WorkerInv, pc \in {"list", "extras"}, UNCHANGED <<parent, pCache>>,
         NEW known \in [Names -> Kid], NEW act \in Names \cup {NoName}, Dispatch(known, act)
  PROVE  WorkerInv'
<1>1. CASE Desired(res) \in Paused
  <2>1. (IF act = NoName THEN NoChild ELSE known[act].value) \in Contents /\ "ok" \in Reasons
    BY DEF Kid, Contents, Reasons
  <2> QED
    BY <1>1, <2>1, EndInv DEF Dispatch
<1>2. CASE Desired(res) \notin Paused
  <2>1. pc' = Route(act) /\ res' = res
    BY <1>2 DEF Dispatch
  <2>2. pc' \in {"clear", "delete", "finalize"}
    BY <2>1 DEF Route
  <2>3. WorkerBehind'
    BY <2>1, <2>2 DEF WorkerInv, WorkerBehind
  <2>4. pc' = "finalize" => Desired(res) \in Values /\ ~res.deleting
    <3>1. res.spec \in Values \cup {NoChild} \cup Paused
      BY DEF TypeOK, Parent, Specs, Contents
    <3> QED
      BY <1>2, <2>1, <3>1 DEF Route, Desired
  <2>5. pc' \in {"clear", "delete"} => ~Wants(res)
    BY <2>1 DEF Route, Wants
  <2> QED
    BY <2>1, <2>2, <2>3, <2>4, <2>5 DEF WorkerInv, Stages, Wants, Desired
<1> QED
  BY <1>1, <1>2

\* A request starts from the cache, which is behind and guarded.
LEMMA BeginInv ==
  ASSUME TypeOK, ParentInv, WorkerInv, Begin
  PROVE  ParentInv' /\ WorkerInv'
<1> DEFINE shown == [pCache EXCEPT !.status.reason = IF @ = "none" THEN "unknown" ELSE @]
<1>1. UNCHANGED <<parent, pCache, pWatch>>
  BY DEF Begin, clusterVars
<1>2. CASE NothingToDo(pCache)
  <2>1. pc' = "idle"
    BY <1>2 DEF Begin, workerVars
  <2> QED
    BY <1>1, <2>1, ParentUntouched DEF WorkerInv, WorkerBehind, Stages
<1>3. CASE ~NothingToDo(pCache)
  <2>1. pc' = "list" /\ res' = shown
    BY <1>3 DEF Begin
  <2>2. /\ shown.rv = pCache.rv /\ shown.gen = pCache.gen /\ shown.fin = pCache.fin
        /\ shown.spec = pCache.spec /\ shown.deleting = pCache.deleting
    BY DEF TypeOK, ClusterTypeOK, Parent
  <2>3. Knows(pCache, parent)
    BY DEF ParentInv, Behind, StillGuarded, Versions, Knows
  <2>4. Knows(shown, parent)
    BY <2>2, <2>3 DEF Knows, Wants, Desired
  <2>5. pCache.rv \in Nat
    BY DEF TypeOK, ClusterTypeOK, Parent
  <2> QED
    BY <1>1, <2>1, <2>2, <2>4, <2>5, ParentUntouched DEF WorkerInv, WorkerBehind, Stages
<1> QED
  BY <1>2, <1>3

\* Listing the children preserves the invariant.
LEMMA ListChildrenInv ==
  ASSUME TypeOK, ParentInv, WorkerInv, NEW o \in Answers, ListChildren(o)
  PROVE  ParentInv' /\ WorkerInv'
<1> DEFINE known == IF CachedList THEN kCache.obj ELSE kids.obj
           ours == {n \in Names : OurChild(known[n])}
<1>1. UNCHANGED <<parent, pCache, pWatch>> /\ pc = "list"
  BY DEF ListChildren
<1>2. known \in [Names -> Kid] /\ ours \subseteq Names
  BY DEF TypeOK, ClusterTypeOK, Kids
<1>3. CASE o # "ok"
  BY <1>1, <1>3, EndInv, ParentUntouched DEF ListChildren
<1>4. CASE o = "ok" /\ ours = {}
  BY <1>1, <1>2, <1>4, DispatchInv, ParentUntouched DEF ListChildren
<1>5. CASE o = "ok" /\ ours # {} /\ Only(ours)
  <2>1. (CHOOSE n \in ours : TRUE) \in Names
    BY <1>2, <1>5
  <2>2. Dispatch(known, CHOOSE n \in ours : TRUE)
    BY <1>5 DEF ListChildren
  <2> QED
    BY <1>1, <1>2, <2>1, <2>2, DispatchInv, ParentUntouched
<1>6. CASE o = "ok" /\ ours # {} /\ ~Only(ours)
  <2>1. pc' = "extras" /\ res' = res
    BY <1>6 DEF ListChildren
  <2> QED
    BY <1>1, <2>1, ParentUntouched DEF WorkerInv, WorkerBehind, Stages
<1> QED
  BY <1>3, <1>4, <1>5, <1>6

\* Deleting an extra child preserves the invariant.
LEMMA DeleteExtraInv ==
  ASSUME TypeOK, ParentInv, WorkerInv, NEW n \in Names, NEW o \in Answers, DeleteExtra(n, o)
  PROVE  ParentInv' /\ WorkerInv'
<1>1. UNCHANGED <<parent, pCache, pWatch>> /\ pc = "extras"
  BY DEF DeleteExtra
<1>2. CASE Fail
  BY <1>1, <1>2, EndInv, ParentUntouched
<1>3. CASE Dispatch(list, NoName)
  BY <1>1, <1>3, DispatchInv, ParentUntouched DEF TypeOK
<1>4. CASE UNCHANGED <<pc, res>>
  BY <1>1, <1>4, ParentUntouched DEF WorkerInv, WorkerBehind, Stages
<1> QED
  BY <1>2, <1>3, <1>4 DEF DeleteExtra

\* The patch that takes the finalizer off: its optimistic lock means that nobody
\* has seen, nor will see, an older version that wants a child.
LEMMA ClearedNobodyWants ==
  ASSUME TypeOK, ParentInv, WorkerInv, pc = "clear", Current(res)
  PROVE  pCache = parent /\ pWatch = {} /\ ~Wants(parent)
<1>1. res.rv = parent.rv /\ res.rv <= pCache.rv /\ ~Wants(res)
  BY DEF WorkerInv, WorkerBehind, Stages, Current
<1>2. pCache.rv = parent.rv
  BY <1>1 DEF ParentInv, Behind, Versions, TypeOK, ClusterTypeOK, Parent
<1>3. pCache = parent
  BY <1>2 DEF ParentInv, Behind, Versions
<1>4. pWatch = {}
  BY <1>2 DEF ParentInv, Behind, Versions, TypeOK, ClusterTypeOK, Parent
<1>5. ~Wants(parent)
  BY <1>1 DEF WorkerInv, WorkerBehind, Knows, Wants, Desired
<1> QED
  BY <1>3, <1>4, <1>5

\* Removing the finalizer preserves the invariant: the version it hits wants no child.
LEMMA ClearFinalizerInv ==
  ASSUME TypeOK, ParentInv, WorkerInv, NEW o \in Answers, ClearFinalizer(o)
  PROVE  ParentInv' /\ WorkerInv'
<1>1. pc = "clear" /\ UNCHANGED pCache /\ res \in Parent /\ ~Wants(res) /\ Knows(res, parent)
  BY DEF ClearFinalizer, TypeOK, WorkerInv, WorkerBehind, Stages
<1>2. NoChild \in Contents /\ "ok" \in Reasons
  BY DEF Contents, Reasons
<1>3. CASE UNCHANGED <<parent, pWatch>>
  <2>1. Fail \/ Finish(NoChild, "ok")
    <3>1. CASE Differs(FALSE)
      <4>1. ~Patches(FALSE, o)
        <5>1. CASE Accepted(o)
          <6>1. StoreParent([parent EXCEPT !.fin = FALSE])
            BY <1>3, <3>1, <5>1 DEF ClearFinalizer, PatchFinalizer
          <6>2. parent'.rv = parent.rv + 1
            BY <6>1 DEF StoreParent, TypeOK, ClusterTypeOK, Parent
          <6> QED
            BY <1>3, <6>2 DEF TypeOK, ClusterTypeOK, Parent
        <5> QED
          BY <3>1, <5>1 DEF Patches
      <4> QED
        BY <4>1 DEF ClearFinalizer
    <3>2. CASE ~Differs(FALSE)
      BY <3>2 DEF ClearFinalizer, Patches, Patched, Finish
    <3> QED
      BY <3>1, <3>2
  <2> QED
    BY <1>1, <1>2, <1>3, <2>1, EndInv, ParentUntouched
<1>4. CASE StoreParent([parent EXCEPT !.fin = FALSE]) /\ Differs(FALSE) /\ Accepted(o)
  <2> DEFINE p == [parent EXCEPT !.fin = FALSE]
  <2>1. p \in Parent
    BY DEF TypeOK, ClusterTypeOK, Parent
  <2>2. Behind' /\ parent'.rv = parent.rv + 1
    BY <1>1, <1>4, <2>1, StoreParentBehind DEF ParentInv
  <2>3. pCache = parent /\ pWatch = {} /\ ~Wants(parent)
    BY <1>1, <1>4, ClearedNobodyWants DEF Accepted
  <2>4. /\ parent'.fin = FALSE /\ pWatch' = {parent'}
        /\ parent'.gen = parent.gen /\ parent'.spec = parent.spec
        /\ parent'.deleting = parent.deleting
    BY <1>4, <2>3 DEF StoreParent, TypeOK, ClusterTypeOK, Parent
  <2>5. StillGuarded'
    BY <1>1, <2>3, <2>4 DEF StillGuarded, Versions, Wants, Desired
  <2>6. CASE Patches(FALSE, o)
    <3>1. Patched(FALSE) \in Parent
      BY PatchFinalizerType DEF ClearFinalizer
    <3>2. Knows(Patched(FALSE), parent')
      <4>1. res.spec = parent.spec /\ res.deleting = parent.deleting
        BY <1>1, <1>4 DEF Knows, Accepted, Current
      <4>2. /\ Patched(FALSE).rv = parent.rv + 1 /\ Patched(FALSE).gen = parent.gen
            /\ Patched(FALSE).fin = FALSE
            /\ Patched(FALSE).spec = res.spec /\ Patched(FALSE).deleting = res.deleting
        BY <1>1, <1>4 DEF Patched, Parent
      <4>3. parent.rv + 1 <= parent.rv + 1
        BY DEF TypeOK, ClusterTypeOK, Parent
      <4>4. ~(Patched(FALSE).fin /\ Wants(Patched(FALSE)))
        BY <4>2
      <4> QED
        BY <2>2, <2>4, <4>1, <4>2, <4>3, <4>4 DEF Knows
    <3> QED
      BY <2>2, <2>5, <2>6, <3>1, <3>2, ReflectInv DEF ClearFinalizer, ParentInv
  <2>7. CASE ~Patches(FALSE, o)
    <3>1. Knows(res, parent')
      BY <1>1, <2>2 DEF Knows, TypeOK, ClusterTypeOK, Parent
    <3> QED
      BY <2>2, <2>5, <2>7, <3>1, ConcludeInv DEF ClearFinalizer, Fail, ParentInv
  <2> QED
    BY <2>6, <2>7
<1> QED
  BY <1>3, <1>4 DEF ClearFinalizer, PatchFinalizer

\* Adding the finalizer preserves the invariant, patch or no patch.
LEMMA AddFinalizerInv ==
  ASSUME TypeOK, ParentInv, WorkerInv, NEW o \in Answers, AddFinalizer(o)
  PROVE  ParentInv' /\ WorkerInv'
<1>1. /\ pc = "finalize" /\ UNCHANGED pCache /\ res \in Parent /\ Knows(res, parent)
      /\ Desired(res) \in Values /\ ~res.deleting
  BY DEF AddFinalizer, TypeOK, WorkerInv, WorkerBehind, Stages
<1> DEFINE p == [parent EXCEPT !.fin = TRUE]
<1>2. CASE UNCHANGED <<parent, pWatch>> /\ ~Differs(TRUE)
  <2>1. pc' = Verb(actual) /\ res' = res
    BY <1>2 DEF AddFinalizer, Patches, Patched
  <2>2. UseFinalizer => res.fin
    BY <1>1, <1>2 DEF Differs, Parent
  <2> QED
    BY <1>1, <1>2, <2>1, <2>2, ParentUntouched
    DEF WorkerInv, WorkerBehind, Stages, Verb, Knows, Desired, Wants
<1>3. CASE UNCHANGED <<parent, pWatch>> /\ Differs(TRUE) /\ ~Accepted(o)
  BY <1>1, <1>3, EndInv, ParentUntouched DEF AddFinalizer, Patches
<1>4. CASE StoreParent(p) /\ Differs(TRUE) /\ Accepted(o)
  <2>1. p \in Parent
    BY DEF TypeOK, ClusterTypeOK, Parent
  <2>2. Behind' /\ parent'.rv = parent.rv + 1
    BY <1>1, <1>4, <2>1, StoreParentBehind DEF ParentInv
  <2>3. /\ parent'.fin = TRUE /\ parent'.there = TRUE /\ pWatch' = pWatch \cup {parent'}
        /\ parent'.gen = parent.gen /\ parent'.spec = parent.spec
        /\ parent'.deleting = parent.deleting
    BY <1>4 DEF StoreParent, TypeOK, ClusterTypeOK, Parent
  <2>4. StillGuarded'
    BY <1>1, <2>3 DEF StillGuarded, Versions
  <2>5. CASE Patches(TRUE, o)
    <3>1. res.gen = parent.gen /\ res.spec = parent.spec /\ res.deleting = parent.deleting
      BY <1>1, <1>4 DEF Knows, Accepted, Current
    <3>2. /\ Patched(TRUE).rv = parent.rv + 1 /\ Patched(TRUE).gen = parent.gen
          /\ Patched(TRUE).fin = TRUE
          /\ Patched(TRUE).spec = res.spec /\ Patched(TRUE).deleting = res.deleting
      BY <1>1, <1>4 DEF Patched, Parent
    <3>3. parent.rv + 1 <= parent.rv + 1
      BY DEF TypeOK, ClusterTypeOK, Parent
    <3>4. Knows(Patched(TRUE), parent')
      BY <2>2, <2>3, <3>1, <3>2, <3>3 DEF Knows
    <3>5. Desired(Patched(TRUE)) = Desired(res)
      BY <3>2 DEF Desired
    <3>6. pc' \in {"create", "update"} /\ res' = Patched(TRUE)
      BY <2>5 DEF AddFinalizer, Verb
    <3>7. Patched(TRUE).fin /\ ~Patched(TRUE).deleting /\ Desired(Patched(TRUE)) \in Values
      BY <1>1, <3>2, <3>5
    <3>8. WorkerInv'
      <4>1. WorkerBehind'
        BY <3>4, <3>6 DEF WorkerBehind
      <4>2. Desired(res)' = Desired(Patched(TRUE))
        BY <3>6 DEF Desired
      <4>3. Stages'
        BY <3>6, <3>7, <4>2 DEF Stages
      <4> QED
        BY <4>1, <4>3 DEF WorkerInv
    <3> QED
      BY <2>2, <2>4, <3>8 DEF ParentInv
  <2>6. CASE ~Patches(TRUE, o)
    <3>1. Knows(res, parent')
      BY <1>1, <2>2, <2>3 DEF Knows, TypeOK, ClusterTypeOK, Parent
    <3> QED
      BY <2>2, <2>4, <2>6, <3>1, ConcludeInv DEF AddFinalizer, Fail, ParentInv
  <2> QED
    BY <2>5, <2>6
<1> QED
  BY <1>2, <1>3, <1>4 DEF AddFinalizer, PatchFinalizer

\* The steps that write children, not the parent.
LEMMA ChildStepInv ==
  ASSUME TypeOK, ParentInv, WorkerInv, NEW n \in Names,
         \/ \E o \in Answers : CreateChild(n, o) \/ UpdateChild(n, o) \/ DeleteChild(n, o)
         \/ \E seen \in BOOLEAN : CheckConflict(n, seen)
  PROVE  ParentInv' /\ WorkerInv'
<1>1. UNCHANGED <<parent, pCache, pWatch>> /\ pc # "idle"
  BY DEF CreateChild, UpdateChild, DeleteChild, CheckConflict
<1>2. Desired(res) \in Contents \/ pc \notin {"create", "update"}
  BY DEF WorkerInv, Stages, Contents
<1>3. NoChild \in Contents /\ {"ok", "invalid", "conflict"} \subseteq Reasons
  BY DEF Contents, Reasons
<1>4. CASE Fail
  BY <1>1, <1>4, EndInv, ParentUntouched
<1>5. CASE \E ref \in Contents, reason \in Reasons : Finish(ref, reason)
  BY <1>1, <1>5, EndInv, ParentUntouched
<1>6. CASE Goto("conflict") /\ pc = "create"
  BY <1>1, <1>6, ParentUntouched DEF Goto, WorkerInv, WorkerBehind, Stages, Desired
<1> QED
  BY <1>2, <1>3, <1>4, <1>5, <1>6 DEF CreateChild, UpdateChild, DeleteChild, CheckConflict

\* An idle worker knows nothing.
LEMMA RestInv ==
  ASSUME Rest
  PROVE  WorkerInv'
BY DEF Rest, WorkerInv, WorkerBehind, Stages

\* Writing the status preserves the invariant.
LEMMA WriteStatusInv ==
  ASSUME TypeOK, ParentInv, WorkerInv, NEW o \in Answers, WriteStatus(o)
  PROVE  ParentInv' /\ WorkerInv'
<1>1. UNCHANGED pCache /\ WorkerInv'
  BY RestInv DEF WriteStatus
<1>2. CASE UNCHANGED <<parent, pWatch>>
  BY <1>1, <1>2, ParentUntouched
<1>3. CASE StoreParent([parent EXCEPT !.status = res.status])
  <2>1. [parent EXCEPT !.status = res.status] \in Parent
    BY DEF TypeOK, ClusterTypeOK, Parent
  <2>2. [parent EXCEPT !.status = res.status].fin = parent.fin
    BY DEF TypeOK, ClusterTypeOK, Parent
  <2> QED
    BY <1>1, <1>3, <2>1, <2>2, StoreParentBehind, StoreParentGuarded DEF ParentInv
<1> QED
  BY <1>2, <1>3 DEF WriteStatus

\* A delivery to the parent's informer preserves the invariant.
LEMMA DeliverParentInv ==
  ASSUME TypeOK, ParentInv, WorkerInv, DeliverParent
  PROVE  ParentInv' /\ WorkerInv'
<1>1. PICK p \in pWatch : /\ \A q \in pWatch : p.rv <= q.rv
                         /\ pCache' = p /\ pWatch' = pWatch \ {p}
  BY DEF DeliverParent
<1>2. UNCHANGED <<parent, pc, res>>
  BY DEF DeliverParent, workerVars
<1>3. /\ p \in Parent /\ pCache.rv < p.rv /\ p.rv <= parent.rv
      /\ p.rv = parent.rv => p = parent
  BY DEF TypeOK, ClusterTypeOK, ParentInv, Behind, Versions
<1>4. \A q \in pWatch \ {p} : p.rv < q.rv
  <2>1. \A q \in pWatch \ {p} : q.rv # p.rv /\ q.rv \in Nat /\ p.rv \in Nat
    BY DEF TypeOK, ClusterTypeOK, ParentInv, Behind, Parent
  <2> QED
    BY <1>1, <2>1
<1>5. Behind'
  BY <1>1, <1>2, <1>4 DEF ParentInv, Behind, Versions
<1>6. StillGuarded'
  BY <1>1, <1>2 DEF ParentInv, StillGuarded, Versions
<1>7. WorkerInv'
  <2>1. pc # "idle" => Knows(res, parent)'
    BY <1>2 DEF WorkerInv, WorkerBehind, Knows, Wants, Desired
  <2>2. pCache'.rv = p.rv /\ pCache.rv \in Nat /\ p.rv \in Nat /\ res.rv \in Nat
    BY <1>1, <1>3 DEF TypeOK, ClusterTypeOK, Parent
  <2> QED
    BY <1>2, <1>3, <2>1, <2>2 DEF WorkerInv, WorkerBehind, Stages, Wants, Desired
<1> QED
  BY <1>5, <1>6, <1>7 DEF ParentInv

\* So do a delivery to the children's informer and a crash.
LEMMA OtherStepsInv ==
  ASSUME TypeOK, ParentInv, WorkerInv, DeliverKids \/ Crash
  PROVE  ParentInv' /\ WorkerInv'
<1>1. CASE DeliverKids
  BY <1>1, ParentUntouched DEF DeliverKids, workerVars, WorkerInv, WorkerBehind, Stages,
     Knows, Wants, Desired
<1>2. CASE Crash
  <2>1. pCache' = parent /\ pWatch' = {} /\ UNCHANGED parent
    BY <1>2 DEF Crash
  <2>2. ParentInv'
    BY <2>1 DEF ParentInv, Behind, StillGuarded, Versions, TypeOK, ClusterTypeOK, Parent
  <2> QED
    BY <1>2, <2>2, RestInv DEF Crash
<1> QED
  BY <1>1, <1>2

\* What users and other controllers do to the parent.
LEMMA OthersInv ==
  ASSUME TypeOK, ParentInv, WorkerInv, Others
  PROVE  ParentInv' /\ WorkerInv'
<1>1. UNCHANGED <<pc, res, pCache>>
  BY DEF Others, workerVars, Environment, EditSpec, DeleteParent, ReleaseHold, Drift, Foreign,
     FinishDelete, CollectGarbage
<1>2. CASE UNCHANGED <<parent, pWatch>>
  BY <1>1, <1>2, ParentUntouched DEF WorkerInv, WorkerBehind, Stages, Knows, Wants, Desired
<1>3. ASSUME NEW p \in Parent, p.fin = parent.fin, StoreParent(p)
      PROVE  ParentInv' /\ WorkerInv'
  <2>1. Behind' /\ parent'.rv = parent.rv + 1 /\ StillGuarded' /\ parent'.fin = parent.fin
    BY <1>1, <1>3, StoreParentBehind, StoreParentGuarded DEF ParentInv
  <2>2. pc # "idle" => Knows(res, parent')
    BY <2>1 DEF WorkerInv, WorkerBehind, Knows, TypeOK, ClusterTypeOK, Parent
  <2>3. WorkerInv'
    BY <1>1, <2>2 DEF WorkerInv, WorkerBehind, Stages, Wants, Desired, Knows
  <2> QED
    BY <2>1, <2>3 DEF ParentInv
<1>4. CASE EditSpec
  <2>1. PICK spec \in Specs : StoreParent([parent EXCEPT !.spec = spec, !.gen = @ + 1])
    BY <1>4 DEF EditSpec
  <2> DEFINE gen == parent.gen + 1
             p == [parent EXCEPT !.spec = spec, !.gen = gen]
  <2>2. gen \in Nat
    BY DEF TypeOK, ClusterTypeOK, Parent
  <2>3. p \in Parent /\ p.fin = parent.fin
    <3> HIDE DEF gen
    <3> QED
      BY <2>2 DEF TypeOK, ClusterTypeOK, Parent
  <2> QED
    BY <1>3, <2>1, <2>3
<1>5. CASE DeleteParent
  <2> DEFINE gen == parent.gen + 1
             p == [parent EXCEPT !.deleting = TRUE, !.gen = gen]
  <2>1. gen \in Nat
    BY DEF TypeOK, ClusterTypeOK, Parent
  <2>2. p \in Parent /\ p.fin = parent.fin
    <3> HIDE DEF gen
    <3> QED
      BY <2>1 DEF TypeOK, ClusterTypeOK, Parent
  <2> QED
    BY <1>3, <1>5, <2>2 DEF DeleteParent
<1>6. CASE ReleaseHold
  <2>1. [parent EXCEPT !.held = FALSE] \in Parent
    BY DEF TypeOK, ClusterTypeOK, Parent
  <2>2. [parent EXCEPT !.held = FALSE].fin = parent.fin
    BY DEF TypeOK, ClusterTypeOK, Parent
  <2> QED
    BY <1>3, <1>6, <2>1, <2>2 DEF ReleaseHold
<1> QED
  BY <1>2, <1>4, <1>5, <1>6 DEF Others, Environment, Drift, Foreign, FinishDelete,
     CollectGarbage

\* Nothing is under way at the start, and every version is the first one.
LEMMA InitInv ==
  ASSUME Init
  PROVE  TypeOK /\ ParentInv /\ WorkerInv
<1>1. PICK spec \in Specs, held \in BOOLEAN :
        parent = [there |-> TRUE, deleting |-> FALSE, held |-> held, fin |-> FALSE,
                  spec |-> spec, gen |-> 1, rv |-> 1,
                  status |-> [obs |-> 0, ref |-> NoChild, reason |-> "none"]]
  BY DEF Init, ClusterInit
<1>2. parent \in Parent
  BY <1>1 DEF Parent, Status, Contents, Reasons
<1>3. Absent \in Kid
  BY DEF Absent, Kid, Contents
<1>4. kids \in Kids
  BY <1>3 DEF Init, ClusterInit, Kids
<1>5. Nobody \in Parent /\ Nobody.status \in Status
  BY DEF Nobody, Parent, Status, Specs, Contents, Reasons
<1>6. TypeOK
  BY <1>2, <1>3, <1>4, <1>5, ClusterAssumption DEF Init, ClusterInit, TypeOK, ClusterTypeOK, PCs
<1>7. ParentInv
  BY <1>1 DEF Init, ClusterInit, ParentInv, Behind, StillGuarded, Versions
<1> QED
  BY <1>6, <1>7 DEF Init, WorkerInv, WorkerBehind, Stages

\* GuardInv is inductive: each action keeps it.
LEMMA NextInv ==
  ASSUME GuardInv, [Next]_vars
  PROVE  GuardInv'
<1>1. TypeOK /\ ParentInv /\ WorkerInv /\ Stages
  BY DEF GuardInv, ParentInv, WorkerInv
<1> USE <1>1
<1> SUFFICES TypeOK' /\ ParentInv' /\ WorkerInv'
  BY DEF GuardInv, ParentInv, WorkerInv
<1>2. CASE Begin
  BY <1>2, BeginType, BeginInv
<1>3. ASSUME NEW o \in Answers, ListChildren(o)
      PROVE  TypeOK' /\ ParentInv' /\ WorkerInv'
  BY <1>3, ListChildrenType, ListChildrenInv
<1>4. ASSUME NEW o \in Answers, ClearFinalizer(o)
      PROVE  TypeOK' /\ ParentInv' /\ WorkerInv'
  BY <1>4, ClearFinalizerType, ClearFinalizerInv
<1>5. ASSUME NEW o \in Answers, AddFinalizer(o)
      PROVE  TypeOK' /\ ParentInv' /\ WorkerInv'
  BY <1>5, AddFinalizerType, AddFinalizerInv
<1>6. ASSUME NEW o \in Answers, WriteStatus(o)
      PROVE  TypeOK' /\ ParentInv' /\ WorkerInv'
  BY <1>6, WriteStatusType, WriteStatusInv
<1>7. ASSUME NEW o \in Answers, NEW n \in Names, DeleteExtra(n, o)
      PROVE  TypeOK' /\ ParentInv' /\ WorkerInv'
  BY <1>7, DeleteExtraType, DeleteExtraInv
<1>8. ASSUME NEW o \in Answers, NEW n \in Names,
             CreateChild(n, o) \/ UpdateChild(n, o) \/ DeleteChild(n, o)
      PROVE  TypeOK' /\ ParentInv' /\ WorkerInv'
  BY <1>8, CreateChildType, UpdateChildType, DeleteChildType, ChildStepInv
<1>9. ASSUME NEW n \in Names, NEW seen \in BOOLEAN, CheckConflict(n, seen)
      PROVE  TypeOK' /\ ParentInv' /\ WorkerInv'
  BY <1>9, CheckConflictType, ChildStepInv
<1>10. CASE DeliverParent
  BY <1>10, DeliveryType, DeliverParentInv
<1>11. CASE DeliverKids
  BY <1>11, DeliveryType, OtherStepsInv
<1>12. CASE Crash
  BY <1>12, CrashType, OtherStepsInv
<1>13. CASE Others
  <2>1. TypeOK'
    BY <1>13, EnvironmentType DEF Others, TypeOK, workerVars
  <2> QED
    BY <1>13, <2>1, OthersInv
<1>14. CASE UNCHANGED vars
  <2>1. UNCHANGED <<parent, pCache, pWatch, pc, res>>
    BY <1>14 DEF vars, clusterVars, workerVars
  <2>2. TypeOK'
    BY <1>14 DEF vars, clusterVars, workerVars, TypeOK, ClusterTypeOK
  <2> QED
    BY <2>1, <2>2, ParentUntouched DEF WorkerInv, WorkerBehind, Stages, Knows, Wants, Desired
<1> QED
  BY <1>2, <1>3, <1>4, <1>5, <1>6, <1>7, <1>8, <1>9, <1>10, <1>11, <1>12, <1>13, <1>14
  DEF Next, Worker

\* Whatever the worker and the caches remember, the stored parent still carries
\* the finalizer wherever a create depends on it.  (ensureFinalizer's patch)
THEOREM GuardInvariant == Spec => []GuardInv
<1>1. Init => GuardInv
  BY InitInv DEF GuardInv, ParentInv, WorkerInv
<1>2. GuardInv /\ [Next]_vars => GuardInv'
  BY NextInv
<1> QED
  BY <1>1, <1>2, PTL DEF Spec

\* Every reachable state is well typed: what the worker writes to the cluster, and
\* keeps between two calls, stays within the declared types.
THEOREM TypeCorrect == Spec => []TypeOK
BY GuardInvariant, PTL DEF GuardInv

-----------------------------------------------------------------------------
(* How the set of our children changes. *)

\* A write decides whether its object is a child of ours, and nothing else.
LEMMA StoreKidOurs ==
  ASSUME TypeOK, NEW n \in Names, NEW k \in Kid, StoreKid(n, k)
  PROVE  Ours' = IF OurChild(k) THEN Ours \cup {n} ELSE Ours \ {n}
<1> DEFINE new == [k EXCEPT !.rv = kids.rev + 1]
<1>1. kids'.obj = [kids.obj EXCEPT ![n] = new]
  BY DEF StoreKid
<1>2. new.there = k.there /\ new.marked = k.marked /\ new.owned = k.owned
  BY DEF Kid
<1>3. OurChild(new) <=> OurChild(k)
  BY <1>2 DEF OurChild
<1>4. \A m \in Names : kids'.obj[m] = IF m = n THEN new ELSE kids.obj[m]
  BY <1>1 DEF TypeOK, ClusterTypeOK, Kids
<1>5. \A m \in Names : OurChild(kids'.obj[m]) <=> IF m = n THEN OurChild(k) ELSE OurChild(kids.obj[m])
  BY <1>3, <1>4
<1>6. Ours' = {m \in Names : OurChild(kids'.obj[m])}
  BY DEF Ours, OurChild
<1> QED
  BY <1>5, <1>6 DEF Ours

\* The absent object is nobody's child.
LEMMA AbsentNotOurs == Absent \in Kid /\ ~OurChild(Absent)
BY DEF Absent, Kid, Contents, OurChild

\* A delete takes a child away, or only marks it.
LEMMA DeleteKidOurs ==
  ASSUME TypeOK, NEW n \in Names, DeleteKid(n)
  PROVE  Ours' \in {Ours, Ours \ {n}}
<1>1. CASE StoreKid(n, Absent)
  BY <1>1, AbsentNotOurs, StoreKidOurs
<1>2. CASE UNCHANGED kids
  BY <1>2 DEF Ours, OurChild
<1>3. CASE StoreKid(n, [kids.obj[n] EXCEPT !.deleting = TRUE])
  <2> DEFINE k == [kids.obj[n] EXCEPT !.deleting = TRUE]
  <2>1. kids.obj[n] \in Kid
    BY DEF TypeOK, ClusterTypeOK, Kids
  <2>2. k \in Kid /\ k.there = kids.obj[n].there /\ k.marked = kids.obj[n].marked
        /\ k.owned = kids.obj[n].owned
    BY <2>1 DEF Kid
  <2>3. OurChild(k) <=> n \in Ours
    BY <2>2 DEF OurChild, Ours
  <2> QED
    BY <1>3, <2>2, <2>3, StoreKidOurs
<1> QED
  BY <1>1, <1>2, <1>3 DEF DeleteKid

\* Changing the value of an object leaves our children alone.
LEMMA StoreValueOurs ==
  ASSUME TypeOK, NEW n \in Names, NEW v \in Contents,
         StoreKid(n, [kids.obj[n] EXCEPT !.value = v])
  PROVE  Ours' = Ours
<1> DEFINE k == [kids.obj[n] EXCEPT !.value = v]
<1>1. kids.obj[n] \in Kid
  BY DEF TypeOK, ClusterTypeOK, Kids
<1>2. k \in Kid /\ k.there = kids.obj[n].there /\ k.marked = kids.obj[n].marked
      /\ k.owned = kids.obj[n].owned
  BY <1>1 DEF Kid
<1>3. OurChild(k) <=> n \in Ours
  BY <1>2 DEF OurChild, Ours
<1> QED
  BY <1>2, <1>3, StoreKidOurs

\* The end of a request leaves no belief about children behind.
LEMMA ConcludePc ==
  ASSUME NEW r, NEW err, Conclude(r, err)
  PROVE  pc' \in {"idle", "status"}
BY DEF Conclude, Rest

\* However a request ends, only the status is left to write.
LEMMA EndPc ==
  ASSUME NEW r, NEW ref, NEW reason, Fail \/ Finish(ref, reason) \/ Reflect(r, ref, reason)
  PROVE  pc' \in {"idle", "status"}
BY ConcludePc DEF Fail, Finish, Reflect

\* Only CreateChild adds a child of ours: it adds one and ends the request.
LEMMA OursStep ==
  ASSUME TypeOK, WorkerInv, [Next]_vars
  PROVE  \/ Ours' = Ours
         \/ UNCHANGED parent /\ \E n \in Names : Ours' = Ours \ {n}
         \/ /\ UNCHANGED parent /\ pc = "create" /\ pc' \in {"idle", "status"}
            /\ \E n \in Names : Ours' = Ours \cup {n}
<1>1. CASE UNCHANGED kids
  BY <1>1 DEF Ours, OurChild
<1>2. ASSUME NEW n \in Names, NEW o \in Answers,
             DeleteExtra(n, o) \/ DeleteChild(n, o)
      PROVE  UNCHANGED kids \/ (UNCHANGED parent /\ Ours' \in {Ours, Ours \ {n}})
  BY <1>2, DeleteKidOurs DEF DeleteExtra, DeleteChild
<1>3. ASSUME NEW n \in Names, NEW o \in Answers, CreateChild(n, o), ~UNCHANGED kids
      PROVE  /\ UNCHANGED parent /\ pc = "create" /\ pc' \in {"idle", "status"}
             /\ Ours' \in {Ours \cup {n}, Ours \ {n}}
  <2> DEFINE made == [there |-> TRUE, owned |-> ~SkipOwner, marked |-> TRUE,
                      deleting |-> FALSE, value |-> Desired(res), rv |-> 0]
  <2>1. StoreKid(n, made) /\ UNCHANGED parent /\ pc = "create"
    BY <1>3 DEF CreateChild
  <2>2. Desired(res) \in Contents
    BY <2>1 DEF WorkerInv, Stages, Contents
  <2>3. (~SkipOwner) \in BOOLEAN
    OBVIOUS
  <2>4. made \in Kid
    <3> HIDE DEF SkipOwner
    <3> QED
      BY <2>2, <2>3 DEF Kid
  <2>5. pc' \in {"idle", "status"}
    BY <1>3, EndPc DEF CreateChild
  <2> QED
    BY <2>1, <2>4, <2>5, StoreKidOurs
<1>4. ASSUME NEW n \in Names, NEW o \in Answers, UpdateChild(n, o)
      PROVE  Ours' = Ours \/ UNCHANGED kids
  <2>1. Desired(res) \in Contents
    BY <1>4 DEF UpdateChild, WorkerInv, Stages, Contents
  <2> QED
    BY <1>4, <2>1, StoreValueOurs DEF UpdateChild
<1>5. CASE Environment
  <2>1. CASE EditSpec \/ DeleteParent \/ ReleaseHold
    BY <1>1, <2>1 DEF EditSpec, DeleteParent, ReleaseHold
  <2>2. ASSUME NEW n \in Names, Drift(n)
        PROVE  UNCHANGED parent /\ Ours' \in {Ours, Ours \ {n}}
    BY <2>2, DeleteKidOurs, StoreValueOurs DEF Drift, Contents
  <2>3. ASSUME NEW n \in Names, Foreign(n)
        PROVE  UNCHANGED parent /\ Ours' = Ours \ {n}
    <3>1. ASSUME NEW v \in Values
          PROVE  /\ [Absent EXCEPT !.there = TRUE, !.value = v] \in Kid
                 /\ ~OurChild([Absent EXCEPT !.there = TRUE, !.value = v])
      BY DEF Absent, Kid, Contents, OurChild
    <3> QED
      BY <2>3, <3>1, AbsentNotOurs, StoreKidOurs DEF Foreign
  <2>4. ASSUME NEW n \in Names, FinishDelete(n) \/ CollectGarbage(n)
        PROVE  UNCHANGED parent /\ Ours' \in {Ours, Ours \ {n}}
    BY <2>4, AbsentNotOurs, StoreKidOurs, DeleteKidOurs DEF FinishDelete, CollectGarbage
  <2> QED
    BY <1>5, <2>1, <2>2, <2>3, <2>4 DEF Environment
<1>6. CASE Begin \/ DeliverParent \/ DeliverKids \/ Crash \/ UNCHANGED vars
  BY <1>1, <1>6 DEF Begin, DeliverParent, DeliverKids, Crash, vars, clusterVars
<1>7. ASSUME NEW o \in Answers,
             ListChildren(o) \/ ClearFinalizer(o) \/ AddFinalizer(o) \/ WriteStatus(o)
      PROVE  UNCHANGED kids
  BY <1>7 DEF ListChildren, ClearFinalizer, AddFinalizer, WriteStatus
<1>8. ASSUME NEW n \in Names, NEW seen \in BOOLEAN, CheckConflict(n, seen)
      PROVE  UNCHANGED kids
  BY <1>8 DEF CheckConflict
<1> QED
  BY <1>1, <1>2, <1>3, <1>4, <1>5, <1>6, <1>7, <1>8 DEF Next, Worker, Others

\* Under GuardInv a create finds the finalizer on the stored parent.
LEMMA CreateGuarded ==
  ASSUME GuardInv, UseFinalizer, pc = "create"
  PROVE  parent.there /\ parent.fin
<1>1. res.fin /\ Wants(res)
  <2>1. Desired(res) \in Values /\ res.fin
    BY DEF GuardInv, Stages
  <2> QED
    BY <2>1, ClusterAssumption DEF Wants
<1>2. parent.fin
  BY <1>1 DEF GuardInv, WorkerBehind, Knows
<1> QED
  BY <1>2 DEF GuardInv, StillGuarded

\* However far the informers lag and whatever call fails, a child of ours is only
\* ever created while the stored parent carries the finalizer.
THEOREM CreatesUnderFinalizer == Spec => CreateUnderFinalizer
<1>1. GuardInv /\ [Next]_vars =>
        [UseFinalizer /\ ~(Ours' \subseteq Ours) => parent.there /\ parent.fin]_vars
  <2> SUFFICES ASSUME GuardInv, [Next]_vars, UseFinalizer, ~(Ours' \subseteq Ours)
               PROVE  parent.there /\ parent.fin
    OBVIOUS
  <2>1. pc = "create"
    BY OursStep DEF GuardInv, WorkerInv
  <2> QED
    BY <2>1, CreateGuarded
<1> QED
  BY <1>1, GuardInvariant, PTL DEF Spec, CreateUnderFinalizer

-----------------------------------------------------------------------------
(* Children listed from the API server. *)

\* With live lists, what was listed is what there is.
LEMMA ListLive ==
  ASSUME LiveInv, ~CachedList, NEW o \in Answers, ListChildren(o)
  PROVE  /\ Ours' = Ours
         /\ \/ pc' \in {"idle", "status", "delete"}
            \/ pc' \in {"clear", "finalize"} /\ actual' = NoName /\ Ours = {}
            \/ pc' = "finalize" /\ actual' # NoName
<1>1. Ours = {n \in Names : OurChild(kids.obj[n])} /\ Ours' = Ours
  BY DEF Ours, OurChild, ListChildren
<1>2. ASSUME NEW act \in Names \cup {NoName}, Dispatch(kids.obj, act)
      PROVE  \/ pc' \in {"idle", "status"}
             \/ pc' = Route(act) /\ actual' = act
  BY <1>2, EndPc DEF Dispatch
<1>3. CASE o # "ok"
  BY <1>1, <1>3, EndPc DEF ListChildren
<1>4. CASE o = "ok" /\ Ours = {}
  <2>1. Dispatch(kids.obj, NoName)
    BY <1>1, <1>4 DEF ListChildren
  <2> QED
    BY <1>1, <1>2, <1>4, <2>1 DEF Route
<1>5. CASE o = "ok" /\ Ours # {}
  <2>1. Only(Ours)
    BY <1>5 DEF LiveInv, AtMostOne, Only
  <2> DEFINE n == CHOOSE m \in Ours : TRUE
  <2>2. n \in Ours /\ Ours \subseteq Names
    BY <1>1, <1>5
  <2>3. n \in Names /\ n # NoName
    BY <2>2, ReconcilerAssumption
  <2>4. Dispatch(kids.obj, n)
    BY <1>1, <1>5, <2>1 DEF ListChildren
  <2> HIDE DEF n
  <2>5. Route(n) \in {"delete", "finalize"}
    BY <2>3 DEF Route
  <2> QED
    BY <1>1, <1>2, <2>3, <2>4, <2>5
<1> QED
  BY <1>3, <1>4, <1>5

\* Where else the worker can get to.
LEMMA WorkerPc ==
  ASSUME TypeOK, LiveInv, [Next]_vars, \A o \in Answers : ~ListChildren(o)
  PROVE  \/ UNCHANGED <<pc, actual>>
         \/ pc' \in {"idle", "list", "status", "conflict", "update"}
         \/ pc' = "create" /\ pc = "finalize" /\ actual = NoName /\ UNCHANGED kids
<1>1. CASE Begin \/ DeliverParent \/ DeliverKids \/ Crash \/ Others \/ UNCHANGED vars
  BY <1>1 DEF Begin, DeliverParent, DeliverKids, Crash, Rest, Others, vars, workerVars
<1>2. ASSUME NEW n \in Names, NEW o \in Answers, DeleteExtra(n, o)
      PROVE  FALSE
  BY <1>2 DEF DeleteExtra, LiveInv
<1>3. ASSUME NEW o \in Answers, AddFinalizer(o)
      PROVE  \/ pc' \in {"idle", "status", "update"}
             \/ pc' = "create" /\ pc = "finalize" /\ actual = NoName /\ UNCHANGED kids
  BY <1>3, EndPc DEF AddFinalizer, Verb
<1>4. ASSUME NEW o \in Answers, ClearFinalizer(o) \/ WriteStatus(o)
      PROVE  pc' \in {"idle", "status"}
  BY <1>4, EndPc DEF ClearFinalizer, WriteStatus, Rest
<1>5. ASSUME NEW n \in Names, NEW o \in Answers,
             CreateChild(n, o) \/ UpdateChild(n, o) \/ DeleteChild(n, o)
      PROVE  pc' \in {"idle", "status", "conflict"}
  BY <1>5, EndPc DEF CreateChild, UpdateChild, DeleteChild, Goto
<1>6. ASSUME NEW n \in Names, NEW seen \in BOOLEAN, CheckConflict(n, seen)
      PROVE  pc' \in {"idle", "status"}
  BY <1>6, EndPc DEF CheckConflict
<1> QED
  BY <1>1, <1>2, <1>3, <1>4, <1>5, <1>6 DEF Next, Worker

\* Live lists stay accurate about which child exists until the worker acts on it.
LEMMA LiveStep ==
  ASSUME GuardInv, LiveInv, ~CachedList, [Next]_vars
  PROVE  LiveInv'
<1>1. TypeOK /\ WorkerInv
  BY DEF GuardInv, WorkerInv
<1>2. CASE \E o \in Answers : ListChildren(o)
  BY <1>2, ListLive DEF LiveInv, AtMostOne
<1>3. CASE \A o \in Answers : ~ListChildren(o)
  <2>1. \/ UNCHANGED <<pc, actual>>
        \/ pc' \in {"idle", "list", "status", "conflict", "update"}
        \/ pc' = "create" /\ pc = "finalize" /\ actual = NoName /\ UNCHANGED kids
    BY <1>1, <1>3, WorkerPc
  <2>2. CASE Ours' \subseteq Ours
    BY <2>1, <2>2 DEF LiveInv, AtMostOne
  <2>3. CASE ~(Ours' \subseteq Ours)
    <3>1. pc = "create" /\ pc' \in {"idle", "status"} /\ \E n \in Names : Ours' = Ours \cup {n}
      BY <1>1, <2>3, OursStep
    <3> QED
      BY <3>1 DEF LiveInv, AtMostOne
  <2> QED
    BY <2>2, <2>3
<1> QED
  BY <1>2, <1>3

\* With a live list the guard invariant and the live invariant hold together.
LEMMA LiveInvariant ==
  ASSUME ~CachedList
  PROVE  Spec => [](GuardInv /\ LiveInv)
<1>1. Init => GuardInv /\ LiveInv
  <2>1. Init => GuardInv
    BY InitInv DEF GuardInv, ParentInv, WorkerInv
  <2>2. Init => Ours = {} /\ pc = "idle"
    BY DEF Ours, OurChild, Init, ClusterInit, Absent
  <2> QED
    BY <2>1, <2>2 DEF LiveInv, AtMostOne
<1>2. GuardInv /\ LiveInv /\ [Next]_vars => (GuardInv /\ LiveInv)'
  BY NextInv, LiveStep
<1> QED
  BY <1>1, <1>2, PTL DEF Spec

\* A ChildReconciler that lists children from the API server never has two of
\* them, generated names or not, with or without a finalizer.
THEOREM OneChild ==
  ASSUME ~CachedList
  PROVE  Spec => []AtMostOne
BY LiveInvariant, PTL DEF LiveInv

\* Writes of the parent: it exists, no child moves, and only ClearFinalizer takes
\* the finalizer off.
LEMMA ParentStep ==
  ASSUME TypeOK, [Next]_vars
  PROVE  \/ UNCHANGED parent
         \/ parent.there /\ UNCHANGED kids /\ (parent.fin /\ ~parent'.fin => pc = "clear")
<1> DEFINE Goal == \/ UNCHANGED parent
                   \/ parent.there /\ UNCHANGED kids
                      /\ (parent.fin /\ ~parent'.fin => pc = "clear")
<1>1. parent \in Parent
  BY DEF TypeOK, ClusterTypeOK
<1>2. ASSUME NEW o \in Answers, ClearFinalizer(o)
      PROVE  Goal
  BY <1>2 DEF ClearFinalizer, PatchFinalizer, Accepted, Current
<1>3. ASSUME NEW o \in Answers, AddFinalizer(o)
      PROVE  Goal
  BY <1>1, <1>3 DEF AddFinalizer, PatchFinalizer, Accepted, Current, StoreParent, Parent
<1>4. ASSUME NEW o \in Answers, WriteStatus(o)
      PROVE  Goal
  BY <1>1, <1>4 DEF WriteStatus, Current, StoreParent, Parent
<1>5. CASE EditSpec
  BY <1>1, <1>5 DEF EditSpec, StoreParent, Parent
<1>6. CASE DeleteParent
  BY <1>1, <1>6 DEF DeleteParent, StoreParent, Parent
<1>7. CASE ReleaseHold
  BY <1>1, <1>7 DEF ReleaseHold, StoreParent, Parent
<1>8. ASSUME NEW n \in Names,
             Drift(n) \/ Foreign(n) \/ FinishDelete(n) \/ CollectGarbage(n)
      PROVE  Goal
  BY <1>8 DEF Drift, Foreign, FinishDelete, CollectGarbage
<1>9. ASSUME NEW n \in Names, NEW o \in Answers,
             DeleteExtra(n, o) \/ CreateChild(n, o) \/ UpdateChild(n, o) \/ DeleteChild(n, o)
      PROVE  Goal
  BY <1>9 DEF DeleteExtra, CreateChild, UpdateChild, DeleteChild
<1>10. ASSUME NEW o \in Answers, ListChildren(o)
       PROVE  Goal
  BY <1>10 DEF ListChildren
<1>11. ASSUME NEW n \in Names, NEW seen \in BOOLEAN, CheckConflict(n, seen)
       PROVE  Goal
  BY <1>11 DEF CheckConflict
<1>12. CASE Begin \/ DeliverParent \/ DeliverKids \/ Crash \/ UNCHANGED vars
  BY <1>12 DEF Begin, DeliverParent, DeliverKids, Crash, vars, clusterVars
<1> QED
  BY <1>2, <1>3, <1>4, <1>5, <1>6, <1>7, <1>8, <1>9, <1>10, <1>11, <1>12
  DEF Next, Worker, Others, Environment

\* With live lists no step leaves a child behind without the finalizer.
LEMMA NoOrphanStep ==
  ASSUME GuardInv, GuardInv', LiveInv, NoOrphan, [Next]_vars
  PROVE  NoOrphan'
<1> SUFFICES ASSUME UseFinalizer, Ours' # {}
             PROVE  parent'.there /\ parent'.fin
  BY DEF NoOrphan
<1>1. TypeOK /\ WorkerInv
  BY DEF GuardInv, WorkerInv
<1>2. CASE UNCHANGED parent
  <2>1. CASE Ours # {}
    BY <1>2, <2>1 DEF NoOrphan
  <2>2. CASE Ours = {}
    <3>1. pc = "create"
      BY <1>1, <2>2, OursStep
    <3> QED
      BY <1>2, <3>1, CreateGuarded
  <2> QED
    BY <2>1, <2>2
<1>3. CASE parent.there /\ UNCHANGED kids /\ (parent.fin /\ ~parent'.fin => pc = "clear")
  <2>1. Ours' = Ours
    BY <1>3 DEF Ours, OurChild
  <2>2. parent'.fin
    BY <1>3, <2>1 DEF NoOrphan, LiveInv
  <2> QED
    BY <2>2 DEF GuardInv, StillGuarded
<1> QED
  BY <1>1, <1>2, <1>3, ParentStep

\* With a live list, no failed call, crash or edit lets the parent, or its
\* finalizer, go while a child of ours exists.
THEOREM NoOrphans ==
  ASSUME ~CachedList
  PROVE  Spec => []NoOrphan
<1>1. Init => NoOrphan
  BY DEF Init, ClusterInit, NoOrphan, Ours, OurChild, Absent
<1>2. GuardInv /\ GuardInv' /\ LiveInv /\ NoOrphan /\ [Next]_vars => NoOrphan'
  BY NoOrphanStep
<1> QED
  BY <1>1, <1>2, LiveInvariant, PTL DEF Spec

-----------------------------------------------------------------------------
(* The contract of the finalizer. *)

\* With live lists every step is one the finalizer's contract allows.
LEMMA ContractStep ==
  ASSUME UseFinalizer, GuardInv, GuardInv', LiveInv, NoOrphan, [Next]_vars
  PROVE  [Contract!Next]_<<parent.there, parent.fin, Ours>>
<1>1. TypeOK /\ WorkerInv /\ Ours \subseteq Names
  BY DEF GuardInv, WorkerInv, Ours
<1>2. /\ parent.there \in BOOLEAN /\ parent.fin \in BOOLEAN
      /\ parent'.there \in BOOLEAN /\ parent'.fin \in BOOLEAN
  BY DEF GuardInv, TypeOK, ClusterTypeOK, Parent
<1>3. CASE UNCHANGED parent
  <2>1. CASE \E n \in Names : Ours' = Ours \ {n}
    BY <1>3, <2>1 DEF Contract!Next, Contract!Release
  <2>2. CASE pc = "create" /\ \E n \in Names : Ours' = Ours \cup {n}
    <3>1. parent.there /\ parent.fin
      BY <2>2, CreateGuarded
    <3> QED
      BY <1>2, <1>3, <2>2, <3>1 DEF Contract!Next, Contract!Allocate
  <2> QED
    BY <1>1, <1>3, <2>1, <2>2, OursStep
<1>4. CASE /\ parent.there /\ UNCHANGED kids
           /\ parent.fin /\ ~parent'.fin => pc = "clear"
  <2>1. Ours' = Ours
    BY <1>4 DEF Ours, OurChild
  <2>2. parent'.fin => parent'.there
    BY DEF GuardInv, StillGuarded
  <2>3. CASE ~parent.fin /\ parent'.fin
    BY <1>2, <1>4, <2>1, <2>2, <2>3 DEF Contract!Next, Contract!Guard
  <2>4. CASE parent.fin /\ ~parent'.fin
    <3>1. Ours = {}
      BY <1>4, <2>4 DEF LiveInv
    <3> QED
      BY <1>2, <1>4, <2>1, <2>4, <3>1 DEF Contract!Next, Contract!Unguard
  <2>5. CASE parent.fin = parent'.fin /\ parent'.there
    BY <1>2, <1>4, <2>1, <2>5
  <2>6. CASE parent.fin = parent'.fin /\ ~parent'.there
    BY <1>2, <1>4, <2>1, <2>2, <2>6 DEF Contract!Next, Contract!Vanish
  <2> QED
    BY <1>2, <2>3, <2>4, <2>5, <2>6
<1> QED
  BY <1>1, <1>3, <1>4, ParentStep

\* ChildReconciler with a finalizer and a live list implements FinalizerContract.
THEOREM ContractImplemented ==
  ASSUME UseFinalizer, ~CachedList
  PROVE  Spec => ImplementsContract
<1>1. Init => Contract!Init
  BY DEF Init, ClusterInit, Contract!Init, Ours, OurChild, Absent
<1>2. /\ GuardInv /\ GuardInv' /\ LiveInv /\ NoOrphan /\ [Next]_vars
      => [Contract!Next]_<<parent.there, parent.fin, Ours>>
  BY ContractStep
<1> QED
  BY <1>1, <1>2, LiveInvariant, NoOrphans, PTL
  DEF Spec, ImplementsContract, Contract!Spec, Contract!contractVars

-----------------------------------------------------------------------------
(* What the status says. *)

\* Storing a version does not change what it says.
LEMMA StoreParentHonest ==
  ASSUME NEW p \in Parent, StoreParent(p), HonestVersion(p), HonestInv, UNCHANGED pCache
  PROVE  \A v \in Versions' \cup {parent'} : HonestVersion(v)
<1>1. /\ parent'.status = p.status /\ parent'.gen = p.gen /\ parent'.spec = p.spec
      /\ parent'.deleting = p.deleting /\ pWatch' = pWatch \cup {parent'}
  BY DEF StoreParent, Parent
<1>2. HonestVersion(parent')
  BY <1>1 DEF HonestVersion
<1> QED
  BY <1>1, <1>2 DEF HonestInv, Versions

\* A request that ends with an honest status keeps it.
LEMMA ConcludeHonest ==
  ASSUME NEW r, NEW err, Conclude(r, err), HonestVersion(r)
  PROVE  (pc # "idle" => HonestVersion(res))'
<1>1. (pc' = "status" /\ res' = r) \/ pc' = "idle"
  BY DEF Conclude, Rest
<1> QED
  BY <1>1 DEF HonestVersion

\* A report about the resource the worker holds.
LEMMA ReflectHonest ==
  ASSUME NEW r \in Parent, NEW ref \in Contents, NEW reason \in Reasons, Reflect(r, ref, reason),
         \/ r.deleting \/ r.spec \in Paused
         \/ reason = "ok" /\ ref = r.spec
         \/ reason = "invalid" /\ ref = NoChild /\ r.spec \in Invalid
         \/ reason = "conflict" /\ ref = NoChild /\ r.spec \in Values
  PROVE  (pc # "idle" => HonestVersion(res))'
<1> DEFINE q == [r EXCEPT !.status = [obs |-> r.gen, ref |-> ref, reason |-> reason]]
<1>1. /\ q.status = [obs |-> r.gen, ref |-> ref, reason |-> reason]
      /\ q.gen = r.gen /\ q.spec = r.spec /\ q.deleting = r.deleting /\ r.gen \in Nat
  BY DEF Parent
<1>2. HonestVersion(q)
  BY <1>1 DEF HonestVersion
<1> QED
  BY <1>2, ConcludeHonest DEF Reflect

\* Going on with the actual child keeps the status in hand honest.
LEMMA DispatchHonest ==
  ASSUME TypeOK, HonestInv, pc # "idle",
         NEW known \in [Names -> Kid], NEW act \in Names \cup {NoName}, Dispatch(known, act)
  PROVE  (pc # "idle" => HonestVersion(res))'
<1>1. CASE Desired(res) \in Paused
  <2>1. res \in Parent /\ (res.deleting \/ res.spec \in Paused)
    BY <1>1 DEF TypeOK, Desired
  <2>2. (IF act = NoName THEN NoChild ELSE known[act].value) \in Contents /\ "ok" \in Reasons
    BY DEF Kid, Contents, Reasons
  <2> QED
    BY <1>1, <2>1, <2>2, ReflectHonest DEF Dispatch, Finish
<1>2. CASE Desired(res) \notin Paused
  BY <1>2 DEF Dispatch, HonestInv, HonestVersion
<1> QED
  BY <1>1, <1>2

\* The patched resource speaks of the same spec and generation.
LEMMA PatchedHonest ==
  ASSUME TypeOK, WorkerInv, HonestInv, pc # "idle", NEW add \in BOOLEAN, NEW o \in Answers,
         Patches(add, o)
  PROVE  HonestVersion(Patched(add))
<1>1. res \in Parent /\ HonestVersion(res)
  BY DEF TypeOK, HonestInv
<1>2. CASE Differs(add)
  <2>1. res.gen = parent.gen
    BY <1>2 DEF Patches, Accepted, Current, WorkerInv, WorkerBehind, Knows
  <2>2. /\ Patched(add).status = res.status /\ Patched(add).gen = res.gen
        /\ Patched(add).spec = res.spec /\ Patched(add).deleting = res.deleting
    BY <1>1, <1>2, <2>1 DEF Patched, Parent
  <2> QED
    BY <1>1, <2>2 DEF HonestVersion
<1>3. CASE ~Differs(add)
  BY <1>1, <1>3 DEF Patched
<1> QED
  BY <1>2, <1>3

\* Each step of a request keeps the status in hand honest.
LEMMA WorkerHonest ==
  ASSUME TypeOK, WorkerInv, HonestInv, Worker
  PROVE  (pc # "idle" => HonestVersion(res))'
<1> DEFINE Goal == (pc # "idle" => HonestVersion(res))'
<1>1. res \in Parent /\ (pc # "idle" => HonestVersion(res))
  BY DEF TypeOK, HonestInv
<1>2. ASSUME pc # "idle", Fail
      PROVE  Goal
  BY <1>1, <1>2, ConcludeHonest DEF Fail
<1>3. NoChild \in Contents /\ {"ok", "invalid", "conflict"} \subseteq Reasons
  BY DEF Contents, Reasons
<1>4. CASE Begin
  <2> DEFINE shown == [pCache EXCEPT !.status.reason = IF @ = "none" THEN "unknown" ELSE @]
  <2>1. pCache \in Parent /\ HonestVersion(pCache)
    BY DEF TypeOK, ClusterTypeOK, HonestInv, Versions
  <2>2. /\ shown.gen = pCache.gen /\ shown.spec = pCache.spec
        /\ shown.deleting = pCache.deleting
        /\ shown.status.obs = pCache.status.obs /\ shown.status.ref = pCache.status.ref
        /\ pCache.status.reason # "none" => shown.status.reason = pCache.status.reason
    BY <2>1 DEF Parent, Status
  <2>3. HonestVersion(shown)
    BY <2>1, <2>2 DEF HonestVersion
  <2> HIDE DEF shown
  <2>4. res' = shown \/ UNCHANGED <<pc, res>>
    BY <1>4 DEF Begin, workerVars, shown
  <2> QED
    BY <1>1, <2>3, <2>4 DEF HonestVersion
<1>5. ASSUME NEW o \in Answers, ListChildren(o)
      PROVE  Goal
  <2> DEFINE known == IF CachedList THEN kCache.obj ELSE kids.obj
             ours == {n \in Names : OurChild(known[n])}
  <2>1. known \in [Names -> Kid] /\ ours \subseteq Names /\ pc = "list"
    BY <1>5 DEF TypeOK, ClusterTypeOK, Kids, ListChildren
  <2>2. \/ Fail
        \/ Dispatch(known, NoName)
        \/ ours # {} /\ Dispatch(known, CHOOSE n \in ours : TRUE)
        \/ UNCHANGED res
    BY <1>5 DEF ListChildren
  <2>3. CASE ours # {} /\ Dispatch(known, CHOOSE n \in ours : TRUE)
    <3>1. (CHOOSE n \in ours : TRUE) \in Names
      BY <2>1, <2>3
    <3> QED
      BY <2>1, <2>3, <3>1, DispatchHonest
  <2>4. CASE UNCHANGED res
    BY <1>1, <2>1, <2>4 DEF HonestVersion
  <2> QED
    BY <1>2, <2>1, <2>2, <2>3, <2>4, DispatchHonest
<1>6. ASSUME NEW n \in Names, NEW o \in Answers, DeleteExtra(n, o)
      PROVE  Goal
  <2>1. pc = "extras" /\ (Fail \/ Dispatch(list, NoName) \/ UNCHANGED res)
    BY <1>6 DEF DeleteExtra
  <2>2. list \in [Names -> Kid]
    BY DEF TypeOK
  <2>3. CASE UNCHANGED res
    BY <1>1, <2>1, <2>3 DEF HonestVersion
  <2> QED
    BY <1>2, <2>1, <2>2, <2>3, DispatchHonest
<1>7. ASSUME NEW o \in Answers, ClearFinalizer(o)
      PROVE  Goal
  <2>1. pc = "clear" /\ (res.deleting \/ res.spec = NoChild)
    BY <1>7 DEF ClearFinalizer, WorkerInv, Stages, Wants, Desired
  <2>2. Patched(FALSE) \in Parent
    BY <1>7, PatchFinalizerType DEF ClearFinalizer
  <2>3. Patched(FALSE).spec = res.spec /\ Patched(FALSE).deleting = res.deleting
    BY <1>1 DEF Patched, Parent
  <2>4. CASE Reflect(Patched(FALSE), NoChild, "ok")
    BY <1>3, <2>1, <2>2, <2>3, <2>4, ReflectHonest
  <2> QED
    BY <1>2, <1>7, <2>1, <2>4 DEF ClearFinalizer
<1>8. ASSUME NEW o \in Answers, AddFinalizer(o)
      PROVE  Goal
  <2>1. CASE Patches(TRUE, o)
    <3>1. res' = Patched(TRUE) /\ HonestVersion(Patched(TRUE))
      BY <1>8, <2>1, PatchedHonest DEF AddFinalizer
    <3> QED
      BY <3>1 DEF HonestVersion
  <2> QED
    BY <1>2, <1>8, <2>1 DEF AddFinalizer
<1>9. ASSUME NEW o \in Answers, WriteStatus(o)
      PROVE  Goal
  BY <1>9 DEF WriteStatus, Rest
<1>10. ASSUME NEW n \in Names, NEW o \in Answers, CreateChild(n, o) \/ UpdateChild(n, o)
       PROVE  Goal
  <2>1. pc \in {"create", "update"} /\ Desired(res) = res.spec /\ res.spec \in Values
    BY <1>10 DEF CreateChild, UpdateChild, WorkerInv, Stages, Desired
  <2>2. \/ Fail \/ UNCHANGED res
        \/ Finish(res.spec, "ok")
        \/ res.spec \in Invalid /\ Finish(NoChild, "invalid")
    BY <1>10, <2>1 DEF CreateChild, UpdateChild, Goto
  <2>3. CASE Finish(res.spec, "ok")
    BY <1>1, <1>3, <2>1, <2>3, ReflectHonest DEF Finish, Contents
  <2>4. CASE res.spec \in Invalid /\ Finish(NoChild, "invalid")
    BY <1>1, <1>3, <2>4, ReflectHonest DEF Finish
  <2>5. CASE UNCHANGED res
    BY <1>1, <2>1, <2>5 DEF HonestVersion
  <2> QED
    BY <1>2, <2>1, <2>2, <2>3, <2>4, <2>5
<1>11. ASSUME NEW n \in Names, NEW o \in Answers, DeleteChild(n, o)
       PROVE  Goal
  <2>1. pc = "delete" /\ (res.deleting \/ res.spec = NoChild)
    BY <1>11 DEF DeleteChild, WorkerInv, Stages, Wants, Desired
  <2>2. CASE Finish(NoChild, "ok")
    BY <1>1, <1>3, <2>1, <2>2, ReflectHonest DEF Finish
  <2> QED
    BY <1>2, <1>11, <2>1, <2>2 DEF DeleteChild
<1>12. ASSUME NEW n \in Names, NEW seen \in BOOLEAN, CheckConflict(n, seen)
       PROVE  Goal
  <2>1. pc = "conflict" /\ res.spec \in Values
    BY <1>12 DEF CheckConflict, WorkerInv, Stages, Desired
  <2>2. CASE Finish(NoChild, "conflict")
    BY <1>1, <1>3, <2>1, <2>2, ReflectHonest DEF Finish
  <2> QED
    BY <1>2, <1>12, <2>1, <2>2 DEF CheckConflict
<1> QED
  BY <1>4, <1>5, <1>6, <1>7, <1>8, <1>9, <1>10, <1>11, <1>12 DEF Worker

\* Each write of the parent leaves an honest version.
LEMMA VersionsHonest ==
  ASSUME TypeOK, WorkerInv, HonestInv, [Next]_vars
  PROVE  \A v \in Versions' \cup {parent'} : HonestVersion(v)
<1> DEFINE Goal == \A v \in Versions' \cup {parent'} : HonestVersion(v)
<1>1. parent \in Parent /\ HonestVersion(parent) /\ parent.gen \in Nat /\ parent.status.obs \in Nat
  BY DEF TypeOK, ClusterTypeOK, Parent, Status, HonestInv
<1>2. CASE UNCHANGED <<parent, pCache, pWatch>>
  BY <1>2 DEF HonestInv, Versions
<1>3. ASSUME NEW add \in BOOLEAN, StoreParent([parent EXCEPT !.fin = add]), UNCHANGED pCache
      PROVE  Goal
  <2> DEFINE p == [parent EXCEPT !.fin = add]
  <2>1. /\ p \in Parent /\ p.status = parent.status /\ p.gen = parent.gen
        /\ p.spec = parent.spec /\ p.deleting = parent.deleting
    BY <1>1 DEF Parent
  <2>2. HonestVersion(p)
    BY <1>1, <2>1 DEF HonestVersion
  <2> QED
    BY <1>3, <2>1, <2>2, StoreParentHonest
<1>4. ASSUME NEW o \in Answers, ClearFinalizer(o) \/ AddFinalizer(o)
      PROVE  Goal
  BY <1>2, <1>3, <1>4 DEF ClearFinalizer, AddFinalizer, PatchFinalizer
<1>5. ASSUME NEW o \in Answers, WriteStatus(o)
      PROVE  Goal
  <2> DEFINE p == [parent EXCEPT !.status = res.status]
  <2>1. res \in Parent /\ pc = "status" /\ HonestVersion(res) /\ Knows(res, parent)
    BY <1>5 DEF WriteStatus, TypeOK, HonestInv, WorkerInv, WorkerBehind
  <2>2. /\ p \in Parent /\ p.status = res.status /\ p.gen = parent.gen
        /\ p.spec = parent.spec /\ p.deleting = parent.deleting
    BY <1>1, <2>1 DEF Parent
  <2>3. CASE Current(res)
    <3>1. HonestVersion(p)
      BY <2>1, <2>2, <2>3 DEF HonestVersion, Knows, Current
    <3> QED
      BY <1>2, <1>5, <2>2, <3>1, StoreParentHonest DEF WriteStatus
  <2> QED
    BY <1>2, <1>5, <2>3 DEF WriteStatus
<1>6. CASE EditSpec
  <2>1. PICK spec \in Specs : StoreParent([parent EXCEPT !.spec = spec, !.gen = @ + 1])
    BY <1>6 DEF EditSpec
  <2> DEFINE gen == parent.gen + 1
             p == [parent EXCEPT !.spec = spec, !.gen = gen]
  <2>2. gen \in Nat /\ gen > parent.gen
    BY <1>1
  <2>3. p \in Parent /\ p.status = parent.status /\ p.gen = gen
    <3> HIDE DEF gen
    <3> QED
      BY <1>1, <2>2 DEF Parent
  <2>4. HonestVersion(p)
    <3>1. parent.status.obs <= parent.gen
      BY <1>1 DEF HonestVersion
    <3>2. p.status.obs < p.gen
      BY <1>1, <2>2, <2>3, <3>1
    <3> HIDE DEF p
    <3> QED
      BY <1>1, <2>2, <2>3, <3>2 DEF HonestVersion
  <2> QED
    BY <1>6, <2>1, <2>3, <2>4, StoreParentHonest DEF EditSpec
<1>7. CASE DeleteParent
  <2> DEFINE gen == parent.gen + 1
             p == [parent EXCEPT !.deleting = TRUE, !.gen = gen]
  <2>1. gen \in Nat /\ gen > parent.gen
    BY <1>1
  <2>2. p \in Parent /\ p.status = parent.status /\ p.gen = gen /\ p.deleting
    <3> HIDE DEF gen
    <3> QED
      BY <1>1, <2>1 DEF Parent
  <2>3. HonestVersion(p)
    <3>1. parent.status.obs <= parent.gen
      BY <1>1 DEF HonestVersion
    <3> HIDE DEF p
    <3> QED
      BY <1>1, <2>1, <2>2, <3>1 DEF HonestVersion
  <2> QED
    BY <1>7, <2>2, <2>3, StoreParentHonest DEF DeleteParent
<1>8. CASE ReleaseHold
  <2> DEFINE p == [parent EXCEPT !.held = FALSE]
  <2>1. /\ p \in Parent /\ p.status = parent.status /\ p.gen = parent.gen
        /\ p.spec = parent.spec /\ p.deleting = parent.deleting
    BY <1>1 DEF Parent
  <2>2. HonestVersion(p)
    BY <1>1, <2>1 DEF HonestVersion
  <2> QED
    BY <1>8, <2>1, <2>2, StoreParentHonest DEF ReleaseHold
<1>9. CASE DeliverParent \/ Crash
  <2>1. Versions' \cup {parent'} \subseteq Versions \cup {parent}
    BY <1>9 DEF DeliverParent, Crash, Versions
  <2> QED
    BY <2>1 DEF HonestInv
<1>10. ASSUME NEW n \in Names, NEW o \in Answers,
              DeleteExtra(n, o) \/ CreateChild(n, o) \/ UpdateChild(n, o) \/ DeleteChild(n, o)
       PROVE  Goal
  BY <1>2, <1>10 DEF DeleteExtra, CreateChild, UpdateChild, DeleteChild
<1>11. ASSUME NEW n \in Names, NEW seen \in BOOLEAN, CheckConflict(n, seen)
       PROVE  Goal
  BY <1>2, <1>11 DEF CheckConflict
<1>12. ASSUME NEW o \in Answers, ListChildren(o)
       PROVE  Goal
  BY <1>2, <1>12 DEF ListChildren
<1>13. ASSUME NEW n \in Names,
              Drift(n) \/ Foreign(n) \/ FinishDelete(n) \/ CollectGarbage(n)
       PROVE  Goal
  BY <1>2, <1>13 DEF Drift, Foreign, FinishDelete, CollectGarbage
<1>14. CASE Begin \/ DeliverKids \/ UNCHANGED vars
  BY <1>2, <1>14 DEF Begin, DeliverKids, vars, clusterVars
<1> QED
  BY <1>4, <1>5, <1>6, <1>7, <1>8, <1>9, <1>10, <1>11, <1>12, <1>13, <1>14
  DEF Next, Worker, Others, Environment

\* Every step keeps every version of the status honest.
LEMMA HonestStep ==
  ASSUME TypeOK, WorkerInv, HonestInv, [Next]_vars
  PROVE  HonestInv'
<1>1. \A v \in Versions' \cup {parent'} : HonestVersion(v)
  BY VersionsHonest
<1>2. (pc # "idle" => HonestVersion(res))'
  <2>1. CASE Worker
    BY <2>1, WorkerHonest
  <2>2. CASE UNCHANGED <<pc, res>>
    BY <2>2 DEF HonestInv, HonestVersion
  <2>3. CASE Crash
    BY <2>3 DEF Crash, Rest
  <2> QED
    BY <2>1, <2>2, <2>3 DEF Next, DeliverParent, DeliverKids, Others, vars, workerVars
<1> QED
  BY <1>1, <1>2 DEF HonestInv, HonestVersion

\* Whatever lags, fails or crashes, a status that claims the parent's current
\* generation speaks of the parent's current spec.
THEOREM HonestStatus == Spec => []Honest
<1>1. Init => HonestInv
  BY DEF Init, ClusterInit, HonestInv, HonestVersion, Versions
<1>2. GuardInv /\ HonestInv /\ [Next]_vars => HonestInv'
  BY HonestStep DEF GuardInv, WorkerInv
<1>3. HonestInv => Honest
  BY DEF HonestInv, HonestVersion, Honest
<1> QED
  BY <1>1, <1>2, <1>3, GuardInvariant, PTL DEF Spec

=============================================================================
