--------------------------- MODULE ChildSetProofs ---------------------------
(***************************************************************************)
(* What holds for any number of children of one parent, all specs, setups  *)
(* and disturbances: types, the honesty of the status, the contract of the *)
(* finalizer, and that every child gets settled.                           *)
(***************************************************************************)
EXTENDS ChildSet, WellFoundedInduction, TLAPS

-----------------------------------------------------------------------------
(* Types. *)

Types ==
  /\ setup \in Setups
  /\ parent \in Parent /\ kids \in [Ids -> Kid] /\ env \in [Disturbances -> Nat]
  /\ queued \in BOOLEAN /\ tracked \subseteq Ids
  /\ unseen \subseteq Ids

\* The worker's own variables.
WorkerTypes ==
  /\ pc \in PCs /\ res \in Parent /\ original \in Status
  /\ known \in [Ids -> Kid] /\ todo \subseteq Ids /\ found \in Found /\ failed \in BOOLEAN
  /\ pc \in {"idle", "list"} => found = NothingFound

LEMMA TypesSame == TypeOK <=> Types /\ WorkerTypes
BY DEF TypeOK, Types, WorkerTypes

LEMMA AbsentTypes ==
  /\ Absent \in Kid /\ [i \in Ids |-> Absent] \in [Ids -> Kid]
  /\ NothingFound \in Found
BY DEF Absent, Kid, NothingFound, Found, Reports

LEMMA NobodyType ==
  ASSUME Types
  PROVE  Nobody \in Parent /\ Nobody.status \in Status /\ Nobody.fin = FALSE
<1>1. parent.spec \in Specs  BY DEF Types, Parent
<1>2. (CHOOSE s \in Specs : TRUE) \in Specs  BY <1>1
<1>3. [obs |-> 0, seen |-> NothingFound] \in Status  BY AbsentTypes DEF Status
<1> QED  BY <1>2, <1>3 DEF Nobody, Parent

LEMMA SpendTypes ==
  ASSUME Types, NEW kind \in Disturbances, Spend(kind)
  PROVE  env' \in [Disturbances -> Nat]
BY DEF Types, Spend

LEMMA FateTypes ==
  ASSUME Types, NEW o, Fate(o)
  PROVE  env' \in [Disturbances -> Nat]
<1>1. "faults" \in Disturbances  BY DEF Disturbances
<1> QED  BY <1>1, SpendTypes DEF Fate, Types

LEMMA StoreParentType ==
  ASSUME NEW p \in Parent, Types, StoreParent(p)
  PROVE  parent' \in Parent
<1>1. parent.rv + 1 \in Nat /\ (~p.deleting \/ p.fin) \in BOOLEAN  BY DEF Types, Parent
<1>2. [[p EXCEPT !.rv = parent.rv + 1] EXCEPT !.there = ~p.deleting \/ p.fin] \in Parent
  BY <1>1 DEF Parent
<1> QED  BY <1>2 DEF StoreParent

LEMMA StoreKidType ==
  ASSUME Types, NEW i \in Ids, NEW k \in Kid, StoreKid(i, k)
  PROVE  /\ kids' \in [Ids -> Kid]
         /\ \A j \in Ids \ {i} : kids'[j] = kids[j]
         /\ kids'[i] = [k EXCEPT !.rv = kids[i].rv + 1]
<1>1. kids[i].rv + 1 \in Nat  BY DEF Types, Kid
<1>2. [k EXCEPT !.rv = kids[i].rv + 1] \in Kid  BY <1>1 DEF Kid
<1> QED  BY <1>2 DEF StoreKid, Types

LEMMA DeleteKidType ==
  ASSUME Types, NEW i \in Ids, DeleteKid(i)
  PROVE  /\ kids' \in [Ids -> Kid]
         /\ \A j \in Ids \ {i} : kids'[j] = kids[j]
         /\ ~kids'[i].there \/ kids'[i].deleting
<1>1. CASE ~SlowDelete
  <2>1. StoreKid(i, Absent)  BY <1>1 DEF DeleteKid
  <2>2. [Absent EXCEPT !.rv = kids[i].rv + 1].there = FALSE  BY DEF Absent
  <2> QED  BY <2>1, <2>2, AbsentTypes, StoreKidType
<1>2. CASE SlowDelete /\ kids[i].deleting
  BY <1>2 DEF DeleteKid, Types
<1>3. CASE SlowDelete /\ ~kids[i].deleting
  <2>1. StoreKid(i, [kids[i] EXCEPT !.deleting = TRUE])  BY <1>3 DEF DeleteKid
  <2>2. [kids[i] EXCEPT !.deleting = TRUE] \in Kid  BY DEF Types, Kid
  <2>3. [[kids[i] EXCEPT !.deleting = TRUE] EXCEPT !.rv = kids[i].rv + 1].deleting = TRUE
    BY DEF Types, Kid
  <2> QED  BY <2>1, <2>2, <2>3, StoreKidType
<1> QED  BY <1>1, <1>2, <1>3

-----------------------------------------------------------------------------
(* How a request ends. *)

LEMMA RestTypes ==
  ASSUME Types, NEW wake \in BOOLEAN, Rest(wake)
  PROVE  WorkerTypes' /\ queued' \in BOOLEAN /\ pc' = "idle" /\ res' = Nobody
<1>1. Nobody \in Parent /\ Nobody.status \in Status  BY NobodyType
<1>2. /\ pc' = "idle" /\ res' = Nobody /\ original' = Nobody.status /\ failed' = FALSE
      /\ known' = [i \in Ids |-> Absent] /\ todo' = {} /\ found' = NothingFound
      /\ queued' = (queued \/ wake)
  BY DEF Rest
<1> HIDE DEF Nobody, NothingFound
<1> QED  BY <1>1, <1>2, AbsentTypes DEF WorkerTypes, PCs, Types

LEMMA ConcludeTypes ==
  ASSUME Types, WorkerTypes, NEW r \in Parent, NEW err \in BOOLEAN, NEW wake \in BOOLEAN,
         Conclude(r, err, wake)
  PROVE  /\ WorkerTypes' /\ queued' \in BOOLEAN
         /\ \/ pc' = "status" /\ res' = r /\ ~r.deleting /\ r.status # original
            \/ pc' = "idle" /\ res' = Nobody
<1>1. CASE r.status # original /\ ~r.deleting
  BY <1>1 DEF Conclude, WorkerTypes, Types, PCs
<1>2. CASE ~(r.status # original /\ ~r.deleting)
  <2>1. Rest(wake \/ err)  BY <1>2 DEF Conclude
  <2> QED  BY <2>1, RestTypes
<1> QED  BY <1>1, <1>2

\* The status that is reflected.
Reflected(r, results, err) ==
  [r EXCEPT !.status = [obs |-> IF err THEN r.status.obs ELSE r.gen, seen |-> results]]

LEMMA ReflectTypes ==
  ASSUME Types, WorkerTypes, NEW r \in Parent, NEW results \in Found,
         NEW err \in BOOLEAN, NEW wake \in BOOLEAN, Reflect(r, results, err, wake)
  PROVE  /\ WorkerTypes' /\ queued' \in BOOLEAN
         /\ \/ /\ pc' = "status" /\ res' = Reflected(r, results, err) /\ ~r.deleting
            \/ pc' = "idle" /\ res' = Nobody
<1>1. Reflected(r, results, err) \in Parent
      /\ Reflected(r, results, err).deleting = r.deleting
  BY DEF Reflected, Parent, Status
<1>2. Conclude(Reflected(r, results, err), err, wake)  BY DEF Reflect, Reflected
<1> QED  BY <1>1, <1>2, ConcludeTypes

LEMMA FailTypes ==
  ASSUME Types, WorkerTypes, NEW wake \in BOOLEAN, Fail(wake)
  PROVE  /\ WorkerTypes' /\ queued' \in BOOLEAN
         /\ \/ /\ pc' = "status" /\ res' = Reflected(res, found, TRUE) /\ ~res.deleting
            \/ pc' = "idle" /\ res' = Nobody
BY ReflectTypes DEF Fail, WorkerTypes

LEMMA ProceedTypes ==
  ASSUME Types, WorkerTypes, NEW r \in Parent, NEW ids \in SUBSET Ids, NEW results \in Found,
         NEW wake \in BOOLEAN, Proceed(r, ids, results, wake)
  PROVE  WorkerTypes' /\ queued' \in BOOLEAN
BY DEF Proceed, WorkerTypes, Types, PCs

LEMMA DoneTypes ==
  ASSUME Types, WorkerTypes, NEW i \in Ids, NEW report \in Reports, NEW wake \in BOOLEAN,
         Done(i, report, wake)
  PROVE  WorkerTypes' /\ queued' \in BOOLEAN
<1>1. (IF res.deleting THEN found ELSE [found EXCEPT ![i] = report]) \in Found
  BY DEF WorkerTypes, Found
<1> QED  BY <1>1, ProceedTypes DEF Done, WorkerTypes

LEMMA PatchedTypes ==
  ASSUME Types, WorkerTypes, NEW add \in BOOLEAN
  PROVE  /\ Patched(add) \in Parent /\ Patched(add).fin = add
         /\ Patched(add).deleting = res.deleting /\ Patched(add).spec = res.spec
         /\ Patched(add).status = res.status /\ Patched(add).gen = parent.gen
         /\ Patched(add).rv = parent.rv + 1
<1>1. parent.rv + 1 \in Nat /\ parent.gen \in Nat  BY DEF Types, Parent
<1>2. res \in Parent  BY DEF WorkerTypes
<1>3. Patched(add) \in Parent  BY <1>1, <1>2 DEF Patched, Parent
<1>4. Patched(add).fin = add /\ Patched(add).deleting = res.deleting
  BY <1>2, Zenon DEF Patched, Parent
<1>5. /\ Patched(add).spec = res.spec /\ Patched(add).status = res.status
      /\ Patched(add).gen = parent.gen /\ Patched(add).rv = parent.rv + 1
  BY <1>2 DEF Patched, Parent
<1> QED  BY <1>3, <1>4, <1>5

-----------------------------------------------------------------------------
(* One lemma per action. *)

Typed == Types /\ WorkerTypes

LEMMA Booleans ==
  /\ Woken \in BOOLEAN /\ (parent' # parent) \in BOOLEAN
  /\ TRUE \in BOOLEAN /\ FALSE \in BOOLEAN
BY DEF Woken

LEMMA BeginTypes ==
  ASSUME Typed, Begin
  PROVE  Typed'
<1>1. UNCHANGED <<setup, parent, kids, env, tracked, unseen>> /\ queued' = FALSE
  BY DEF Begin
<1>2. Types'  BY <1>1 DEF Typed, Types
<1>3. CASE UNCHANGED workerVars
  BY <1>2, <1>3 DEF Typed, WorkerTypes, workerVars
<1>4. CASE /\ pc = "idle" /\ pc' = "list" /\ res' = parent /\ original' = parent.status
           /\ UNCHANGED <<known, todo, found, failed>>
  <2>1. parent \in Parent /\ parent.status \in Status  BY DEF Typed, Types, Parent
  <2> QED  BY <1>2, <1>4, <2>1 DEF Typed, WorkerTypes, PCs
<1> QED  BY <1>3, <1>4 DEF Begin

\* The children as they are listed.
Listed == [i \in Ids |-> IF Void(kids[i]) THEN kids[i] ELSE Absent]

LEMMA ListedType ==
  ASSUME Types
  PROVE  Listed \in [Ids -> Kid] /\ Identifiers(kids) \in SUBSET Ids
BY AbsentTypes DEF Listed, Types, Identifiers

LEMMA ComposeTypes ==
  ASSUME Typed, NEW o \in Answers, Compose(o)
  PROVE  Typed'
<1>1. UNCHANGED <<setup, parent, kids, tracked>> /\ env' \in [Disturbances -> Nat]
  BY FateTypes DEF Compose, Typed
<1>2. CASE Conclude(res, TRUE, FALSE) /\ UNCHANGED unseen
  <2>1. WorkerTypes' /\ queued' \in BOOLEAN
    BY <1>2, ConcludeTypes, Booleans DEF Typed, WorkerTypes
  <2> QED  BY <1>1, <1>2, <2>1 DEF Typed, Types
<1>3. CASE /\ known' = Listed /\ unseen' = {} /\ todo' = Identifiers(kids)
           /\ pc' \in {"finalize", "turn"}
           /\ UNCHANGED <<queued, res, original, found, failed>>
  BY <1>1, <1>3, ListedType DEF Typed, Types, WorkerTypes, PCs
<1> QED  BY <1>2, <1>3 DEF Compose, Listed

LEMMA PatchFinalizerTypes ==
  ASSUME Typed, NEW add \in BOOLEAN, NEW o, PatchFinalizer(add, o)
  PROVE  parent' \in Parent /\ env' \in [Disturbances -> Nat]
<1>1. [parent EXCEPT !.fin = add] \in Parent  BY DEF Typed, Types, Parent
<1> QED  BY <1>1, StoreParentType, FateTypes DEF PatchFinalizer, Typed, Types

LEMMA AddFinalizerTypes ==
  ASSUME Typed, NEW o \in Answers, AddFinalizer(o)
  PROVE  Typed'
<1>1. UNCHANGED <<setup, kids, tracked, unseen>> /\ PatchFinalizer(TRUE, o)
  BY DEF AddFinalizer
<1>2. parent' \in Parent /\ env' \in [Disturbances -> Nat]
  BY <1>1, PatchFinalizerTypes
<1>3. WorkerTypes' /\ queued' \in BOOLEAN
  <2>1. CASE Proceed(Patched(TRUE), todo, found, TRUE)
    BY <2>1, PatchedTypes, ProceedTypes DEF Typed, WorkerTypes
  <2>2. CASE Fail(parent' # parent)
    BY <2>2, FailTypes, Booleans DEF Typed
  <2> QED  BY <2>1, <2>2 DEF AddFinalizer
<1> QED  BY <1>1, <1>2, <1>3 DEF Typed, Types

LEMMA ClearFinalizerTypes ==
  ASSUME Typed, NEW o \in Answers, ClearFinalizer(o)
  PROVE  Typed'
<1>1. UNCHANGED <<setup, kids, tracked, unseen>> /\ PatchFinalizer(FALSE, o)
  BY DEF ClearFinalizer
<1>2. parent' \in Parent /\ env' \in [Disturbances -> Nat]
  BY <1>1, PatchFinalizerTypes
<1>3. WorkerTypes' /\ queued' \in BOOLEAN
  <2>1. CASE Reflect(Patched(FALSE), found, FALSE, TRUE)
    BY <2>1, PatchedTypes, ReflectTypes DEF Typed, WorkerTypes
  <2>2. CASE Fail(parent' # parent)
    BY <2>2, FailTypes, Booleans DEF Typed
  <2> QED  BY <2>1, <2>2 DEF ClearFinalizer
<1> QED  BY <1>1, <1>2, <1>3 DEF Typed, Types

LEMMA WriteStatusTypes ==
  ASSUME Typed, NEW o \in Answers, WriteStatus(o)
  PROVE  Typed'
<1>1. UNCHANGED <<setup, kids, tracked, unseen>> /\ env' \in [Disturbances -> Nat]
  BY FateTypes DEF WriteStatus, Typed
<1>2. parent' \in Parent
  <2>1. [parent EXCEPT !.status = res.status] \in Parent
    BY DEF Typed, Types, WorkerTypes, Parent
  <2> QED  BY <2>1, StoreParentType DEF WriteStatus, Typed, Types
<1>3. WorkerTypes' /\ queued' \in BOOLEAN
  <2>1. (failed \/ o # "ok" \/ ~Current(res) \/ parent' # parent) \in BOOLEAN
    BY DEF Typed, WorkerTypes
  <2> QED  BY <2>1, RestTypes DEF WriteStatus, Typed
<1> QED  BY <1>1, <1>2, <1>3 DEF Typed, Types

\* What can be reported of a child.
LEMMA ReportTypes ==
  ASSUME Typed, NEW i \in Ids
  PROVE  /\ {NoChild, "invalid", "conflict", known[i].value} \subseteq Reports
         /\ Desired(i) # NoChild =>
              Desired(i) \in Values /\ Desired(i) \in Reports /\ res.spec \in Sets
              /\ Desired(i) = res.spec[i] /\ ~res.deleting
BY ChildSetAssumption DEF Typed, WorkerTypes, Kid, Reports, Desired

LEMMA LeaveTypes ==
  ASSUME Typed, NEW i \in Ids, Leave(i)
  PROVE  Typed'
<1>1. UNCHANGED <<setup, parent, kids, env, tracked, unseen>> /\ Done(i, known[i].value, FALSE)
  BY DEF Leave
<1>2. WorkerTypes' /\ queued' \in BOOLEAN
  BY <1>1, DoneTypes, ReportTypes, Booleans DEF Typed
<1> QED  BY <1>1, <1>2 DEF Typed, Types

LEMMA SkipTypes ==
  ASSUME Typed, NEW i \in Ids, Skip(i)
  PROVE  Typed'
<1>1. UNCHANGED <<setup, parent, kids, env, tracked, unseen>> /\ Done(i, NoChild, FALSE)
  BY DEF Skip
<1>2. WorkerTypes' /\ queued' \in BOOLEAN
  BY <1>1, DoneTypes, ReportTypes, Booleans DEF Typed
<1> QED  BY <1>1, <1>2 DEF Typed, Types

LEMMA DeleteTypes ==
  ASSUME Typed, NEW i \in Ids, NEW o \in Answers, Delete(i, o)
  PROVE  Typed'
<1>1. UNCHANGED <<setup, parent, tracked, unseen>> /\ env' \in [Disturbances -> Nat]
  BY FateTypes DEF Delete, Typed
<1>2. kids' \in [Ids -> Kid]  BY DeleteKidType DEF Delete, Typed, Types
<1>3. WorkerTypes' /\ queued' \in BOOLEAN
  <2>1. CASE Done(i, NoChild, Woken)
    BY <2>1, DoneTypes, ReportTypes, Booleans DEF Typed
  <2>2. CASE Stop(i, Woken)
    BY <2>2, FailTypes, Booleans DEF Typed, Stop
  <2> QED  BY <2>1, <2>2 DEF Delete
<1> QED  BY <1>1, <1>2, <1>3 DEF Typed, Types

LEMMA CreateTypes ==
  ASSUME Typed, NEW i \in Ids, NEW o \in Answers, Create(i, o)
  PROVE  Typed'
<1> DEFINE want == Desired(i)
           new == [there |-> TRUE, owned |-> ~SkipOwner, marked |-> TRUE, deleting |-> FALSE,
                   value |-> want, rv |-> 0]
<1>1. UNCHANGED <<setup, parent, unseen>> /\ want # NoChild  BY DEF Create
<1>2. want \in Reports /\ want \in Values  BY <1>1, ReportTypes
<1>3. env' \in [Disturbances -> Nat]  BY FateTypes DEF Create, Typed, Types
<1>4. tracked' \subseteq Ids  BY DEF Create, Typed, Types
<1>5. kids' \in [Ids -> Kid]
  <2>1. new \in Kid  BY <1>2 DEF Kid, SkipOwner
  <2>2. UNCHANGED kids \/ StoreKid(i, new)  BY DEF Create
  <2> QED  BY <2>1, <2>2, StoreKidType DEF Typed, Types
<1>6. WorkerTypes' /\ queued' \in BOOLEAN
  <2>1. \/ \E report \in {"invalid", "conflict", want} :
             \E wake \in {FALSE, Woken} : Done(i, report, wake)
        \/ \E wake \in {FALSE, Woken} : Stop(i, wake)
    BY DEF Create
  <2>2. ASSUME NEW report \in {"invalid", "conflict", want}, NEW wake \in {FALSE, Woken},
               Done(i, report, wake)
        PROVE  WorkerTypes' /\ queued' \in BOOLEAN
    BY <1>2, <2>2, DoneTypes, ReportTypes, Booleans DEF Typed
  <2>3. ASSUME NEW wake \in {FALSE, Woken}, Stop(i, wake)
        PROVE  WorkerTypes' /\ queued' \in BOOLEAN
    BY <2>3, FailTypes, Booleans DEF Typed, Stop
  <2> QED  BY <2>1, <2>2, <2>3
<1> QED  BY <1>1, <1>3, <1>4, <1>5, <1>6 DEF Typed, Types

LEMMA UpdateTypes ==
  ASSUME Typed, NEW i \in Ids, NEW o \in Answers, Update(i, o)
  PROVE  Typed'
<1> DEFINE want == Desired(i)
<1>1. UNCHANGED <<setup, parent, unseen>> /\ want # NoChild  BY DEF Update
<1>2. want \in Reports /\ want \in Values  BY <1>1, ReportTypes
<1>3. env' \in [Disturbances -> Nat]  BY FateTypes DEF Update, Typed, Types
<1>4. tracked' \subseteq Ids  BY DEF Update, Typed, Types
<1>5. kids' \in [Ids -> Kid]
  <2>1. [kids[i] EXCEPT !.value = want] \in Kid  BY <1>2 DEF Typed, Types, Kid
  <2>2. UNCHANGED kids \/ StoreKid(i, [kids[i] EXCEPT !.value = want])  BY DEF Update
  <2> QED  BY <2>1, <2>2, StoreKidType DEF Typed, Types
<1>6. WorkerTypes' /\ queued' \in BOOLEAN
  <2>1. \/ \E report \in {"invalid", want} : \E wake \in {FALSE, Woken} : Done(i, report, wake)
        \/ Stop(i, Woken)
    BY DEF Update
  <2>2. ASSUME NEW report \in {"invalid", want}, NEW wake \in {FALSE, Woken},
               Done(i, report, wake)
        PROVE  WorkerTypes' /\ queued' \in BOOLEAN
    BY <1>2, <2>2, DoneTypes, ReportTypes, Booleans DEF Typed
  <2>3. CASE Stop(i, Woken)
    BY <2>3, FailTypes, Booleans DEF Typed, Stop
  <2> QED  BY <2>1, <2>2, <2>3
<1> QED  BY <1>1, <1>3, <1>4, <1>5, <1>6 DEF Typed, Types

LEMMA EndOfTurnsTypes ==
  ASSUME Typed, EndOfTurns
  PROVE  Typed'
<1>1. UNCHANGED <<setup, parent, kids, env, tracked, unseen>>  BY DEF EndOfTurns
<1>2. CASE pc' = "clear" /\ UNCHANGED <<queued, res, original, known, todo, found, failed>>
  BY <1>1, <1>2 DEF Typed, Types, WorkerTypes, PCs
<1>3. CASE Reflect(res, found, FALSE, FALSE)
  <2>1. WorkerTypes' /\ queued' \in BOOLEAN
    BY <1>3, ReflectTypes, Booleans DEF Typed, WorkerTypes
  <2> QED  BY <1>1, <2>1 DEF Typed, Types
<1> QED  BY <1>2, <1>3 DEF EndOfTurns

LEMMA WorkerUnchanged ==
  ASSUME WorkerTypes, UNCHANGED workerVars
  PROVE  WorkerTypes'
BY DEF WorkerTypes, workerVars

LEMMA ParentTypes ==
  ASSUME Typed, EditSpec \/ DeleteParent
  PROVE  Typed'
<1>1. UNCHANGED <<setup, kids, tracked, workerVars, unseen>> /\ queued' = TRUE
  BY DEF EditSpec, DeleteParent
<1>2. env' \in [Disturbances -> Nat]
  BY SpendTypes DEF EditSpec, DeleteParent, Typed, Disturbances
<1>3. parent \in Parent /\ parent.gen + 1 \in Nat  BY DEF Typed, Types, Parent
<1>4. parent' \in Parent
  <2>1. CASE EditSpec
    <3>1. PICK s \in Specs : StoreParent([parent EXCEPT !.spec = s, !.gen = @ + 1])
      BY <2>1 DEF EditSpec
    <3>2. [parent EXCEPT !.spec = s, !.gen = parent.gen + 1] \in Parent
      BY <1>3 DEF Parent
    <3> QED  BY <3>1, <3>2, StoreParentType DEF Typed
  <2>2. CASE DeleteParent
    <3>1. [parent EXCEPT !.deleting = TRUE, !.gen = parent.gen + 1] \in Parent
      BY <1>3 DEF Parent
    <3> QED  BY <2>2, <3>1, StoreParentType DEF Typed, DeleteParent
  <2> QED  BY <2>1, <2>2
<1> QED  BY <1>1, <1>2, <1>4, WorkerUnchanged DEF Typed, Types

LEMMA KidChangesTypes ==
  ASSUME Typed, KidChanges, kids' \in [Ids -> Kid], env' \in [Disturbances -> Nat]
  PROVE  Typed'
<1>1. queued' \in BOOLEAN  BY Booleans DEF KidChanges, Typed, Types
<1>2. unseen' \subseteq Ids  BY DEF KidChanges, Typed, Types
<1> QED  BY <1>1, <1>2, WorkerUnchanged DEF KidChanges, Typed, Types

LEMMA DriftTypes ==
  ASSUME Typed, NEW i \in Ids, Drift(i)
  PROVE  Typed'
<1>1. env' \in [Disturbances -> Nat]  BY SpendTypes DEF Drift, Typed, Disturbances
<1>2. kids' \in [Ids -> Kid]
  <2>1. CASE DeleteKid(i)  BY <2>1, DeleteKidType DEF Typed
  <2>2. CASE \E v \in Values : StoreKid(i, [kids[i] EXCEPT !.value = v])
    <3>1. PICK v \in Values : StoreKid(i, [kids[i] EXCEPT !.value = v])  BY <2>2
    <3>2. [kids[i] EXCEPT !.value = v] \in Kid  BY DEF Typed, Types, Kid
    <3> QED  BY <3>1, <3>2, StoreKidType DEF Typed
  <2> QED  BY <2>1, <2>2 DEF Drift
<1> QED  BY <1>1, <1>2, KidChangesTypes DEF Drift

LEMMA ForeignTypes ==
  ASSUME Typed, NEW i \in Ids, Foreign(i)
  PROVE  Typed'
<1>1. env' \in [Disturbances -> Nat]  BY SpendTypes DEF Foreign, Typed, Disturbances
<1>2. kids' \in [Ids -> Kid]
  <2>1. CASE StoreKid(i, Absent)  BY <2>1, StoreKidType, AbsentTypes DEF Typed
  <2>2. CASE \E v \in Values : StoreKid(i, [Absent EXCEPT !.there = TRUE, !.value = v])
    <3>1. PICK v \in Values : StoreKid(i, [Absent EXCEPT !.there = TRUE, !.value = v])
      BY <2>2
    <3>2. [Absent EXCEPT !.there = TRUE, !.value = v] \in Kid  BY DEF Absent, Kid
    <3> QED  BY <3>1, <3>2, StoreKidType DEF Typed
  <2> QED  BY <2>1, <2>2 DEF Foreign
<1> QED  BY <1>1, <1>2, KidChangesTypes DEF Foreign

LEMMA ClusterTypes ==
  ASSUME Typed, NEW i \in Ids, FinishDelete(i) \/ CollectGarbage(i)
  PROVE  Typed'
<1>1. KidChanges /\ UNCHANGED env  BY DEF FinishDelete, CollectGarbage
<1>2. kids' \in [Ids -> Kid]
  BY StoreKidType, DeleteKidType, AbsentTypes DEF FinishDelete, CollectGarbage, Typed
<1> QED  BY <1>1, <1>2, KidChangesTypes DEF Typed, Types

LEMMA CrashTypes ==
  ASSUME Typed, Crash
  PROVE  Typed'
<1>1. UNCHANGED <<setup, parent, kids, unseen>> /\ tracked' = {} /\ Rest(TRUE)  BY DEF Crash
<1>2. env' \in [Disturbances -> Nat]  BY SpendTypes DEF Crash, Typed, Disturbances
<1>3. WorkerTypes' /\ queued' \in BOOLEAN  BY <1>1, RestTypes, Booleans DEF Typed
<1> QED  BY <1>1, <1>2, <1>3 DEF Typed, Types

LEMMA InitTypes ==
  ASSUME Init
  PROVE  Typed
<1>1. PICK s \in Specs :
        parent = [there |-> TRUE, deleting |-> FALSE, fin |-> FALSE, spec |-> s,
                  gen |-> 1, rv |-> 1, status |-> [obs |-> 0, seen |-> NothingFound]]
  BY DEF Init
<1>2. [obs |-> 0, seen |-> NothingFound] \in Status  BY AbsentTypes DEF Status
<1>3. parent \in Parent  BY <1>1, <1>2 DEF Parent
<1>4. kids \in [Ids -> Kid] /\ known \in [Ids -> Kid] /\ found \in Found
  BY AbsentTypes DEF Init
<1>5. Types  BY <1>3, <1>4, ChildSetAssumption DEF Init, Types
<1>6. Nobody \in Parent /\ Nobody.status \in Status  BY <1>5, NobodyType
<1>7. WorkerTypes  BY <1>4, <1>6 DEF Init, WorkerTypes, PCs
<1> QED  BY <1>5, <1>7 DEF Typed

LEMMA NextTypes ==
  ASSUME Typed, [Next]_vars
  PROVE  Typed'
<1>1. CASE Worker
  BY <1>1, BeginTypes, EndOfTurnsTypes, ComposeTypes, AddFinalizerTypes, ClearFinalizerTypes,
     WriteStatusTypes, DeleteTypes, CreateTypes, UpdateTypes, LeaveTypes, SkipTypes DEF Worker
<1>2. CASE Others
  BY <1>2, ParentTypes, CrashTypes, DriftTypes, ForeignTypes, ClusterTypes DEF Others
<1>3. CASE UNCHANGED vars
  BY <1>3, WorkerUnchanged DEF vars, Typed, Types
<1> QED  BY <1>1, <1>2, <1>3 DEF Next

\* Parent, children and worker keep their types, for any number of children, and
\* nothing is left of the partial results when a request is over.
THEOREM ChildSetTypeCorrect == Spec => []TypeOK
<1>1. Init => Typed  BY InitTypes
<1>2. Typed /\ [Next]_vars => Typed'  BY NextTypes
<1>3. Typed => TypeOK  BY TypesSame DEF Typed
<1> QED  BY <1>1, <1>2, <1>3, PTL DEF Spec

-----------------------------------------------------------------------------
(* The status is honest. *)

Shows(spec, seen) ==
  spec \in Sets => \A i \in Ids : seen[i] \in {spec[i], NoChild, "conflict", "invalid"}

HonestParent(p) ==
  p.status.obs <= p.gen /\ (p.status.obs = p.gen => Shows(p.spec, p.status.seen))

\* The worker holds an older version, or this one.
Behind(p, r) == r.rv <= p.rv /\ (r.rv = p.rv => r.gen = p.gen /\ r.spec = p.spec)

\* Every version is honest about its own generation, also the one the worker is
\* about to write, and what it has found belongs to the spec it has read.
HonestInv ==
  /\ HonestParent(parent)
  /\ pc # "idle" => Behind(parent, res) /\ HonestParent(res)
  /\ pc \notin {"idle", "status"} => Shows(res.spec, found)

LEMMA NothingShown == \A spec : Shows(spec, NothingFound)
BY DEF Shows, NothingFound

LEMMA HonestImplied == HonestInv => Honest
BY DEF HonestInv, HonestParent, Shows, Honest

LEMMA ReflectedHonest ==
  ASSUME NEW r \in Parent, NEW results \in Found, NEW err \in BOOLEAN,
         HonestParent(r), Shows(r.spec, results)
  PROVE  /\ HonestParent(Reflected(r, results, err))
         /\ \A p : Behind(p, r) => Behind(p, Reflected(r, results, err))
<1> DEFINE new == Reflected(r, results, err)
<1>1. /\ new.gen = r.gen /\ new.rv = r.rv /\ new.spec = r.spec
      /\ new.status = [obs |-> IF err THEN r.status.obs ELSE r.gen, seen |-> results]
  BY DEF Reflected, Parent
<1>2. r.gen \in Nat /\ r.status.obs \in Nat  BY DEF Parent, Status
<1> HIDE DEF new
<1>3. HonestParent(new)  BY <1>1, <1>2 DEF HonestParent
<1>4. \A p : Behind(p, r) => Behind(p, new)  BY <1>1 DEF Behind
<1> QED  BY <1>3, <1>4 DEF new

\* A write of the parent leaves every reader behind.
LEMMA LeftBehind ==
  ASSUME Typed, NEW r \in Parent, Behind(parent, r), NEW q \in Parent, q.rv = parent.rv + 1
  PROVE  Behind(q, r)
BY DEF Behind, Typed, Types, Parent

LEMMA StoredParent ==
  ASSUME Typed, NEW p \in Parent, StoreParent(p)
  PROVE  /\ parent' \in Parent /\ parent'.rv = parent.rv + 1
         /\ parent'.gen = p.gen /\ parent'.spec = p.spec /\ parent'.status = p.status
         /\ parent'.deleting = p.deleting
BY StoreParentType DEF StoreParent, Parent, Typed

\* The patch of the finalizer.
LEMMA PatchHonest ==
  ASSUME Typed, HonestInv, pc # "idle", NEW add \in BOOLEAN, NEW o, PatchFinalizer(add, o)
  PROVE  /\ parent' \in Parent /\ HonestParent(parent') /\ Behind(parent', res)
         /\ o # "rejected" /\ Current(res) =>
              Behind(parent', Patched(add)) /\ HonestParent(Patched(add))
<1>1. CASE o # "rejected" /\ Current(res)
  <2>1. [parent EXCEPT !.fin = add] \in Parent  BY DEF Typed, Types, Parent
  <2>2. StoreParent([parent EXCEPT !.fin = add])  BY <1>1 DEF PatchFinalizer
  <2>3. /\ parent' \in Parent /\ parent'.rv = parent.rv + 1
        /\ parent'.gen = parent.gen /\ parent'.spec = parent.spec
        /\ parent'.status = parent.status
    BY <2>1, <2>2, StoredParent DEF Typed, Types, Parent
  <2>4. HonestParent(parent')  BY <2>3 DEF HonestInv, HonestParent
  <2>5. Behind(parent', res)  BY <2>3, LeftBehind DEF HonestInv, Typed, WorkerTypes
  <2>6. res.gen = parent.gen /\ res.spec = parent.spec
    BY <1>1 DEF Current, HonestInv, Behind
  <2>7. /\ Patched(add).rv = parent.rv + 1 /\ Patched(add).gen = parent.gen
        /\ Patched(add).spec = res.spec /\ Patched(add).status = res.status
    BY PatchedTypes DEF Typed
  <2>8. Behind(parent', Patched(add))
    BY <2>3, <2>6, <2>7 DEF Behind, Typed, Types, Parent
  <2>9. HonestParent(Patched(add))  BY <2>6, <2>7 DEF HonestInv, HonestParent
  <2> QED  BY <2>3, <2>4, <2>5, <2>8, <2>9
<1>2. CASE ~(o # "rejected" /\ Current(res))
  BY <1>2 DEF PatchFinalizer, HonestInv, Typed, Types
<1> QED  BY <1>1, <1>2

\* However a request ends, what it is about to write is honest.
LEMMA ReflectHonest ==
  ASSUME Typed, NEW r \in Parent, HonestParent(r), Behind(parent', r),
         Shows(r.spec, found), HonestParent(parent'), NEW err \in BOOLEAN, NEW wake \in BOOLEAN,
         Reflect(r, found, err, wake)
  PROVE  HonestInv'
<1>1. found \in Found  BY DEF Typed, WorkerTypes
<1>2. \/ pc' = "status" /\ res' = Reflected(r, found, err)
      \/ pc' = "idle"
  BY <1>1, ReflectTypes DEF Typed
<1>3. HonestParent(Reflected(r, found, err)) /\ Behind(parent', Reflected(r, found, err))
  BY <1>1, ReflectedHonest
<1>4. HonestParent(parent)'  BY DEF HonestParent
<1>5. pc' = "status" => (Behind(parent, res) /\ HonestParent(res))'
  BY <1>2, <1>3 DEF Behind, HonestParent
<1> QED  BY <1>2, <1>4, <1>5 DEF HonestInv

LEMMA BeginHonest ==
  ASSUME Typed, HonestInv, Begin
  PROVE  HonestInv'
<1>1. UNCHANGED parent  BY DEF Begin
<1>2. CASE UNCHANGED workerVars
  BY <1>1, <1>2 DEF HonestInv, HonestParent, Behind, Shows, workerVars
<1>3. CASE pc = "idle" /\ pc' = "list" /\ res' = parent /\ UNCHANGED found
  <2>1. Behind(parent, res)' /\ HonestParent(parent)' /\ HonestParent(res)'
    BY <1>1, <1>3 DEF HonestInv, HonestParent, Shows, Behind, Typed, Types, Parent
  <2>2. found' = NothingFound  BY <1>3 DEF Typed, WorkerTypes
  <2>3. Shows(res.spec, found)'  BY <2>2, NothingShown DEF Shows
  <2> QED  BY <1>3, <2>1, <2>3 DEF HonestInv
<1> QED  BY <1>2, <1>3 DEF Begin

LEMMA ComposeHonest ==
  ASSUME Typed, HonestInv, NEW o \in Answers, Compose(o)
  PROVE  HonestInv'
<1>1. UNCHANGED parent /\ pc = "list"  BY DEF Compose
<1>2. CASE Conclude(res, TRUE, FALSE)
  <2>1. (pc' = "status" /\ res' = res) \/ pc' = "idle"
    BY <1>2, ConcludeTypes, Booleans DEF Typed, WorkerTypes
  <2> QED  BY <1>1, <2>1 DEF HonestInv, HonestParent, Behind, Shows
<1>3. CASE UNCHANGED <<res, found>>
  BY <1>1, <1>3 DEF HonestInv, HonestParent, Behind, Shows
<1> QED  BY <1>2, <1>3 DEF Compose

LEMMA FinalizerHonest ==
  ASSUME Typed, HonestInv, NEW o \in Answers, AddFinalizer(o) \/ ClearFinalizer(o)
  PROVE  HonestInv'
<1>1. pc \in {"finalize", "clear"}  BY DEF AddFinalizer, ClearFinalizer
<1>2. PICK add \in BOOLEAN :
        /\ PatchFinalizer(add, o)
        /\ \/ /\ o = "ok" /\ Current(res)
              /\ \/ Proceed(Patched(add), todo, found, TRUE)
                 \/ Reflect(Patched(add), found, FALSE, TRUE)
           \/ Fail(parent' # parent)
  BY DEF AddFinalizer, ClearFinalizer
<1>3. /\ parent' \in Parent /\ HonestParent(parent') /\ Behind(parent', res)
      /\ o # "rejected" /\ Current(res) =>
           Behind(parent', Patched(add)) /\ HonestParent(Patched(add))
  BY <1>1, <1>2, PatchHonest
<1>4. /\ Patched(add) \in Parent /\ Patched(add).spec = res.spec
      /\ Shows(res.spec, found) /\ HonestParent(res) /\ res \in Parent
  BY <1>1, PatchedTypes DEF Typed, HonestInv, WorkerTypes
<1>5. CASE o = "ok" /\ Current(res) /\ Proceed(Patched(add), todo, found, TRUE)
  <2>1. pc' = "turn" /\ res' = Patched(add) /\ found' = found  BY <1>5 DEF Proceed
  <2>2. Behind(parent', Patched(add)) /\ HonestParent(Patched(add))  BY <1>3, <1>5
  <2>3. HonestParent(parent)' /\ Behind(parent, res)' /\ HonestParent(res)'
    BY <1>3, <2>1, <2>2 DEF HonestParent, Behind
  <2>4. Shows(res.spec, found)'  BY <1>4, <2>1 DEF Shows
  <2> QED  BY <2>1, <2>3, <2>4 DEF HonestInv
<1>6. CASE o = "ok" /\ Current(res) /\ Reflect(Patched(add), found, FALSE, TRUE)
  BY <1>3, <1>4, <1>6, ReflectHonest, Booleans
<1>7. CASE Fail(parent' # parent)
  BY <1>3, <1>4, <1>7, ReflectHonest, Booleans DEF Fail
<1> QED  BY <1>2, <1>5, <1>6, <1>7

LEMMA WriteStatusHonest ==
  ASSUME Typed, HonestInv, NEW o \in Answers, WriteStatus(o)
  PROVE  HonestInv'
<1>1. pc' = "idle"  BY DEF WriteStatus, Rest
<1>2. CASE UNCHANGED parent  BY <1>1, <1>2 DEF HonestInv, HonestParent, Shows
<1>3. CASE Current(res) /\ StoreParent([parent EXCEPT !.status = res.status])
  <2>1. [parent EXCEPT !.status = res.status] \in Parent
    BY DEF Typed, Types, WorkerTypes, Parent
  <2>2. parent'.gen = parent.gen /\ parent'.spec = parent.spec /\ parent'.status = res.status
    BY <1>3, <2>1, StoredParent DEF Typed, Types, Parent
  <2>3. res.gen = parent.gen /\ res.spec = parent.spec /\ HonestParent(res)
    BY <1>3 DEF Current, HonestInv, Behind, WriteStatus
  <2>4. HonestParent(parent)'  BY <2>2, <2>3 DEF HonestParent, Shows
  <2> QED  BY <1>1, <2>4 DEF HonestInv
<1> QED  BY <1>2, <1>3 DEF WriteStatus

\* What a ChildReconciler reports of its child.
LEMMA DoneHonest ==
  ASSUME Typed, HonestInv, pc = "turn", UNCHANGED parent, NEW i \in Ids, NEW report \in Reports,
         res.spec \in Sets => report \in {res.spec[i], NoChild, "conflict", "invalid"},
         NEW wake \in BOOLEAN, Done(i, report, wake)
  PROVE  HonestInv'
<1>1. /\ pc' = "turn" /\ res' = res
      /\ found' = IF res.deleting THEN found ELSE [found EXCEPT ![i] = report]
  BY DEF Done, Proceed
<1>2. Shows(res.spec, found)'
  <2>1. Shows(res.spec, found)  BY DEF HonestInv
  <2>2. found \in [Ids -> Reports]  BY DEF Typed, WorkerTypes, Found
  <2> QED  BY <1>1, <2>1, <2>2 DEF Shows
<1>3. HonestParent(parent)' /\ Behind(parent, res)' /\ HonestParent(res)'
  BY <1>1 DEF HonestInv, HonestParent, Behind, Shows
<1> QED  BY <1>1, <1>2, <1>3 DEF HonestInv

LEMMA StopHonest ==
  ASSUME Typed, HonestInv, pc = "turn", UNCHANGED parent, NEW i, NEW wake \in BOOLEAN, Stop(i, wake)
  PROVE  HonestInv'
<1>1. /\ res \in Parent /\ HonestParent(res) /\ Behind(parent', res) /\ Shows(res.spec, found)
      /\ HonestParent(parent')
  BY DEF Typed, WorkerTypes, HonestInv
<1> QED  BY <1>1, ReflectHonest, Booleans DEF Stop, Fail

LEMMA TurnHonest ==
  ASSUME Typed, HonestInv, NEW i \in Ids,
         \/ Leave(i) \/ Skip(i)
         \/ \E o \in Answers : Delete(i, o) \/ Create(i, o) \/ Update(i, o)
  PROVE  HonestInv'
<1>1. pc = "turn" /\ UNCHANGED parent
  BY DEF Leave, Skip, Unwanted, Delete, Create, Update, Turn
<1>2. \/ res.spec \in Paused /\ Done(i, known[i].value, FALSE)
      \/ \E wake \in {FALSE, Woken} :
           \/ \E report \in {NoChild, "invalid", "conflict"} : Done(i, report, wake)
           \/ Desired(i) # NoChild /\ Done(i, Desired(i), wake)
           \/ Stop(i, wake)
  BY DEF Leave, Skip, Delete, Create, Update
<1>3. CASE res.spec \in Paused /\ Done(i, known[i].value, FALSE)
  <2>1. res.spec \notin Sets  BY <1>3, ChildSetAssumption
  <2> QED  BY <1>1, <1>3, <2>1, ReportTypes, DoneHonest, Booleans
<1>4. ASSUME NEW wake \in {FALSE, Woken}, NEW report \in {NoChild, "invalid", "conflict"},
             Done(i, report, wake)
      PROVE  HonestInv'
  BY <1>1, <1>4, ReportTypes, DoneHonest, Booleans
<1>5. ASSUME NEW wake \in {FALSE, Woken}, Desired(i) # NoChild, Done(i, Desired(i), wake)
      PROVE  HonestInv'
  BY <1>1, <1>5, ReportTypes, DoneHonest, Booleans
<1>6. ASSUME NEW wake \in {FALSE, Woken}, Stop(i, wake)
      PROVE  HonestInv'
  BY <1>1, <1>6, StopHonest, Booleans
<1> QED  BY <1>2, <1>3, <1>4, <1>5, <1>6

LEMMA EndOfTurnsHonest ==
  ASSUME Typed, HonestInv, EndOfTurns
  PROVE  HonestInv'
<1>1. UNCHANGED parent /\ pc = "turn"  BY DEF EndOfTurns
<1>2. CASE UNCHANGED <<res, found>> /\ pc' = "clear"
  BY <1>1, <1>2 DEF HonestInv, HonestParent, Behind, Shows
<1>3. CASE Reflect(res, found, FALSE, FALSE)
  <2>1. /\ res \in Parent /\ HonestParent(res) /\ Behind(parent', res) /\ Shows(res.spec, found)
        /\ HonestParent(parent')
    BY <1>1 DEF Typed, WorkerTypes, HonestInv
  <2> QED  BY <1>3, <2>1, ReflectHonest, Booleans
<1> QED  BY <1>2, <1>3 DEF EndOfTurns

\* A new generation has not been observed.
LEMMA ParentHonest ==
  ASSUME Typed, HonestInv, EditSpec \/ DeleteParent
  PROVE  HonestInv'
<1>1. UNCHANGED workerVars  BY DEF EditSpec, DeleteParent
<1>2. /\ parent \in Parent /\ parent.gen + 1 \in Nat /\ parent.gen \in Nat
      /\ parent.status.obs \in Nat
  BY DEF Typed, Types, Parent, Status
<1>3. PICK p \in Parent : /\ StoreParent(p) /\ p.gen = parent.gen + 1
                          /\ p.status = parent.status
  <2>1. CASE EditSpec
    <3>1. PICK s \in Specs : StoreParent([parent EXCEPT !.spec = s, !.gen = @ + 1])
      BY <2>1 DEF EditSpec
    <3> DEFINE p == [parent EXCEPT !.spec = s, !.gen = parent.gen + 1]
    <3>2. p \in Parent /\ p.gen = parent.gen + 1 /\ p.status = parent.status
      BY <1>2 DEF Parent
    <3> HIDE DEF p
    <3>3. StoreParent(p)  BY <3>1 DEF p
    <3> QED  BY <3>2, <3>3
  <2>2. CASE DeleteParent
    <3> DEFINE p == [parent EXCEPT !.deleting = TRUE, !.gen = parent.gen + 1]
    <3>1. StoreParent(p)  BY <2>2 DEF DeleteParent
    <3>2. p \in Parent /\ p.gen = parent.gen + 1 /\ p.status = parent.status
      BY <1>2 DEF Parent
    <3> HIDE DEF p
    <3> QED  BY <3>1, <3>2
  <2> QED  BY <2>1, <2>2
<1>4. /\ parent' \in Parent /\ parent'.rv = parent.rv + 1 /\ parent'.gen = parent.gen + 1
      /\ parent'.status = parent.status
  BY <1>3, StoredParent
<1>5. HonestParent(parent)'  BY <1>2, <1>4 DEF HonestInv, HonestParent
<1>6. pc # "idle" => Behind(parent', res)
  BY <1>4, LeftBehind DEF HonestInv, Typed, WorkerTypes
<1> QED  BY <1>1, <1>5, <1>6 DEF HonestInv, HonestParent, Behind, Shows, workerVars

LEMMA NextHonest ==
  ASSUME Typed, HonestInv, [Next]_vars
  PROVE  HonestInv'
<1>1. CASE Worker
  BY <1>1, BeginHonest, ComposeHonest, FinalizerHonest, WriteStatusHonest, TurnHonest,
     EndOfTurnsHonest DEF Worker
<1>2. CASE UNCHANGED parent /\ UNCHANGED workerVars
  BY <1>2 DEF HonestInv, HonestParent, Behind, Shows, workerVars
<1>3. CASE Crash
  BY <1>3 DEF Crash, Rest, HonestInv, HonestParent, Shows
<1>4. CASE EditSpec \/ DeleteParent  BY <1>4, ParentHonest
<1> QED
  BY <1>1, <1>2, <1>3, <1>4
     DEF Next, Others, Drift, Foreign, FinishDelete, CollectGarbage, KidChanges, vars, workerVars

\* What the status shows of any child, under the generation it claims, comes from
\* the current spec, however many children there are and whichever of them fail
\* (reflectStatus after errors, partial results, the generation ensureFinalizer takes).
THEOREM ChildSetHonest == Spec => []Honest
<1>1. Init => HonestInv
  BY NothingShown DEF Init, HonestInv, HonestParent
<1>2. Init => Typed  BY InitTypes
<1>3. Typed /\ HonestInv /\ [Next]_vars => Typed' /\ HonestInv'  BY NextTypes, NextHonest
<1> QED  BY <1>1, <1>2, <1>3, HonestImplied, PTL DEF Spec

-----------------------------------------------------------------------------
(* One finalizer for all children. *)

\* As ChildReconciler does, ChildSetReconciler keeps what it promises only if a
\* Finalizer comes together with SkipOwnerReference.
FinalizerSkips == \A s \in Setups : s.finalizer => s.skip

\* The worker's finalizer is the parent's; once it deletes, what is left of the
\* children is known to it and still to be deleted.
GuardInv ==
  /\ parent.fin => parent.there
  /\ res.fin => parent.fin
  /\ pc = "finalize" => setup.finalizer /\ ~res.deleting
  /\ pc = "turn" /\ setup.finalizer /\ ~res.deleting => res.fin
  /\ pc = "clear" => setup.finalizer /\ res.deleting /\ todo = {}
  /\ pc \in {"turn", "clear"} /\ setup.finalizer /\ res.deleting =>
       \A i \in Live : i \in todo /\ known[i].there /\ ~known[i].deleting

LEMMA LiveDef ==
  /\ Live \subseteq Ids
  /\ \A i \in Ids : i \in Live <=> OurChild(kids[i]) /\ ~kids[i].deleting
  /\ Live' \subseteq Ids
  /\ \A i \in Ids : i \in Live' <=> (OurChild(kids[i]))' /\ ~kids'[i].deleting
BY DEF Live

\* A write that keeps the marks of a child.
LEMMA KeptMarks ==
  ASSUME Types, UNCHANGED setup, NEW i \in Ids, NEW v, StoreKid(i, [kids[i] EXCEPT !.value = v]),
         v \in Values \cup {NoChild}
  PROVE  Live' = Live
<1>1. [kids[i] EXCEPT !.value = v] \in Kid  BY DEF Types, Kid
<1>2. /\ \A j \in Ids \ {i} : kids'[j] = kids[j]
      /\ kids'[i] = [[kids[i] EXCEPT !.value = v] EXCEPT !.rv = kids[i].rv + 1]
  BY <1>1, StoreKidType
<1>3. /\ kids'[i].there = kids[i].there /\ kids'[i].owned = kids[i].owned
      /\ kids'[i].marked = kids[i].marked /\ kids'[i].deleting = kids[i].deleting
  BY <1>2 DEF Types, Kid
<1> QED  BY <1>2, <1>3, LiveDef DEF OurChild, SkipOwner

LEMMA DeletedKid ==
  ASSUME Types, UNCHANGED setup, NEW i \in Ids, DeleteKid(i)
  PROVE  Live' = Live \ {i}
<1>1. /\ \A j \in Ids \ {i} : kids'[j] = kids[j]
      /\ ~kids'[i].there \/ kids'[i].deleting
  BY DeleteKidType
<1> QED  BY <1>1, LiveDef DEF OurChild, SkipOwner

\* A name that is freed, or taken by somebody else.
LEMMA NoneOfOurs ==
  ASSUME Types, UNCHANGED setup, NEW i \in Ids, NEW k \in Kid, ~k.marked, StoreKid(i, k)
  PROVE  Live' = Live \ {i}
<1>1. /\ \A j \in Ids \ {i} : kids'[j] = kids[j]
      /\ kids'[i] = [k EXCEPT !.rv = kids[i].rv + 1]
  BY StoreKidType
<1>2. kids'[i].marked = k.marked  BY <1>1 DEF Kid
<1> QED  BY <1>1, <1>2, LiveDef DEF OurChild, SkipOwner

LEMMA SetupKept == [Next]_vars => UNCHANGED setup
<1> SUFFICES ASSUME [Next]_vars PROVE UNCHANGED setup
  OBVIOUS
<1>1. CASE Others
  BY <1>1 DEF Others, EditSpec, DeleteParent, Crash, Drift, Foreign, FinishDelete,
              CollectGarbage, KidChanges
<1>2. CASE Worker
  <2>1. CASE Begin \/ EndOfTurns  BY <2>1 DEF Begin, EndOfTurns
  <2>2. ASSUME NEW o \in Answers,
               Compose(o) \/ AddFinalizer(o) \/ ClearFinalizer(o) \/ WriteStatus(o)
        PROVE  UNCHANGED setup
    BY <2>2 DEF Compose, AddFinalizer, ClearFinalizer, WriteStatus
  <2>3. ASSUME NEW o \in Answers, NEW i \in Ids, Delete(i, o) \/ Create(i, o) \/ Update(i, o)
        PROVE  UNCHANGED setup
    BY <2>3 DEF Delete, Create, Update
  <2>4. ASSUME NEW i \in Ids, Leave(i) \/ Skip(i) PROVE UNCHANGED setup
    BY <2>4 DEF Leave, Skip
  <2> QED  BY <1>2, <2>1, <2>2, <2>3, <2>4 DEF Worker
<1>3. CASE UNCHANGED vars  BY <1>3 DEF vars
<1> QED  BY <1>1, <1>2, <1>3 DEF Next

\* Only the worker's create adds a child.
LEMMA LiveStep ==
  ASSUME Typed, [Next]_vars
  PROVE  \/ \E i \in Ids : Live' = Live \ {i}
         \/ Live' = Live
         \/ \E i \in Ids : /\ pc = "turn" /\ ~res.deleting /\ UNCHANGED parent
                           /\ Live' = Live \cup {i}
<1>1. UNCHANGED setup  BY SetupKept
<1>2. CASE UNCHANGED kids  BY <1>1, <1>2 DEF Live, OurChild, SkipOwner
<1>3. ASSUME NEW i \in Ids, NEW o \in Answers, Delete(i, o)
      PROVE  Live' = Live \ {i} \/ UNCHANGED kids
  BY <1>1, <1>3, DeletedKid DEF Delete, Typed
<1>4. ASSUME NEW i \in Ids, NEW o \in Answers, Create(i, o)
      PROVE  \/ UNCHANGED kids
             \/ pc = "turn" /\ ~res.deleting /\ UNCHANGED parent /\ Live' = Live \cup {i}
             \/ Live' = Live
  <2> DEFINE new == [there |-> TRUE, owned |-> ~SkipOwner, marked |-> TRUE, deleting |-> FALSE,
                     value |-> Desired(i), rv |-> 0]
  <2>1. pc = "turn" /\ UNCHANGED parent /\ Desired(i) # NoChild  BY <1>4 DEF Create, Turn
  <2>2. ~res.deleting /\ Desired(i) \in Values  BY <2>1, ReportTypes
  <2>3. new \in Kid  BY <2>2 DEF Kid, SkipOwner
  <2>4. UNCHANGED kids \/ (~kids[i].there /\ StoreKid(i, new))  BY <1>4 DEF Create
  <2>5. CASE ~kids[i].there /\ StoreKid(i, new)
    <3>1. \A j \in Ids \ {i} : kids'[j] = kids[j]
      BY <2>3, <2>5, StoreKidType DEF Typed
    <3>2. \A j \in Ids \ {i} : j \in Live' <=> j \in Live
      BY <1>1, <3>1, LiveDef DEF OurChild, SkipOwner
    <3>3. i \notin Live  BY <2>5, LiveDef DEF OurChild
    <3>4. Live' = Live \/ Live' = Live \cup {i}  BY <3>2, <3>3, LiveDef
    <3> QED  BY <2>1, <2>2, <3>4
  <2> QED  BY <2>4, <2>5
<1>5. ASSUME NEW i \in Ids, NEW o \in Answers, Update(i, o)
      PROVE  Live' = Live \/ UNCHANGED kids
  <2>1. Desired(i) \in Values  BY <1>5, ReportTypes DEF Update
  <2> QED  BY <1>1, <1>5, <2>1, KeptMarks DEF Update, Typed
<1>6. ASSUME NEW i \in Ids, Drift(i)
      PROVE  Live' = Live \/ Live' = Live \ {i}
  BY <1>1, <1>6, DeletedKid, KeptMarks DEF Drift, Typed
<1>7. ASSUME NEW i \in Ids, Foreign(i)
      PROVE  Live' = Live \ {i}
  <2>1. Absent \in Kid /\ ~Absent.marked  BY AbsentTypes DEF Absent
  <2>2. ASSUME NEW v \in Values PROVE
          /\ [Absent EXCEPT !.there = TRUE, !.value = v] \in Kid
          /\ ~[Absent EXCEPT !.there = TRUE, !.value = v].marked
    BY DEF Absent, Kid
  <2> QED  BY <1>1, <1>7, <2>1, <2>2, NoneOfOurs DEF Foreign, Typed
<1>8. ASSUME NEW i \in Ids, FinishDelete(i) \/ CollectGarbage(i)
      PROVE  Live' = Live \ {i}
  <2>1. Absent \in Kid /\ ~Absent.marked  BY AbsentTypes DEF Absent
  <2> QED  BY <1>1, <1>8, <2>1, NoneOfOurs, DeletedKid DEF FinishDelete, CollectGarbage, Typed
<1> QED
  BY <1>2, <1>3, <1>4, <1>5, <1>6, <1>7, <1>8
     DEF Next, Worker, Others, Begin, EndOfTurns, Compose, AddFinalizer, ClearFinalizer,
         WriteStatus, Leave, Skip, EditSpec, DeleteParent, Crash, vars

\* Storing a parent keeps its finalizer as it is written.
LEMMA StoredFinalizer ==
  ASSUME Typed, NEW p \in Parent, StoreParent(p)
  PROVE  parent'.fin = p.fin /\ (parent'.fin => parent'.there)
<1>1. parent.rv + 1 \in Nat  BY DEF Typed, Types, Parent
<1>2. parent'.fin = p.fin  BY <1>1, Zenon DEF StoreParent, Parent
<1>3. parent'.there = (~p.deleting \/ p.fin)  BY <1>1, Zenon DEF StoreParent, Parent
<1> QED  BY <1>2, <1>3

LEMMA KeepsFinalizer ==
  ASSUME Typed, EditSpec \/ DeleteParent
  PROVE  parent'.fin = parent.fin /\ (parent'.fin => parent'.there)
<1>1. parent \in Parent /\ parent.gen + 1 \in Nat  BY DEF Typed, Types, Parent
<1>2. PICK p \in Parent : p.fin = parent.fin /\ StoreParent(p)
  <2>1. CASE EditSpec
    <3>1. PICK s \in Specs : StoreParent([parent EXCEPT !.spec = s, !.gen = @ + 1])
      BY <2>1 DEF EditSpec
    <3> DEFINE p == [parent EXCEPT !.spec = s, !.gen = parent.gen + 1]
    <3>2. p \in Parent /\ p.fin = parent.fin  BY <1>1 DEF Parent
    <3>3. StoreParent(p)  BY <3>1
    <3> HIDE DEF p
    <3> QED  BY <3>2, <3>3
  <2>2. CASE DeleteParent
    <3> DEFINE p == [parent EXCEPT !.deleting = TRUE, !.gen = parent.gen + 1]
    <3>1. StoreParent(p)  BY <2>2 DEF DeleteParent
    <3>2. p \in Parent /\ p.fin = parent.fin  BY <1>1 DEF Parent
    <3> HIDE DEF p
    <3> QED  BY <3>1, <3>2
  <2> QED  BY <2>1, <2>2
<1> QED  BY <1>2, StoredFinalizer

\* What happens to the parent.
LEMMA ParentStep ==
  ASSUME Typed, GuardInv, [Next]_vars
  PROVE  \/ UNCHANGED parent
         \/ /\ parent.there /\ UNCHANGED <<kids, setup>>
            /\ parent'.fin => parent'.there
            /\ parent.fin /\ ~parent'.fin => pc = "clear"
<1>2. ASSUME NEW p \in Parent, StoreParent(p), p.fin = parent.fin, parent.there,
             UNCHANGED <<kids, setup>>
      PROVE  /\ parent.there /\ UNCHANGED <<kids, setup>>
             /\ parent'.fin => parent'.there
             /\ parent.fin /\ ~parent'.fin => pc = "clear"
  BY <1>2, StoredFinalizer
<1>3. CASE EditSpec \/ DeleteParent
  BY <1>3, KeepsFinalizer DEF EditSpec, DeleteParent
<1>5. ASSUME NEW o \in Answers, WriteStatus(o)
      PROVE  \/ UNCHANGED parent
             \/ /\ parent.there /\ UNCHANGED <<kids, setup>>
                /\ parent'.fin => parent'.there
                /\ parent.fin /\ ~parent'.fin => pc = "clear"
  <2> DEFINE p == [parent EXCEPT !.status = res.status]
  <2>1. p \in Parent /\ p.fin = parent.fin  BY DEF Typed, Types, WorkerTypes, Parent
  <2>2. \/ UNCHANGED parent
        \/ parent.there /\ StoreParent(p) /\ UNCHANGED <<kids, setup>>
    BY <1>5 DEF WriteStatus, Current
  <2> HIDE DEF p
  <2> QED  BY <1>2, <2>1, <2>2
<1>6. ASSUME NEW o \in Answers, NEW add \in BOOLEAN, PatchFinalizer(add, o),
             UNCHANGED <<kids, setup>>, ~add => pc = "clear"
      PROVE  \/ UNCHANGED parent
             \/ /\ parent.there /\ UNCHANGED <<kids, setup>>
                /\ parent'.fin => parent'.there
                /\ parent.fin /\ ~parent'.fin => pc = "clear"
  <2> DEFINE p == [parent EXCEPT !.fin = add]
  <2>1. p \in Parent /\ p.fin = add  BY DEF Typed, Types, Parent
  <2>2. UNCHANGED parent \/ (parent.there /\ StoreParent(p))
    BY <1>6 DEF PatchFinalizer, Current
  <2> HIDE DEF p
  <2> QED  BY <1>6, <2>1, <2>2, StoredFinalizer
<1>7. ASSUME NEW o \in Answers, AddFinalizer(o) \/ ClearFinalizer(o)
      PROVE  \/ UNCHANGED parent
             \/ /\ parent.there /\ UNCHANGED <<kids, setup>>
                /\ parent'.fin => parent'.there
                /\ parent.fin /\ ~parent'.fin => pc = "clear"
  BY <1>6, <1>7, Booleans DEF AddFinalizer, ClearFinalizer
<1> QED
  BY <1>3, <1>5, <1>7
     DEF Next, Worker, Others, Begin, EndOfTurns, Compose, Delete, Create, Update, Leave, Skip,
         Drift, Foreign, FinishDelete, CollectGarbage, KidChanges, Crash, vars

\* When the worker does not go on, only the parent matters.
LEMMA EndedGuard ==
  ASSUME parent'.fin => parent'.there, pc' \in {"idle", "status"}, res'.fin => parent'.fin
  PROVE  GuardInv'
BY DEF GuardInv

LEMMA RestGuard ==
  ASSUME Typed, parent'.fin => parent'.there, NEW wake \in BOOLEAN, Rest(wake)
  PROVE  GuardInv'
<1>1. pc' = "idle" /\ res'.fin = FALSE  BY RestTypes, NobodyType DEF Typed
<1> QED  BY <1>1, EndedGuard

LEMMA ReflectGuard ==
  ASSUME Typed, parent'.fin => parent'.there,
         NEW r \in Parent, r.fin => parent'.fin, NEW results \in Found,
         NEW err \in BOOLEAN, NEW wake \in BOOLEAN, Reflect(r, results, err, wake)
  PROVE  GuardInv' /\ pc' \in {"idle", "status"}
<1>1. Reflected(r, results, err).fin = r.fin  BY DEF Reflected, Parent
<1>2. \/ pc' = "status" /\ res' = Reflected(r, results, err)
      \/ pc' = "idle" /\ res' = Nobody
  BY ReflectTypes DEF Typed
<1>3. Nobody.fin = FALSE  BY NobodyType DEF Typed
<1> QED  BY <1>1, <1>2, <1>3, EndedGuard

LEMMA FailGuard ==
  ASSUME Typed, parent'.fin => parent'.there, res.fin => parent'.fin,
         NEW wake \in BOOLEAN, Fail(wake)
  PROVE  GuardInv'
BY ReflectGuard, Booleans DEF Fail, Typed, WorkerTypes

LEMMA BeginGuard ==
  ASSUME Typed, GuardInv, Begin
  PROVE  GuardInv'
<1>1. UNCHANGED <<setup, parent, kids>>  BY DEF Begin
<1>2. CASE UNCHANGED workerVars
  BY <1>1, <1>2 DEF GuardInv, Live, OurChild, SkipOwner, workerVars
<1>3. CASE pc' = "list" /\ res' = parent
  BY <1>1, <1>3 DEF GuardInv
<1> QED  BY <1>2, <1>3 DEF Begin

\* What is listed is all there is of the children.
LEMMA ComposeGuard ==
  ASSUME FinalizerSkips, Typed, GuardInv, NEW o \in Answers, Compose(o)
  PROVE  GuardInv'
<1>1. UNCHANGED <<setup, parent, kids>>  BY DEF Compose
<1>2. CASE Conclude(res, TRUE, FALSE)
  <2>1. res \in Parent  BY DEF Typed, WorkerTypes
  <2>2. (pc' = "status" /\ res' = res) \/ (pc' = "idle" /\ res' = Nobody)
    BY <1>2, <2>1, ConcludeTypes, Booleans DEF Typed
  <2>3. Nobody.fin = FALSE  BY NobodyType DEF Typed
  <2> QED  BY <1>1, <2>2, <2>3, EndedGuard DEF GuardInv
<1>3. CASE /\ known' = Listed /\ todo' = Identifiers(kids) /\ res' = res
           /\ pc' = IF setup.finalizer /\ ~res.deleting /\ ~res.fin THEN "finalize" ELSE "turn"
  <2>1. setup \in Setups  BY DEF Typed, Types
  <2>2. ASSUME setup.finalizer, NEW i \in Live'
        PROVE  i \in todo' /\ known'[i].there /\ ~known'[i].deleting
    <3>1. setup.skip  BY <2>1, <2>2 DEF FinalizerSkips
    <3>2. i \in Ids /\ OurChild(kids[i]) /\ ~kids[i].deleting
      BY <1>1, <2>2 DEF Live, OurChild, SkipOwner
    <3>3. Void(kids[i]) /\ kids[i].there  BY <3>1, <3>2 DEF Void, OurChild
    <3> QED  BY <1>3, <3>2, <3>3 DEF Identifiers, Listed
  <2> QED  BY <1>1, <1>3, <2>2 DEF GuardInv
<1> QED  BY <1>2, <1>3 DEF Compose, Listed

\* How a patch of the finalizer leaves the stored parent.
LEMMA PatchedParent ==
  ASSUME Typed, NEW add \in BOOLEAN, NEW o, PatchFinalizer(add, o)
  PROVE  /\ UNCHANGED parent \/ parent'.fin = add
         /\ o = "ok" /\ Current(res) => parent'.fin = add
<1> DEFINE p == [parent EXCEPT !.fin = add]
<1>1. p \in Parent /\ p.fin = add  BY DEF Typed, Types, Parent
<1>2. ASSUME StoreParent(p) PROVE parent'.fin = add
  <2> HIDE DEF p
  <2>1. parent.rv + 1 \in Nat  BY DEF Typed, Types, Parent
  <2> QED  BY <1>1, <1>2, Zenon DEF StoreParent, Parent
<1> QED  BY <1>2 DEF PatchFinalizer

LEMMA AddGuard ==
  ASSUME Typed, GuardInv, NEW o \in Answers, AddFinalizer(o), parent'.fin => parent'.there
  PROVE  GuardInv'
<1>1. /\ UNCHANGED <<setup, kids>> /\ pc = "finalize" /\ PatchFinalizer(TRUE, o)
      /\ setup.finalizer /\ ~res.deleting
  BY DEF AddFinalizer, GuardInv
<1>2. /\ UNCHANGED parent \/ parent'.fin = TRUE
      /\ o = "ok" /\ Current(res) => parent'.fin = TRUE
  BY <1>1, PatchedParent, Booleans
<1>3. CASE o = "ok" /\ Current(res) /\ Proceed(Patched(TRUE), todo, found, TRUE)
  <2>1. Patched(TRUE).fin = TRUE /\ Patched(TRUE).deleting = FALSE
    BY <1>1, PatchedTypes, Booleans DEF Typed, WorkerTypes, Parent
  <2>2. pc' = "turn" /\ res' = Patched(TRUE)  BY <1>3 DEF Proceed
  <2> QED  BY <1>2, <1>3, <2>1, <2>2 DEF GuardInv
<1>4. CASE Fail(parent' # parent)
  BY <1>2, <1>4, FailGuard, Booleans DEF GuardInv
<1> QED  BY <1>3, <1>4 DEF AddFinalizer

LEMMA ClearGuard ==
  ASSUME Typed, GuardInv, NEW o \in Answers, ClearFinalizer(o), parent'.fin => parent'.there
  PROVE  GuardInv'
<1>1. pc = "clear" /\ res.deleting  BY DEF ClearFinalizer, GuardInv
<1>2. CASE Reflect(Patched(FALSE), found, FALSE, TRUE)
  <2>1. Patched(FALSE) \in Parent /\ Patched(FALSE).fin = FALSE
    BY PatchedTypes, Booleans DEF Typed
  <2> QED  BY <1>2, <2>1, ReflectGuard, Booleans DEF Typed, WorkerTypes
<1>3. CASE Fail(parent' # parent)
  <2>1. pc' = "idle" /\ res' = Nobody  BY <1>1, <1>3, FailTypes, Booleans DEF Typed
  <2>2. Nobody.fin = FALSE  BY NobodyType DEF Typed
  <2> QED  BY <2>1, <2>2, EndedGuard
<1> QED  BY <1>2, <1>3 DEF ClearFinalizer

\* A turn is over: what is left to delete is left in todo.
LEMMA DoneGuard ==
  ASSUME Typed, GuardInv, pc = "turn", UNCHANGED <<setup, parent>>,
         NEW i \in Ids, NEW report, NEW wake, Done(i, report, wake),
         setup.finalizer /\ res.deleting => Live' \subseteq Live \ {i}
  PROVE  GuardInv'
<1>1. pc' = "turn" /\ res' = res /\ todo' = todo \ {i} /\ known' = known
  BY DEF Done, Proceed
<1> QED  BY <1>1 DEF GuardInv

LEMMA TurnGuard ==
  ASSUME Typed, GuardInv, NEW i \in Ids,
         \/ Leave(i) \/ Skip(i)
         \/ \E o \in Answers : Delete(i, o) \/ Create(i, o) \/ Update(i, o)
  PROVE  GuardInv'
<1>1. pc = "turn" /\ UNCHANGED <<setup, parent>>
  BY DEF Leave, Skip, Unwanted, Delete, Create, Update, Turn
<1>2. parent'.fin => parent'.there  BY <1>1 DEF GuardInv
<1>3. ASSUME NEW wake \in BOOLEAN, Stop(i, wake) PROVE GuardInv'
  BY <1>1, <1>2, <1>3, FailGuard DEF Stop, GuardInv
<1>4. CASE Leave(i)
  BY <1>1, <1>4, DoneGuard DEF Leave
<1>5. CASE Skip(i)
  <2>1. setup.finalizer /\ res.deleting => i \notin Live
    BY <1>1, <1>5 DEF Skip, GuardInv
  <2>2. Live' = Live  BY <1>5 DEF Skip, Live, OurChild, SkipOwner
  <2>3. Done(i, NoChild, FALSE)  BY <1>5 DEF Skip
  <2> QED  BY <1>1, <2>1, <2>2, <2>3, DoneGuard
<1>6. ASSUME NEW o \in Answers, Delete(i, o) PROVE GuardInv'
  <2>1. CASE o = "ok" /\ kids[i].there /\ Done(i, NoChild, Woken)
    <3>1. DeleteKid(i)  BY <1>6, <2>1 DEF Delete
    <3>2. Live' = Live \ {i}  BY <1>1, <3>1, DeletedKid DEF Typed
    <3> QED  BY <1>1, <2>1, <3>2, DoneGuard
  <2>2. CASE Stop(i, Woken)  BY <1>3, <2>2, Booleans
  <2> QED  BY <1>6, <2>1, <2>2 DEF Delete
<1>7. ASSUME NEW o \in Answers, Create(i, o) \/ Update(i, o) PROVE GuardInv'
  <2>1. ~res.deleting  BY <1>7 DEF Create, Update, Desired
  <2>2. \/ \E wake \in {FALSE, Woken} : Stop(i, wake)
        \/ \E report \in Reports, wake \in {FALSE, Woken} : Done(i, report, wake)
    <3>1. Desired(i) # NoChild  BY <1>7 DEF Create, Update
    <3>2. {"invalid", "conflict", Desired(i)} \subseteq Reports  BY <3>1, ReportTypes
    <3> QED  BY <1>7, <3>2 DEF Create, Update
  <2>3. ASSUME NEW report \in Reports, NEW wake \in {FALSE, Woken}, Done(i, report, wake)
        PROVE  GuardInv'
    BY <1>1, <2>1, <2>3, DoneGuard
  <2> QED  BY <1>3, <2>2, <2>3, Booleans
<1> QED  BY <1>4, <1>5, <1>6, <1>7

LEMMA EndOfTurnsGuard ==
  ASSUME Typed, GuardInv, EndOfTurns
  PROVE  GuardInv'
<1>1. UNCHANGED <<setup, parent, kids>> /\ pc = "turn" /\ todo = {}  BY DEF EndOfTurns
<1>2. CASE Clears /\ pc' = "clear" /\ UNCHANGED <<res, known, todo>>
  <2>1. Live' = Live  BY <1>1 DEF Live, OurChild, SkipOwner
  <2> QED  BY <1>1, <1>2, <2>1 DEF GuardInv, Clears
<1>3. CASE Reflect(res, found, FALSE, FALSE)
  BY <1>1, <1>3, ReflectGuard, Booleans DEF Typed, WorkerTypes, GuardInv
<1> QED  BY <1>2, <1>3 DEF EndOfTurns

LEMMA GuardStep ==
  ASSUME FinalizerSkips, Typed, GuardInv, [Next]_vars
  PROVE  GuardInv'
<1>1. parent'.fin => parent'.there  BY ParentStep DEF GuardInv
<1>2. ASSUME NEW o \in Answers, WriteStatus(o) PROVE GuardInv'
  <2>1. (failed \/ o # "ok" \/ ~Current(res) \/ parent' # parent) \in BOOLEAN
    BY DEF Typed, WorkerTypes
  <2> QED  BY <1>1, <1>2, <2>1, RestGuard DEF WriteStatus
<1>3. CASE Worker
  BY <1>1, <1>2, <1>3, BeginGuard, ComposeGuard, AddGuard, ClearGuard, TurnGuard, EndOfTurnsGuard
     DEF Worker
<1>4. CASE Crash  BY <1>1, <1>4, RestGuard, Booleans DEF Crash
<1>5. CASE /\ UNCHANGED <<setup, workerVars>> /\ parent'.fin = parent.fin
           /\ ~(pc = "turn" /\ ~res.deleting)
  <2>1. Live' \subseteq Live  BY <1>5, LiveStep
  <2> QED  BY <1>1, <1>5, <2>1 DEF GuardInv, workerVars
<1>6. CASE /\ UNCHANGED <<setup, workerVars>> /\ parent'.fin = parent.fin
           /\ pc = "turn" /\ ~res.deleting
  BY <1>1, <1>6 DEF GuardInv, workerVars
<1>7. CASE EditSpec \/ DeleteParent
  BY <1>5, <1>6, <1>7, KeepsFinalizer DEF EditSpec, DeleteParent
<1> QED
  BY <1>3, <1>4, <1>5, <1>6, <1>7
     DEF Next, Others, Drift, Foreign, FinishDelete, CollectGarbage, KidChanges, vars, workerVars

\* Every step is one the finalizer's contract allows.
LEMMA ContractStep ==
  ASSUME FinalizerSkips, Typed, GuardInv, Typed', GuardInv', [Next]_vars
  PROVE  [Contract!Next]_<<parent.there, parent.fin, IF setup.finalizer THEN Live ELSE {}>>
<1> DEFINE guarded == IF setup.finalizer THEN Live ELSE {}
<1>1. /\ parent.there \in BOOLEAN /\ parent.fin \in BOOLEAN
      /\ parent'.there \in BOOLEAN /\ parent'.fin \in BOOLEAN
  BY DEF Typed, Types, Parent
<1>3. CASE UNCHANGED <<parent, setup>>
  <2>1. CASE Live' = Live \/ ~setup.finalizer  BY <1>3, <2>1
  <2>2. CASE setup.finalizer /\ \E i \in Ids : Live' = Live \ {i}
    BY <1>3, <2>2 DEF Contract!Next, Contract!Release
  <2>3. CASE setup.finalizer /\ pc = "turn" /\ ~res.deleting /\ \E i \in Ids : Live' = Live \cup {i}
    <3>1. parent.there /\ parent.fin  BY <2>3 DEF GuardInv
    <3> QED  BY <1>3, <2>3, <3>1 DEF Contract!Next, Contract!Allocate
  <2> QED  BY <2>1, <2>2, <2>3, LiveStep
<1>4. CASE /\ parent.there /\ UNCHANGED <<kids, setup>>
           /\ parent'.fin => parent'.there
           /\ parent.fin /\ ~parent'.fin => pc = "clear"
  <2>1. guarded' = guarded  BY <1>4 DEF Live, OurChild, SkipOwner
  <2>2. CASE ~parent.fin /\ parent'.fin
    BY <1>1, <1>4, <2>1, <2>2 DEF Contract!Next, Contract!Guard
  <2>3. CASE parent.fin /\ ~parent'.fin
    <3>1. guarded = {}  BY <1>4, <2>3, LiveDef DEF GuardInv
    <3> QED  BY <1>1, <1>4, <2>1, <2>3, <3>1 DEF Contract!Next, Contract!Unguard
  <2>4. CASE parent.fin = parent'.fin /\ parent'.there  BY <1>1, <1>4, <2>1, <2>4
  <2>5. CASE parent.fin = parent'.fin /\ ~parent'.there
    BY <1>1, <1>4, <2>1, <2>5 DEF Contract!Next, Contract!Vanish
  <2> QED  BY <1>1, <2>2, <2>3, <2>4, <2>5
<1>5. UNCHANGED setup  BY SetupKept
<1> QED  BY <1>3, <1>4, <1>5, ParentStep

\* With Finalizer and SkipOwnerReference together, or neither: no child is created
\* before the parent carries the finalizer, and none of ours is left undeleted when it
\* is cleared, whichever calls fail and however the process dies (WithFinalizer around
\* the sequence of ChildReconcilers).
THEOREM ChildSetContract ==
  ASSUME FinalizerSkips
  PROVE  Spec => ImplementsContract
<1>1. Init => Contract!Init
  BY DEF Init, Contract!Init, Live, OurChild, Absent
<1>2. Init => GuardInv  BY DEF Init, GuardInv, Nobody
<1>3. Init => Typed  BY InitTypes
<1>4. Typed /\ GuardInv /\ [Next]_vars => Typed' /\ GuardInv'  BY NextTypes, GuardStep
<1>5. /\ Typed /\ GuardInv /\ Typed' /\ GuardInv' /\ [Next]_vars
      => [Contract!Next]_<<parent.there, parent.fin, IF setup.finalizer THEN Live ELSE {}>>
  BY ContractStep
<1> QED
  BY <1>1, <1>2, <1>3, <1>4, <1>5, PTL
     DEF Spec, ImplementsContract, Contract!Spec, Contract!contractVars

-----------------------------------------------------------------------------
(* Every child has its turn. *)

\* What is wanted of a child is there and reported, or refused and reported.
Settled(want, seen, k) ==
  /\ want = NoChild => ~(OurChild(k) /\ ~k.deleting) /\ seen = NoChild
  /\ want # NoChild /\ want \in Invalid => seen \in {"invalid", "conflict"}
  /\ want # NoChild /\ want \notin Invalid =>
       seen = "conflict" \/ (seen = want /\ OurChild(k) /\ k.value = want)

\* The parent wants certain children.
Wants == parent.there /\ ~parent.deleting /\ parent.spec \in Sets

\* A child is still as it was listed.
AsListed(listed, k) ==
  IF OurChild(listed) \/ OurChild(k) THEN k = listed ELSE ~listed.there

\* Unless the parent is queued again, a request works on the parent as it is stored
\* and on children as they were listed; those that had their turn are settled.
WholeInv ==
  ~queued =>
    /\ pc = "idle" /\ Wants =>
         /\ parent.status.obs = parent.gen
         /\ \A i \in Ids \ unseen : Settled(parent.spec[i], parent.status.seen[i], kids[i])
    /\ pc \in {"list", "turn"} => res = parent /\ original = parent.status
    /\ pc = "turn" => \A i \in todo \ unseen : AsListed(known[i], kids[i])
    /\ pc = "turn" /\ Wants =>
         \A i \in Ids \ (todo \cup unseen) : Settled(parent.spec[i], found[i], kids[i])

LEMMA WholeImplied == WholeInv => QuietIsWhole
<1> SUFFICES ASSUME WholeInv, pc = "idle", ~queued, Wants PROVE QuietIsWhole
  BY DEF QuietIsWhole, Wants
<1>1. parent.status.obs = parent.gen  BY DEF WholeInv
<1>2. ASSUME NEW i \in Ids \ unseen
      PROVE  LET want == parent.spec[i]  seen == parent.status.seen[i] IN
               CASE want = NoChild -> i \notin Live /\ seen = NoChild
                 [] want \in Invalid -> seen \in {"invalid", "conflict"}
                 [] OTHER -> \/ seen = "conflict"
                             \/ seen = want /\ OurChild(kids[i]) /\ kids[i].value = want
  <2>1. Settled(parent.spec[i], parent.status.seen[i], kids[i])  BY DEF WholeInv
  <2>2. NoChild \notin Invalid  BY ChildSetAssumption
  <2>3. CASE parent.spec[i] = NoChild  BY <2>1, <2>2, <2>3 DEF Settled, Live
  <2>4. CASE parent.spec[i] \in Invalid  BY <2>1, <2>2, <2>4 DEF Settled
  <2>5. CASE parent.spec[i] # NoChild /\ parent.spec[i] \notin Invalid
    BY <2>1, <2>5 DEF Settled
  <2> QED  BY <2>3, <2>4, <2>5
<1> QED  BY <1>1, <1>2 DEF QuietIsWhole

\* What is not ours before and after a step.
LEMMA NeverOurs ==
  ASSUME NEW k, NEW l, ~OurChild(k), ~OurChild(l)
  PROVE  /\ \A want, seen : Settled(want, seen, k) => Settled(want, seen, l)
         /\ \A listed : AsListed(listed, k) => AsListed(listed, l)
BY DEF Settled, AsListed

\* If a finalizer comes together with SkipOwnerReference, those are listed that
\* OurChild accepts.
LEMMA VoidIsOurs ==
  ASSUME FinalizerSkips, Typed
  PROVE  (SkipOwner <=> setup.skip) /\ \A k : Void(k) <=> OurChild(k)
<1>1. setup \in Setups /\ setup \in Setup  BY ChildSetAssumption DEF Typed, Types
<1>2. setup.skip \in BOOLEAN /\ setup.finalizer \in BOOLEAN  BY <1>1 DEF Setup
<1>3. SkipOwner <=> setup.skip  BY <1>1, <1>2 DEF FinalizerSkips, SkipOwner
<1> QED  BY <1>3 DEF Void, OurChild

\* A child that somebody else changes wakes the parent or counts as unseen, unless
\* it is not ours, before and after.
LEMMA OthersKids ==
  ASSUME FinalizerSkips, Typed, NEW i \in Ids,
         Drift(i) \/ Foreign(i) \/ FinishDelete(i) \/ CollectGarbage(i),
         ~queued', NEW j \in Ids \ unseen'
  PROVE  kids'[j] = kids[j] \/ (~OurChild(kids[j]) /\ ~OurChild(kids'[j]))
<1> SUFFICES ASSUME kids'[j] # kids[j]
             PROVE  ~OurChild(kids[j]) /\ ~OurChild(kids'[j])
  OBVIOUS
<1>1. KidChanges  BY DEF Drift, Foreign, FinishDelete, CollectGarbage
<1>2. ~Woken  BY <1>1 DEF KidChanges
<1>3. ~Notifies(j, kids[j], kids'[j])  BY <1>2 DEF Woken
<1>4. ~OurChild(kids[j])  BY <1>1, <1>3 DEF KidChanges
<1>5. CASE ~setup.skip
  BY <1>3, <1>4, <1>5, VoidIsOurs DEF Notifies, OurChild
<1>6. CASE setup.skip
  <2>1. \A k : OurChild(k) <=> k.there /\ k.marked
    BY <1>6, VoidIsOurs DEF OurChild
  <2>2. \A k \in Kid : ~k.marked => (StoreKid(i, k) => ~OurChild(kids'[j]))
    <3> SUFFICES ASSUME NEW k \in Kid, ~k.marked, StoreKid(i, k) PROVE ~OurChild(kids'[j])
      OBVIOUS
    <3>1. /\ \A m \in Ids \ {i} : kids'[m] = kids[m]
          /\ kids'[i] = [k EXCEPT !.rv = kids[i].rv + 1]
      BY StoreKidType DEF Typed
    <3>2. ~kids'[i].marked  BY <3>1 DEF Kid
    <3> QED  BY <2>1, <3>1, <3>2
  <2>3. Absent \in Kid /\ ~Absent.marked  BY AbsentTypes DEF Absent
  <2>4. ASSUME NEW v \in Values
        PROVE  /\ [Absent EXCEPT !.there = TRUE, !.value = v] \in Kid
               /\ ~[Absent EXCEPT !.there = TRUE, !.value = v].marked
    BY DEF Absent, Kid
  <2>5. CASE Foreign(i) \/ FinishDelete(i)
    BY <1>4, <2>2, <2>3, <2>4, <2>5 DEF Foreign, FinishDelete
  <2>6. CASE Drift(i) \/ CollectGarbage(i)
    <3>1. j = i
      <4>1. CASE DeleteKid(i)  BY <4>1, DeleteKidType DEF Typed
      <4>2. ASSUME NEW v \in Values, StoreKid(i, [kids[i] EXCEPT !.value = v]) PROVE j = i
        <5>1. [kids[i] EXCEPT !.value = v] \in Kid  BY DEF Typed, Types, Kid
        <5> QED  BY <4>2, <5>1, StoreKidType DEF Typed
      <4> QED  BY <2>6, <4>1, <4>2 DEF Drift, CollectGarbage
    <3>2. CollectGarbage(i) /\ ~kids[i].marked
      BY <1>4, <2>1, <2>6, <3>1 DEF Drift, CollectGarbage
    <3>3. CASE StoreKid(i, Absent)  BY <1>4, <2>2, <2>3, <3>3
    <3>4. CASE StoreKid(i, [kids[i] EXCEPT !.deleting = TRUE])
      <4>1. [kids[i] EXCEPT !.deleting = TRUE] \in Kid
            /\ [kids[i] EXCEPT !.deleting = TRUE].marked = kids[i].marked
        BY DEF Typed, Types, Kid
      <4> QED  BY <1>4, <2>2, <3>2, <3>4, <4>1
    <3> QED  BY <1>4, <3>1, <3>2, <3>3, <3>4 DEF CollectGarbage, DeleteKid
  <2> QED  BY <2>5, <2>6
<1> QED  BY <1>4, <1>5, <1>6

LEMMA OutOfPlay ==
  ASSUME queued' \/ pc' \notin {"idle", "list", "turn"}
  PROVE  WholeInv'
BY DEF WholeInv

\* After an error the parent is queued again, at the latest when its status is written.
LEMMA FailedOut ==
  ASSUME Typed, NEW r, NEW wake \in BOOLEAN, Conclude(r, TRUE, wake)
  PROVE  WholeInv'
BY OutOfPlay DEF Conclude, Rest

LEMMA FailOut ==
  ASSUME Typed, NEW wake \in BOOLEAN, Fail(wake)
  PROVE  WholeInv'
BY FailedOut DEF Fail, Reflect

LEMMA BeginWhole ==
  ASSUME Begin
  PROVE  WholeInv'
<1>1. CASE ~parent.there \/ (parent.deleting /\ ~parent.fin)
  <2>1. ~Wants'  BY <1>1 DEF Begin, Wants
  <2>2. pc' = "idle"  BY <1>1 DEF Begin, workerVars
  <2> QED  BY <2>1, <2>2 DEF WholeInv
<1>2. CASE ~(~parent.there \/ (parent.deleting /\ ~parent.fin))
  BY <1>2 DEF Begin, WholeInv
<1> QED  BY <1>1, <1>2

\* Whoever gets no turn is neither wanted nor there.
LEMMA ComposeWhole ==
  ASSUME FinalizerSkips, Typed, WholeInv, NEW o \in Answers, Compose(o)
  PROVE  WholeInv'
<1>1. CASE o # "ok" \/ res.spec \in Broken
  BY <1>1, FailedOut DEF Compose
<1>2. CASE ~(o # "ok" \/ res.spec \in Broken)
  <2> SUFFICES ASSUME ~queued', pc' = "turn" PROVE WholeInv'
    BY <1>2, OutOfPlay DEF Compose
  <2>1. /\ pc = "list" /\ UNCHANGED <<setup, parent, kids, queued, res, original, found>>
        /\ known' = [i \in Ids |-> IF Void(kids[i]) THEN kids[i] ELSE Absent]
        /\ unseen' = {} /\ todo' = Identifiers(kids)
    BY <1>2 DEF Compose
  <2>2. res = parent /\ original = parent.status /\ found = NothingFound
    BY <2>1 DEF WholeInv, Typed, WorkerTypes
  <2>3. ASSUME NEW i \in Ids PROVE AsListed(known'[i], kids[i])
    BY <2>1, VoidIsOurs DEF AsListed, OurChild, Absent
  <2>4. ASSUME NEW i \in Ids \ Identifiers(kids), Wants
        PROVE  Settled(parent.spec[i], found[i], kids[i])
    BY <2>2, <2>4, VoidIsOurs DEF Identifiers, Wants, Settled, NothingFound
  <2>5. \A i \in todo' \ unseen' : AsListed(known[i], kids[i])'
    BY <2>1, <2>3 DEF AsListed, OurChild, SkipOwner, Identifiers
  <2>6. Wants' => \A i \in Ids \ (todo' \cup unseen') : Settled(parent.spec[i], found[i], kids[i])'
    BY <2>1, <2>4 DEF Settled, OurChild, SkipOwner, Wants
  <2> QED  BY <2>1, <2>2, <2>5, <2>6 DEF WholeInv
<1> QED  BY <1>1, <1>2

\* A turn that settles its child, and leaves the others alone.
LEMMA DoneWhole ==
  ASSUME Typed, WholeInv, pc = "turn", UNCHANGED <<setup, parent, unseen>>,
         NEW i \in Ids, NEW report \in Reports, NEW wake \in BOOLEAN, Done(i, report, wake),
         \A j \in Ids \ {i} : kids'[j] = kids[j],
         ~queued /\ Wants /\ i \notin unseen => Settled(parent.spec[i], report, kids'[i])
  PROVE  WholeInv'
<1> SUFFICES ASSUME ~queued' PROVE WholeInv'
  BY OutOfPlay
<1>1. /\ pc' = "turn" /\ res' = res /\ todo' = todo \ {i} /\ UNCHANGED <<original, known>>
      /\ ~queued
      /\ found' = IF res.deleting THEN found ELSE [found EXCEPT ![i] = report]
  BY DEF Done, Proceed
<1>2. res = parent /\ original = parent.status  BY <1>1 DEF WholeInv
<1>3. todo \subseteq Ids /\ found \in [Ids -> Reports]
  BY DEF Typed, WorkerTypes, Found
<1>4. ASSUME NEW j \in todo' \ unseen' PROVE AsListed(known[j], kids[j])'
  BY <1>1, <1>3 DEF WholeInv, AsListed, OurChild, SkipOwner
<1>5. ASSUME Wants', NEW j \in Ids \ (todo' \cup unseen')
      PROVE  Settled(parent.spec[j], found[j], kids[j])'
  <2>1. Wants /\ ~res.deleting  BY <1>2, <1>5 DEF Wants
  <2>2. found'[j] = IF j = i THEN report ELSE found[j]  BY <1>1, <1>3, <2>1
  <2>3. Settled(parent.spec[j], found'[j], kids'[j])
    <3>1. CASE j = i  BY <1>1, <2>1, <2>2, <3>1
    <3>2. CASE j # i  BY <1>1, <2>1, <2>2, <3>2 DEF WholeInv
    <3> QED  BY <3>1, <3>2
  <2> QED  BY <2>3 DEF Settled, OurChild, SkipOwner
<1> QED  BY <1>1, <1>2, <1>4, <1>5 DEF WholeInv

LEMMA LeastFirst ==
  ASSUME Typed, NEW i, Turn(i)
  PROVE  i \in todo
<1>1. todo \subseteq Nat /\ todo # {}  BY DEF Typed, WorkerTypes, Ids, Turn
<1>2. \E x \in todo : \A y \in todo : ~(<<y, x>> \in OpToRel(<, Nat))
  BY <1>1, WFMin, NatLessThanWellFounded, Zenon
<1>3. PICK x \in todo : \A y \in todo : ~(<<y, x>> \in OpToRel(<, Nat))  BY <1>2
<1>4. \A y \in todo : ~(y < x)
  BY <1>1, <1>3 DEF OpToRel
<1>5. \A y \in todo : x =< y  BY <1>1, <1>4
<1> QED  BY <1>5 DEF Turn, Min

\* What the worker knows of the child whose turn it is.
LEMMA AtTurn ==
  ASSUME Typed, WholeInv, NEW i \in Ids, Turn(i), ~queued, Wants
  PROVE  /\ ~res.deleting /\ res.spec = parent.spec /\ res.spec \in Sets
         /\ Desired(i) = parent.spec[i]
         /\ i \notin unseen => AsListed(known[i], kids[i])
<1>1. res = parent /\ pc = "turn"  BY DEF WholeInv, Turn
<1>2. i \in todo  BY LeastFirst
<1> QED  BY <1>1, <1>2 DEF WholeInv, Wants, Desired

LEMMA UnchangedWhole ==
  ASSUME Typed, WholeInv, NEW i \in Ids, Leave(i) \/ Skip(i)
  PROVE  WholeInv'
<1>1. Turn(i) /\ pc = "turn" /\ UNCHANGED <<setup, parent, unseen, kids>>
  BY DEF Leave, Skip, Unwanted, Turn
<1>2. CASE Leave(i)
  <2>1. Done(i, known[i].value, FALSE) /\ res.spec \in Paused  BY <1>2 DEF Leave
  <2>2. known[i].value \in Reports  BY ReportTypes
  <2>3. queued \/ ~Wants  BY <1>1, <2>1, AtTurn, ChildSetAssumption
  <2> QED  BY <1>1, <2>1, <2>2, <2>3, DoneWhole
<1>3. CASE Skip(i)
  <2>1. Done(i, NoChild, FALSE) /\ Desired(i) = NoChild
        /\ (~known[i].there \/ known[i].deleting)
    BY <1>3 DEF Skip, Unwanted
  <2>2. NoChild \in Reports  BY ReportTypes
  <2>3. ~queued /\ Wants /\ i \notin unseen => Settled(parent.spec[i], NoChild, kids[i])
    BY <1>1, <2>1, AtTurn DEF Settled, AsListed, OurChild
  <2> QED  BY <1>1, <2>1, <2>2, <2>3, DoneWhole
<1> QED  BY <1>2, <1>3

LEMMA DeleteWhole ==
  ASSUME Typed, WholeInv, NEW i \in Ids, NEW o \in Answers, Delete(i, o)
  PROVE  WholeInv'
<1>1. Turn(i) /\ pc = "turn" /\ UNCHANGED <<setup, parent, unseen>> /\ Desired(i) = NoChild
  BY DEF Delete, Unwanted, Turn
<1>2. CASE Stop(i, Woken)  BY <1>2, FailOut, Booleans DEF Stop
<1>3. CASE DeleteKid(i) /\ Done(i, NoChild, Woken)
  <2>1. /\ \A j \in Ids \ {i} : kids'[j] = kids[j]
        /\ ~kids'[i].there \/ kids'[i].deleting
    BY <1>3, DeleteKidType DEF Typed
  <2>2. NoChild \in Reports  BY ReportTypes
  <2>3. ~queued /\ Wants /\ i \notin unseen => Settled(parent.spec[i], NoChild, kids'[i])
    BY <1>1, <2>1, AtTurn DEF Settled, OurChild
  <2> QED  BY <1>1, <1>3, <2>1, <2>2, <2>3, DoneWhole, Booleans
<1> QED  BY <1>2, <1>3 DEF Delete

LEMMA CreateWhole ==
  ASSUME Typed, WholeInv, NEW i \in Ids, NEW o \in Answers, Create(i, o)
  PROVE  WholeInv'
<1> DEFINE want == Desired(i)
           new == [there |-> TRUE, owned |-> ~SkipOwner, marked |-> TRUE,
                   deleting |-> FALSE, value |-> want, rv |-> 0]
<1>1. /\ Turn(i) /\ pc = "turn" /\ UNCHANGED <<setup, parent, unseen>>
      /\ want # NoChild /\ ~known[i].there
  BY DEF Create, Turn
<1>2. want \in Values /\ want \in Reports /\ "invalid" \in Reports /\ "conflict" \in Reports
  BY <1>1, ReportTypes
<1>3. ~queued /\ Wants /\ i \notin unseen => parent.spec[i] = want /\ ~OurChild(kids[i])
  BY <1>1, AtTurn DEF AsListed, OurChild
<1>4. CASE \E wake \in {FALSE, Woken} : Stop(i, wake)
  BY <1>4, FailOut, Booleans DEF Stop
<1>5. CASE want \in Invalid /\ Done(i, "invalid", FALSE) /\ UNCHANGED kids
  <2>1. ~queued /\ Wants /\ i \notin unseen => Settled(parent.spec[i], "invalid", kids[i])
    BY <1>1, <1>3, <1>5 DEF Settled
  <2> QED  BY <1>1, <1>2, <1>5, <2>1, DoneWhole
<1>6. CASE Done(i, "conflict", FALSE) /\ UNCHANGED kids
  <2>1. ~queued /\ Wants /\ i \notin unseen => Settled(parent.spec[i], "conflict", kids[i])
    BY <1>1, <1>3 DEF Settled
  <2> QED  BY <1>1, <1>2, <1>6, <2>1, DoneWhole
<1>7. CASE want \notin Invalid /\ StoreKid(i, new) /\ Done(i, want, Woken)
  <2>1. new \in Kid  BY <1>2 DEF Kid, SkipOwner
  <2>2. /\ \A j \in Ids \ {i} : kids'[j] = kids[j]
        /\ kids'[i] = [new EXCEPT !.rv = kids[i].rv + 1]
    BY <1>7, <2>1, StoreKidType DEF Typed
  <2>3. OurChild(kids'[i]) /\ kids'[i].value = want
    BY <2>2 DEF OurChild
  <2>4. ~queued /\ Wants /\ i \notin unseen => Settled(parent.spec[i], want, kids'[i])
    BY <1>1, <1>3, <1>7, <2>3 DEF Settled
  <2> HIDE DEF new, want
  <2> QED  BY <1>1, <1>2, <1>7, <2>2, <2>4, DoneWhole, Booleans
<1> QED  BY <1>4, <1>5, <1>6, <1>7 DEF Create

LEMMA UpdateWhole ==
  ASSUME Typed, WholeInv, NEW i \in Ids, NEW o \in Answers, Update(i, o)
  PROVE  WholeInv'
<1> DEFINE want == Desired(i)
           current == kids[i].there /\ kids[i].rv = known[i].rv
<1>1. /\ Turn(i) /\ pc = "turn" /\ UNCHANGED <<setup, parent, unseen>>
      /\ want # NoChild /\ known[i].there
  BY DEF Update, Turn
<1>2. want \in Values /\ want \in Reports /\ "invalid" \in Reports
  BY <1>1, ReportTypes
<1>3. ~queued /\ Wants /\ i \notin unseen =>
        parent.spec[i] = want /\ kids[i] = known[i] /\ OurChild(kids[i])
  BY <1>1, AtTurn DEF AsListed
<1>4. CASE Stop(i, Woken)
  BY <1>4, FailOut, Booleans DEF Stop
<1>5. CASE (known[i].value = want \/ want \in Invalid) /\ UNCHANGED kids
           /\ Done(i, IF want \in Invalid THEN "invalid" ELSE want, Woken)
  <2> DEFINE report == IF want \in Invalid THEN "invalid" ELSE want
  <2>1. ~queued /\ Wants /\ i \notin unseen => Settled(parent.spec[i], report, kids[i])
    BY <1>1, <1>3, <1>5 DEF Settled
  <2>2. report \in Reports /\ Done(i, report, Woken)  BY <1>2, <1>5
  <2> HIDE DEF report, want
  <2> QED  BY <1>1, <1>5, <2>1, <2>2, DoneWhole, Booleans
<1>6. CASE want \notin Invalid /\ StoreKid(i, [kids[i] EXCEPT !.value = want])
           /\ Done(i, want, Woken)
  <2> DEFINE new == [kids[i] EXCEPT !.value = want]
  <2>1. /\ new \in Kid /\ new.there = kids[i].there /\ new.owned = kids[i].owned
        /\ new.marked = kids[i].marked /\ new.value = want
    BY <1>2 DEF Kid, Typed, Types
  <2>2. /\ \A j \in Ids \ {i} : kids'[j] = kids[j]
        /\ kids'[i] = [new EXCEPT !.rv = kids[i].rv + 1]
    BY <1>6, <2>1, StoreKidType DEF Typed
  <2> HIDE DEF new
  <2>3. (OurChild(kids'[i]) <=> OurChild(kids[i])) /\ kids'[i].value = want
    BY <2>1, <2>2 DEF OurChild, Kid
  <2>4. ~queued /\ Wants /\ i \notin unseen => Settled(parent.spec[i], want, kids'[i])
    BY <1>1, <1>3, <1>6, <2>3 DEF Settled
  <2> HIDE DEF want
  <2> QED  BY <1>1, <1>2, <1>6, <2>2, <2>4, DoneWhole, Booleans
<1>7. \/ Stop(i, Woken)
      \/ (known[i].value = want \/ want \in Invalid) /\ UNCHANGED kids
         /\ Done(i, IF want \in Invalid THEN "invalid" ELSE want, Woken)
      \/ want \notin Invalid /\ StoreKid(i, [kids[i] EXCEPT !.value = want])
         /\ Done(i, IF want \in Invalid THEN "invalid" ELSE want, Woken)
  BY DEF Update
<1> QED  BY <1>4, <1>5, <1>6, <1>7

\* A request that leaves the status as it was read has found it to be right.
LEMMA EndOfTurnsWhole ==
  ASSUME Typed, WholeInv, EndOfTurns
  PROVE  WholeInv'
<1> SUFFICES ASSUME ~queued', pc' = "idle" PROVE WholeInv'
  BY OutOfPlay DEF EndOfTurns, Reflect, Conclude, Rest
<1>1. /\ pc = "turn" /\ todo = {} /\ UNCHANGED <<setup, parent, kids, unseen>>
      /\ Reflect(res, found, FALSE, FALSE)
  BY DEF EndOfTurns
<1> DEFINE r == [res EXCEPT !.status = [obs |-> res.gen, seen |-> found]]
<1>2. Conclude(r, FALSE, FALSE)  BY <1>1 DEF Reflect
<1>3. r.status = [obs |-> res.gen, seen |-> found] /\ r.deleting = res.deleting
  BY DEF Typed, WorkerTypes, Parent
<1> HIDE DEF r
<1>4. (r.status = original \/ r.deleting) /\ ~queued
  BY <1>2 DEF Conclude, Rest
<1>5. res = parent /\ original = parent.status  BY <1>1, <1>4 DEF WholeInv
<1>6. ASSUME Wants
      PROVE  /\ parent.status.obs = parent.gen
             /\ \A i \in Ids \ unseen :
                  Settled(parent.spec[i], parent.status.seen[i], kids[i])
  <2>1. parent.status = [obs |-> parent.gen, seen |-> found]
    BY <1>3, <1>4, <1>5, <1>6 DEF Wants
  <2>2. parent.status.obs = parent.gen /\ parent.status.seen = found  BY <2>1
  <2> QED  BY <1>1, <1>4, <1>6, <2>2 DEF WholeInv
<1> QED  BY <1>1, <1>6 DEF WholeInv, Wants, Settled, OurChild, SkipOwner

\* What is written to the parent wakes the worker.
LEMMA ParentWritesWhole ==
  ASSUME Typed, NEW o \in Answers, AddFinalizer(o) \/ ClearFinalizer(o) \/ WriteStatus(o)
  PROVE  WholeInv'
<1>1. (parent' # parent) \in BOOLEAN  OBVIOUS
<1>2. CASE AddFinalizer(o)
  <2>1. CASE o = "ok" /\ Current(res)
    BY <1>2, <2>1, OutOfPlay DEF AddFinalizer, Proceed
  <2>2. CASE ~(o = "ok" /\ Current(res))
    BY <1>1, <1>2, <2>2, FailOut DEF AddFinalizer
  <2> QED  BY <2>1, <2>2
<1>3. CASE ClearFinalizer(o)
  <2>1. CASE o = "ok" /\ Current(res)
    BY <1>3, <2>1, OutOfPlay DEF ClearFinalizer, Reflect, Conclude, Rest
  <2>2. CASE ~(o = "ok" /\ Current(res))
    BY <1>1, <1>3, <2>2, FailOut DEF ClearFinalizer
  <2> QED  BY <2>1, <2>2
<1>4. CASE WriteStatus(o)
  <2>1. o = "ok" /\ Current(res) => parent' # parent
    <3> SUFFICES ASSUME o = "ok", Current(res) PROVE parent' # parent
      OBVIOUS
    <3>1. StoreParent([parent EXCEPT !.status = res.status])
      BY <1>4 DEF WriteStatus
    <3>2. [parent EXCEPT !.status = res.status] \in Parent
      BY DEF Typed, Types, WorkerTypes, Parent
    <3>3. parent'.rv = parent.rv + 1  BY <3>1, <3>2, StoredParent
    <3>4. parent.rv \in Nat  BY DEF Typed, Types, Parent
    <3> QED  BY <3>3, <3>4
  <2>2. queued'  BY <1>4, <2>1 DEF WriteStatus, Rest
  <2> QED  BY <2>2, OutOfPlay
<1> QED  BY <1>2, <1>3, <1>4

LEMMA OthersWhole ==
  ASSUME FinalizerSkips, Typed, WholeInv, NEW i \in Ids,
         Drift(i) \/ Foreign(i) \/ FinishDelete(i) \/ CollectGarbage(i)
  PROVE  WholeInv'
<1> SUFFICES ASSUME ~queued' PROVE WholeInv'
  BY OutOfPlay
<1>1. /\ UNCHANGED <<setup, parent, workerVars>> /\ ~queued
      /\ unseen \subseteq unseen'
  BY DEF Drift, Foreign, FinishDelete, CollectGarbage, KidChanges
<1>2. /\ pc' = pc /\ res' = res /\ original' = original /\ known' = known /\ todo' = todo
      /\ found' = found
  BY <1>1 DEF workerVars
<1>3. ASSUME NEW j \in Ids \ unseen'
      PROVE  /\ \A want, seen : Settled(want, seen, kids[j]) => Settled(want, seen, kids'[j])
             /\ \A listed : AsListed(listed, kids[j]) => AsListed(listed, kids'[j])
  BY <1>3, OthersKids, NeverOurs
<1>4. todo \subseteq Ids  BY DEF Typed, WorkerTypes
<1>5. ASSUME pc = "idle", Wants, NEW j \in Ids \ unseen'
      PROVE  Settled(parent.spec[j], parent.status.seen[j], kids'[j])
  BY <1>1, <1>3, <1>5 DEF WholeInv
<1>6. ASSUME pc = "turn", NEW j \in todo \ unseen'
      PROVE  AsListed(known[j], kids'[j])
  BY <1>1, <1>3, <1>4, <1>6 DEF WholeInv
<1>7. ASSUME pc = "turn", Wants, NEW j \in Ids \ (todo \cup unseen')
      PROVE  Settled(parent.spec[j], found[j], kids'[j])
  BY <1>1, <1>3, <1>7 DEF WholeInv
<1>8. Wants' <=> Wants  BY <1>1 DEF Wants
<1>9. /\ pc' = "idle" /\ Wants' =>
            /\ parent.status.obs = parent.gen
            /\ \A j \in Ids \ unseen' : Settled(parent.spec[j], parent.status.seen[j], kids[j])'
  BY <1>1, <1>2, <1>5, <1>8 DEF WholeInv, Settled, OurChild, SkipOwner
<1>10. pc' = "turn" => \A j \in todo' \ unseen' : AsListed(known[j], kids[j])'
  BY <1>1, <1>2, <1>6 DEF AsListed, OurChild, SkipOwner
<1>11. pc' = "turn" /\ Wants' =>
         \A j \in Ids \ (todo' \cup unseen') : Settled(parent.spec[j], found[j], kids[j])'
  BY <1>1, <1>2, <1>7, <1>8 DEF Settled, OurChild, SkipOwner
<1> QED  BY <1>1, <1>2, <1>9, <1>10, <1>11 DEF WholeInv

LEMMA NextWhole ==
  ASSUME FinalizerSkips, Typed, WholeInv, [Next]_vars
  PROVE  WholeInv'
<1>1. CASE Worker
  BY <1>1, BeginWhole, EndOfTurnsWhole, ComposeWhole, ParentWritesWhole, DeleteWhole,
     CreateWhole, UpdateWhole, UnchangedWhole DEF Worker
<1>2. CASE Others
  BY <1>2, OthersWhole, OutOfPlay DEF Others, EditSpec, DeleteParent, Crash, Rest
<1>3. CASE UNCHANGED vars
  BY <1>3 DEF vars, workerVars, WholeInv, Wants, Settled, AsListed, OurChild, SkipOwner
<1> QED  BY <1>1, <1>2, <1>3 DEF Next

\* When the controller rests, every child has had its turn: what is wanted is there
\* and reported, also behind a refused child, and nothing else is left; for any
\* number of children, whichever calls fail (composeChildReconcilers, reflectStatus),
\* except for children that changed unseen.
THEOREM EveryChildSettles ==
  ASSUME FinalizerSkips
  PROVE  Spec => []QuietIsWhole
<1>1. Init => Typed /\ WholeInv
  BY InitTypes DEF Init, WholeInv
<1>2. Typed /\ WholeInv /\ [Next]_vars => Typed' /\ WholeInv'  BY NextTypes, NextWhole
<1> QED  BY <1>1, <1>2, WholeImplied, PTL DEF Spec

=============================================================================
