------------------------- MODULE ChildWakeupProofs -------------------------
(***************************************************************************)
(* What the ChildReconciler leaves behind when it goes quiet, and what it  *)
(* never touches: theorems about the versions of the children, and about   *)
(* the notifications that are still to come.                               *)
(***************************************************************************)
EXTENDS ChildReconcilerProofs

-----------------------------------------------------------------------------
(* The versions of the children.  The server never stores two objects      *)
(* under one name and version, so whoever sees the version it knows sees   *)
(* the object it knows.                                                    *)

KidVersions == {kCache} \cup kWatch

\* Our children among those of f.
OursIn(f) == {n \in Names : OurChild(f[n])}

\* f was there no later than g: at every name an older version, or the same.
Older(f, g) == \A n \in Names : f[n].rv <= g[n].rv /\ (f[n].rv = g[n].rv => f[n] = g[n])

\* What can be stored: an owned object is marked, none has an invalid value, and
\* of an absent one nothing is left.
Storable(k) ==
  /\ k.value \notin Invalid
  /\ k.owned => k.marked
  /\ ~k.there => ~k.owned /\ ~k.marked

\* The informer is behind, delivers in order, and will deliver what is stored.
KidsBehind ==
  /\ \A n \in Names : kids.obj[n].rv <= kids.rev
  /\ \A n \in Names : kids.obj[n].rv = 0 => ~kids.obj[n].there
  /\ \A k \in KidVersions : k.rev <= kids.rev /\ Older(k.obj, kids.obj)
  /\ \A k, q \in KidVersions : k.rev = q.rev => k = q
  /\ \A k \in kWatch : kCache.rev < k.rev
  /\ kids \in KidVersions
  /\ \A k \in KidVersions, n \in Names : Storable(k.obj[n])

\* The worker is acting on a list.
Acting == pc \in {"extras", "clear", "delete", "finalize", "create", "conflict", "update"}

\* The list is behind as well, and says which child is ours.
ListBehind ==
  Acting =>
    /\ Older(list, kids.obj) /\ \A n \in Names : Storable(list[n])
    /\ extras \subseteq OursIn(list)
    /\ pc \in {"clear", "create", "conflict"} => actual = NoName
    /\ pc \in {"delete", "update"} => actual # NoName
    /\ pc # "extras" /\ actual # NoName => OursIn(list) = {actual}
    /\ pc = "conflict" => ~GenerateName

KidInv == KidsBehind /\ ListBehind

-----------------------------------------------------------------------------
(* The wakeups of an owner. *)

\* What is in memory is what the cache has, but for the status, unless a change
\* has queued the parent again.
InHand ==
  pc # "idle" /\ ~queued =>
    /\ res.spec = pCache.spec /\ res.deleting = pCache.deleting
    /\ original = pCache.status
    /\ ~NothingToDo(pCache)
    /\ ~UseFinalizer => res.gen = pCache.gen

\* The latest version is delivered sooner or later; an object that is stored
\* terminates or has a reason to be there.
Latest ==
  /\ parent \in Versions
  /\ \A v \in Versions : v.there <=> ~v.deleting \/ v.fin \/ v.held
  /\ ~UseFinalizer => \A v \in Versions : ~v.fin

\* A version is on its way whose delivery queues the owner.
Pending ==
  \E k \in kWatch, n \in Names :
    k.obj[n] # kCache.obj[n] /\ (k.obj[n].owned \/ kCache.obj[n].owned)

\* No difference an owner would be told of.
Alike(f, g) == \A n \in Names : f[n] = g[n] \/ (~f[n].owned /\ ~g[n].owned)

AtMostOneStays(f) == \A n, m \in OursIn(f) : f[n].deleting \/ f[m].deleting \/ n = m

\* Nothing is left to do for the parent p when the children are f.
Finished(p, f) ==
  /\ AtMostOneStays(f)
  /\ \/ /\ Desired(p) \in Values \ Invalid
        /\ \/ p.status.reason = "conflict"
           \/ /\ p.status = [obs |-> p.gen, ref |-> p.spec, reason |-> "ok"]
              /\ \E n \in OursIn(f) : f[n].value = p.spec
     \/ Desired(p) \in Invalid /\ p.status.reason \in {"invalid", "conflict"}
     \/ Desired(p) = NoChild /\ (\E n \in OursIn(f) : f[n].deleting)
     \/ p.spec = NoChild /\ ~p.deleting /\ ~p.fin /\ OursIn(f) = {}
     \/ p.deleting /\ p.held /\ ~(UseFinalizer /\ p.fin)
     \/ p.spec \in Paused /\ ~p.deleting

\* The list is still good, and once the extras are gone so are all the others.
Accurate ==
  Acting /\ ~queued /\ ~Pending =>
    /\ Alike(list, kCache.obj)
    /\ pc = "extras" => \A n \in OursIn(list) \ extras : list[n].deleting
    /\ pc # "extras" /\ actual = NoName => \A n \in OursIn(list) : list[n].deleting

\* A request that ends for good leaves nothing to do.
Rested ==
  pc = "idle" /\ ~queued /\ pWatch = {} =>
    Pending \/ NothingToDo(pCache) \/ Finished(pCache, kCache.obj)

Awake == InHand /\ Accurate /\ Rested

WakeInv == Latest /\ Awake

-----------------------------------------------------------------------------
(* The children a tracker observes. *)

\* If a child is wanted, the children of ours are tracked.
AllTracked == Desired(pCache) \in Values \ Invalid => Ours \subseteq tracked

\* So they are once the parent has been dealt with, but for its status.
Observed == pc = "idle" \/ (pc = "status" /\ ~failed) => queued \/ AllTracked

\* Before, the worker knows the only child there can be.
TrackedInv ==
  /\ pc = "conflict" => Ours = {}
  /\ pc \notin {"idle", "list", "extras", "status"} /\ actual # NoName => Ours \subseteq {actual}
  /\ Observed

-----------------------------------------------------------------------------
(* How the versions of the children change. *)

\* The versions of the children have the types of the children.
LEMMA VersionTypes ==
  ASSUME TypeOK
  PROVE  /\ kids \in Kids /\ KidVersions \subseteq Kids /\ list \in [Names -> Kid]
         /\ \A k \in Kids : /\ k.rev \in Nat /\ k.obj \in [Names -> Kid]
                            /\ \A n \in Names : k.obj[n].rv \in Nat
BY DEF TypeOK, ClusterTypeOK, KidVersions, Kids, Kid

\* To be older is transitive.
LEMMA OlderTransitive ==
  ASSUME NEW f \in [Names -> Kid], NEW g \in [Names -> Kid], NEW h \in [Names -> Kid],
         Older(f, g), Older(g, h)
  PROVE  Older(f, h)
<1> SUFFICES ASSUME NEW n \in Names
             PROVE  f[n].rv <= h[n].rv /\ (f[n].rv = h[n].rv => f[n] = h[n])
  BY DEF Older
<1>1. f[n].rv \in Nat /\ g[n].rv \in Nat /\ h[n].rv \in Nat
  <2>1. f[n] \in Kid /\ g[n] \in Kid /\ h[n] \in Kid
    OBVIOUS
  <2> QED
    BY <2>1 DEF Kid
<1>2. /\ f[n].rv <= g[n].rv /\ (f[n].rv = g[n].rv => f[n] = g[n])
      /\ g[n].rv <= h[n].rv /\ (g[n].rv = h[n].rv => g[n] = h[n])
  BY DEF Older
<1> QED
  BY <1>1, <1>2

\* What a write of a child stores.
LEMMA StoreKidVersion ==
  ASSUME TypeOK, KidsBehind, NEW n \in Names, NEW k \in Kid, StoreKid(n, k)
  PROVE  /\ kids'.rev = kids.rev + 1 /\ kids' \in Kids
         /\ kids'.obj[n] = [k EXCEPT !.rv = kids.rev + 1]
         /\ \A m \in Names : m # n => kids'.obj[m] = kids.obj[m]
         /\ kWatch' = kWatch \cup {kids'}
         /\ Older(kids.obj, kids'.obj)
<1> DEFINE rev == kids.rev + 1
<1>1. kids.rev \in Nat /\ kids.obj \in [Names -> Kid] /\ rev \in Nat /\ kids.rev < rev
  BY VersionTypes
<1> HIDE DEF rev
<1>2. kids' = [rev |-> rev, obj |-> [kids.obj EXCEPT ![n] = [k EXCEPT !.rv = rev]]]
  BY DEF StoreKid, rev
<1>3. [k EXCEPT !.rv = rev] \in Kid /\ [k EXCEPT !.rv = rev].rv = rev
  BY <1>1 DEF Kid
<1>4. /\ kids'.rev = rev /\ kids' \in Kids
      /\ kids'.obj[n] = [k EXCEPT !.rv = rev]
      /\ \A m \in Names : m # n => kids'.obj[m] = kids.obj[m]
  BY <1>1, <1>2, <1>3 DEF Kids
<1>5. kids.obj[n].rv < rev
  BY <1>1, VersionTypes DEF KidsBehind
<1>6. Older(kids.obj, kids'.obj)
  <2> SUFFICES ASSUME NEW m \in Names
               PROVE  /\ kids.obj[m].rv <= kids'.obj[m].rv
                      /\ kids.obj[m].rv = kids'.obj[m].rv => kids.obj[m] = kids'.obj[m]
    BY DEF Older
  <2>1. kids.obj[m].rv \in Nat
    BY VersionTypes
  <2>2. CASE m = n
    <3>1. kids'.obj[m].rv = rev
      BY <1>3, <1>4, <2>2
    <3> QED
      BY <1>1, <1>5, <2>1, <2>2, <3>1
  <2>3. CASE m # n
    BY <1>4, <2>1, <2>3
  <2> QED
    BY <2>2, <2>3
<1> QED
  BY <1>2, <1>4, <1>6 DEF StoreKid, rev

\* The ways in which the children, and what the informer has of them, change.
KidStored == UNCHANGED kCache /\ \E n \in Names, k \in Kid : Storable(k) /\ StoreKid(n, k)
KidDelivered ==
  /\ UNCHANGED kids
  /\ \E k \in kWatch : /\ \A q \in kWatch : k.rev <= q.rev
                       /\ kCache' = k /\ kWatch' = kWatch \ {k}
KidsListed == UNCHANGED kids /\ kCache' = kids /\ kWatch' = {}

\* An absent object can be stored, and a deletion can.
LEMMA AbsentStorable == Absent \in Kid /\ Storable(Absent)
BY ClusterAssumption DEF Absent, Kid, Contents, Storable

\* A deletion stores something, or nothing if the object is terminating.
LEMMA DeleteStores ==
  ASSUME TypeOK, KidsBehind, NEW n \in Names, DeleteKid(n)
  PROVE  \/ StoreKid(n, Absent)
         \/ ~kids.obj[n].deleting /\ StoreKid(n, [kids.obj[n] EXCEPT !.deleting = TRUE])
            /\ [kids.obj[n] EXCEPT !.deleting = TRUE] \in Kid
            /\ Storable([kids.obj[n] EXCEPT !.deleting = TRUE])
         \/ SlowDelete /\ kids.obj[n].deleting /\ UNCHANGED <<kids, kWatch>>
<1>1. kids.obj[n] \in Kid /\ Storable(kids.obj[n])
  BY VersionTypes DEF KidsBehind
<1>2. [kids.obj[n] EXCEPT !.deleting = TRUE] \in Kid
  BY <1>1 DEF Kid
<1>3. Storable([kids.obj[n] EXCEPT !.deleting = TRUE])
  BY <1>1 DEF Storable, Kid
<1> QED
  BY <1>2, <1>3 DEF DeleteKid

\* A deletion is one of these changes, or none.
LEMMA DeleteChanges ==
  ASSUME TypeOK, KidsBehind, NEW n \in Names, DeleteKid(n), UNCHANGED kCache
  PROVE  KidStored \/ UNCHANGED <<kids, kCache, kWatch>>
BY DeleteStores, AbsentStorable DEF KidStored

\* So is the change of a value.
LEMMA ValueChanges ==
  ASSUME TypeOK, KidsBehind, NEW n \in Names, NEW v \in Values \ Invalid, UNCHANGED kCache,
         StoreKid(n, [kids.obj[n] EXCEPT !.value = v])
  PROVE  KidStored
<1>1. kids.obj[n] \in Kid /\ Storable(kids.obj[n])
  BY VersionTypes DEF KidsBehind
<1>2. [kids.obj[n] EXCEPT !.value = v] \in Kid
  BY <1>1 DEF Kid, Contents
<1>3. Storable([kids.obj[n] EXCEPT !.value = v])
  BY <1>1 DEF Storable, Kid
<1> QED
  BY <1>2, <1>3 DEF KidStored

\* Every step of the system is one of these changes, or none.
LEMMA KidSteps ==
  ASSUME TypeOK, WorkerInv, KidsBehind, [Next]_vars
  PROVE  KidStored \/ KidDelivered \/ KidsListed \/ UNCHANGED <<kids, kCache, kWatch>>
<1> DEFINE Goal == \/ KidStored \/ KidDelivered \/ KidsListed
                   \/ UNCHANGED <<kids, kCache, kWatch>>
<1>1. ASSUME NEW n \in Names, NEW o \in Answers, DeleteExtra(n, o) \/ DeleteChild(n, o)
      PROVE  Goal
  BY <1>1, DeleteChanges DEF DeleteExtra, DeleteChild
<1>2. ASSUME NEW n \in Names, NEW o \in Answers, CreateChild(n, o)
      PROVE  Goal
  <2> DEFINE made == [there |-> TRUE, owned |-> ~SkipOwner, marked |-> TRUE,
                      deleting |-> FALSE, value |-> Desired(res), rv |-> 0]
  <2>1. CASE UNCHANGED <<kids, kWatch>>
    BY <1>2, <2>1 DEF CreateChild
  <2>2. CASE Desired(res) \notin Invalid /\ StoreKid(n, made)
    <3>1. Desired(res) \in Contents
      BY <1>2 DEF CreateChild, WorkerInv, Stages, Contents
    <3>2. (~SkipOwner) \in BOOLEAN
      OBVIOUS
    <3>3. made \in Kid /\ Storable(made)
      <4> HIDE DEF SkipOwner
      <4> QED
        BY <2>2, <3>1, <3>2 DEF Kid, Storable
    <3> QED
      BY <1>2, <2>2, <3>3 DEF CreateChild, KidStored
  <2> QED
    BY <1>2, <2>1, <2>2 DEF CreateChild
<1>3. ASSUME NEW n \in Names, NEW o \in Answers, UpdateChild(n, o)
      PROVE  Goal
  <2>1. \/ UNCHANGED <<kids, kWatch>>
        \/ Desired(res) \notin Invalid
           /\ StoreKid(n, [kids.obj[n] EXCEPT !.value = Desired(res)])
    BY <1>3 DEF UpdateChild
  <2>2. Desired(res) \in Values /\ UNCHANGED kCache
    BY <1>3 DEF UpdateChild, WorkerInv, Stages
  <2> QED
    BY <2>1, <2>2, ValueChanges
<1>4. ASSUME NEW n \in Names, Drift(n)
      PROVE  Goal
  BY <1>4, DeleteChanges, ValueChanges DEF Drift
<1>5. ASSUME NEW n \in Names, Foreign(n)
      PROVE  Goal
  <2>1. ASSUME NEW v \in Values \ Invalid
        PROVE  /\ [Absent EXCEPT !.there = TRUE, !.value = v] \in Kid
               /\ Storable([Absent EXCEPT !.there = TRUE, !.value = v])
    BY DEF Absent, Kid, Contents, Storable
  <2> QED
    BY <1>5, <2>1, AbsentStorable DEF Foreign, KidStored
<1>6. ASSUME NEW n \in Names, FinishDelete(n) \/ CollectGarbage(n)
      PROVE  Goal
  BY <1>6, AbsentStorable, DeleteChanges DEF FinishDelete, CollectGarbage, KidStored
<1>7. CASE EditSpec \/ DeleteParent \/ ReleaseHold \/ Begin \/ DeliverParent \/ UNCHANGED vars
  BY <1>7 DEF EditSpec, DeleteParent, ReleaseHold, Begin, DeliverParent, vars, clusterVars
<1>8. ASSUME NEW o \in Answers,
             ListChildren(o) \/ ClearFinalizer(o) \/ AddFinalizer(o) \/ WriteStatus(o)
      PROVE  Goal
  BY <1>8 DEF ListChildren, ClearFinalizer, AddFinalizer, WriteStatus
<1>9. ASSUME NEW n \in Names, NEW seen \in BOOLEAN, CheckConflict(n, seen)
      PROVE  Goal
  BY <1>9 DEF CheckConflict
<1>10. CASE DeliverKids \/ Crash
  BY <1>10 DEF DeliverKids, KidDelivered, Crash, KidsListed
<1> QED
  BY <1>1, <1>2, <1>3, <1>4, <1>5, <1>6, <1>7, <1>8, <1>9, <1>10
  DEF Next, Worker, Others, Environment

\* What is stored only gets newer.
LEMMA KidsNewer ==
  ASSUME TypeOK, WorkerInv, KidsBehind, [Next]_vars
  PROVE  Older(kids.obj, kids'.obj)
<1>1. CASE UNCHANGED kids
  BY <1>1, VersionTypes DEF Older
<1>2. CASE KidStored
  BY <1>2, StoreKidVersion DEF KidStored
<1> QED
  BY <1>1, <1>2, KidSteps DEF KidDelivered, KidsListed

\* The informer stays behind what is stored.
LEMMA KidsBehindStep ==
  ASSUME TypeOK, WorkerInv, KidsBehind, [Next]_vars
  PROVE  KidsBehind'
<1> USE VersionTypes
<1>1. CASE KidStored
  <2>1. PICK n \in Names, k \in Kid : Storable(k) /\ StoreKid(n, k)
    BY <1>1 DEF KidStored
  <2>2. UNCHANGED kCache
    BY <1>1 DEF KidStored
  <2> DEFINE rev == kids.rev + 1
  <2>3. /\ kids'.rev = rev /\ kids' \in Kids
        /\ kids'.obj[n] = [k EXCEPT !.rv = rev]
        /\ \A m \in Names : m # n => kids'.obj[m] = kids.obj[m]
        /\ kWatch' = kWatch \cup {kids'}
        /\ Older(kids.obj, kids'.obj)
    BY <2>1, StoreKidVersion
  <2>4. rev \in Nat /\ kids.rev < rev
    OBVIOUS
  <2> HIDE DEF rev
  <2>5. kids'.obj[n].rv = rev /\ Storable(kids'.obj[n])
    BY <2>1, <2>3, <2>4 DEF Kid, Storable
  <2>0. kids.rev \in Nat /\ rev # 0 /\ kids \in KidVersions
    BY DEF KidsBehind, rev
  <2>6. ASSUME NEW m \in Names
        PROVE  /\ kids'.obj[m].rv <= kids'.rev /\ Storable(kids'.obj[m])
               /\ kids'.obj[m].rv = 0 => ~kids'.obj[m].there
    <3>1. CASE m = n
      <4>1. /\ kids'.obj[m].rv = rev /\ kids'.rev = rev /\ rev \in Nat /\ rev # 0
            /\ Storable(kids'.obj[m])
        BY <2>0, <2>3, <2>4, <2>5, <3>1
      <4> QED
        BY <4>1
    <3>2. CASE m # n
      <4>1. /\ kids.obj[m].rv \in Nat /\ kids.obj[m].rv <= kids.rev
            /\ Storable(kids.obj[m]) /\ (kids.obj[m].rv = 0 => ~kids.obj[m].there)
        BY <2>0 DEF KidsBehind
      <4> QED
        BY <2>0, <2>3, <2>4, <3>2, <4>1
    <3> QED
      BY <3>1, <3>2
  <2>8. ASSUME NEW q \in KidVersions
        PROVE  q.rev < kids'.rev /\ Older(q.obj, kids'.obj)
    <3>1. q \in Kids /\ q.rev \in Nat /\ q.rev <= kids.rev /\ Older(q.obj, kids.obj)
      BY DEF KidsBehind
    <3>2. /\ q.obj \in [Names -> Kid] /\ kids.obj \in [Names -> Kid]
          /\ kids'.obj \in [Names -> Kid]
      BY <2>3, <3>1
    <3>3. q.rev < kids'.rev
      BY <2>0, <2>3, <2>4, <3>1
    <3> QED
      BY <2>3, <3>1, <3>2, <3>3, OlderTransitive
  <2>9. KidVersions' = KidVersions \cup {kids'}
    BY <2>2, <2>3 DEF KidVersions
  <2>10. Older(kids'.obj, kids'.obj)
    BY <2>3 DEF Older
  <2>11. \A q \in KidVersions' : q.rev <= kids'.rev /\ Older(q.obj, kids'.obj)
    BY <2>3, <2>8, <2>9, <2>10
  <2>14. \A p, q \in KidVersions' : p.rev = q.rev => p = q
    BY <2>3, <2>4, <2>8, <2>9 DEF KidsBehind
  <2>12. \A q \in kWatch' : kCache'.rev < q.rev
    <3>1. kCache.rev < kids'.rev
      BY <2>8 DEF KidVersions
    <3> QED
      BY <2>2, <2>3, <3>1 DEF KidsBehind
  <2>13. \A q \in KidVersions', m \in Names : Storable(q.obj[m])
    BY <2>6, <2>9 DEF KidsBehind
  <2> QED
    BY <2>6, <2>9, <2>11, <2>12, <2>13, <2>14 DEF KidsBehind
<1>2. CASE KidDelivered
  <2>1. PICK k \in kWatch : /\ \A q \in kWatch : k.rev <= q.rev
                            /\ kCache' = k /\ kWatch' = kWatch \ {k}
    BY <1>2 DEF KidDelivered
  <2>2. UNCHANGED kids
    BY <1>2 DEF KidDelivered
  <2>3. KidVersions' \subseteq KidVersions /\ kWatch \subseteq KidVersions'
    BY <2>1 DEF KidVersions
  <2>4. kids \in KidVersions'
    <3>1. CASE kids \in kWatch
      BY <2>3, <3>1
    <3>2. CASE kids = kCache
      BY <2>1, <3>2 DEF KidsBehind, KidVersions
    <3> QED
      BY <3>1, <3>2 DEF KidsBehind, KidVersions
  <2>5. \A q \in kWatch' : kCache'.rev < q.rev
    <3> SUFFICES ASSUME NEW q \in kWatch, q # k
                 PROVE  k.rev < q.rev
      BY <2>1
    <3>1. k.rev <= q.rev /\ q.rev \in Nat /\ k.rev \in Nat
      BY <2>1 DEF KidVersions
    <3>2. k.rev # q.rev
      BY DEF KidsBehind, KidVersions
    <3> QED
      BY ONLY <3>1, <3>2
  <2> QED
    BY <2>2, <2>3, <2>4, <2>5 DEF KidsBehind
<1>3. CASE KidsListed
  BY <1>3 DEF KidsListed, KidsBehind, KidVersions, Older
<1>4. CASE UNCHANGED <<kids, kCache, kWatch>>
  BY <1>4 DEF KidsBehind, KidVersions
<1> QED
  BY <1>1, <1>2, <1>3, <1>4, KidSteps


\* A request that ends is not acting on its list any more.
LEMMA EndNotActing ==
  ASSUME NEW r, NEW ref, NEW reason, Fail \/ Finish(ref, reason) \/ Reflect(r, ref, reason)
  PROVE  ~Acting'
BY EndPc DEF Acting

\* Going on with the actual child: what is known becomes the list.
LEMMA DispatchList ==
  ASSUME NEW known, NEW act \in Names \cup {NoName}, Dispatch(known, act),
         Older(known, kids'.obj), \A n \in Names : Storable(known[n]),
         act # NoName => OursIn(known) = {act}
  PROVE  ListBehind'
<1>1. CASE Desired(res) \in Paused
  BY <1>1, EndNotActing DEF Dispatch, ListBehind
<1>2. CASE Desired(res) \notin Paused
  <2>1. /\ pc' = Route(act) /\ list' = known /\ actual' = act /\ extras' = {}
        /\ act = NoName => pc' \in {"clear", "finalize"}
        /\ act # NoName => pc' \in {"delete", "finalize"}
    BY <1>2 DEF Dispatch, Route
  <2>2. OursIn(list)' = OursIn(known)
    BY <2>1 DEF OursIn, OurChild
  <2> QED
    BY <2>1, <2>2 DEF ListBehind
<1> QED
  BY <1>1, <1>2

\* The list of a request is some version of the children.
LEMMA ListChildrenList ==
  ASSUME TypeOK, KidsBehind, NEW o \in Answers, ListChildren(o)
  PROVE  ListBehind'
<1> DEFINE known == IF CachedList THEN kCache.obj ELSE kids.obj
           ours == {n \in Names : OurChild(known[n])}
<1>1. /\ Older(known, kids'.obj) /\ \A n \in Names : Storable(known[n])
      /\ ours = OursIn(known) /\ UNCHANGED kids
  BY DEF ListChildren, KidsBehind, KidVersions, OursIn
<1>2. \/ Fail
      \/ Dispatch(known, NoName)
      \/ ours # {} /\ Only(ours) /\ Dispatch(known, CHOOSE n \in ours : TRUE)
      \/ pc' = "extras" /\ list' = known /\ extras' = ours
  BY DEF ListChildren
<1>3. CASE ours # {} /\ Only(ours) /\ Dispatch(known, CHOOSE n \in ours : TRUE)
  <2>1. PICK n \in ours : ours = {n}
    BY <1>3 DEF Only
  <2>2. (CHOOSE m \in ours : TRUE) = n /\ n \in Names
    BY <2>1
  <2> HIDE DEF known, ours
  <2>3. Dispatch(known, n) /\ OursIn(known) = {n}
    BY <1>1, <1>3, <2>1, <2>2
  <2> QED
    BY <1>1, <2>2, <2>3, DispatchList
<1>4. CASE pc' = "extras" /\ list' = known /\ extras' = ours
  <2> HIDE DEF known, ours
  <2>1. OursIn(list)' = OursIn(known)
    BY <1>4 DEF OursIn, OurChild
  <2> QED
    BY <1>1, <1>4, <2>1 DEF ListBehind
<1>5. CASE Dispatch(known, NoName)
  <2> HIDE DEF known, ours
  <2> QED
    BY <1>1, <1>5, DispatchList
<1>6. CASE Fail
  BY <1>6, EndNotActing DEF ListBehind
<1> QED
  BY <1>2, <1>3, <1>4, <1>5, <1>6

\* Whoever keeps what the worker goes by keeps its list behind.
LEMMA ListKept ==
  ASSUME TypeOK, ListBehind, Older(kids.obj, kids'.obj), kids' \in Kids,
         Acting => UNCHANGED list /\ extras' \subseteq extras,
         Acting' => Acting /\ UNCHANGED <<pc, actual>>
  PROVE  ListBehind'
<1> SUFFICES ASSUME Acting'
             PROVE  ListBehind'
  BY DEF ListBehind
<1>1. Older(list, kids'.obj)
  BY VersionTypes, OlderTransitive DEF ListBehind
<1>2. OursIn(list)' = OursIn(list)
  BY DEF OursIn, OurChild
<1> QED
  BY <1>1, <1>2 DEF ListBehind

\* Deleting an extra child leaves the list, and goes on without an actual child.
LEMMA DeleteExtraList ==
  ASSUME TypeOK, ListBehind, Older(kids.obj, kids'.obj), kids' \in Kids,
         NEW n \in Names, NEW o \in Answers, DeleteExtra(n, o)
  PROVE  ListBehind'
<1>1. /\ pc = "extras"
      /\ \/ Fail
         \/ Dispatch(list, NoName)
         \/ /\ extras' = extras \ {n}
            /\ UNCHANGED <<pc, list, actual>>
  BY DEF DeleteExtra
<1>2. CASE Dispatch(list, NoName)
  <2>1. Older(list, kids'.obj) /\ \A m \in Names : Storable(list[m])
    BY <1>1, VersionTypes, OlderTransitive DEF ListBehind, Acting
  <2> QED
    BY <1>2, <2>1, DispatchList
<1>3. CASE extras' = extras \ {n} /\ UNCHANGED <<pc, list, actual>>
  BY <1>1, <1>3, ListKept DEF Acting
<1>4. CASE Fail
  BY <1>4, EndNotActing DEF ListBehind
<1> QED
  BY <1>1, <1>2, <1>3, <1>4

\* With the finalizer in place the child is created or updated.
LEMMA AddFinalizerList ==
  ASSUME TypeOK, ListBehind, NEW o \in Answers, AddFinalizer(o)
  PROVE  ListBehind'
<1>1. CASE Fail
  BY <1>1, EndNotActing DEF ListBehind
<1>2. CASE ~Fail
  <2>1. pc = "finalize" /\ pc' = Verb(actual) /\ UNCHANGED <<list, extras, actual, kids>>
    BY <1>2 DEF AddFinalizer
  <2>2. OursIn(list)' = OursIn(list)
    BY <2>1 DEF OursIn, OurChild
  <2> QED
    BY <2>1, <2>2 DEF ListBehind, Acting, Verb
<1> QED
  BY <1>1, <1>2

\* A name in the way was not generated.
LEMMA CreateChildList ==
  ASSUME TypeOK, KidsBehind, ListBehind, Older(kids.obj, kids'.obj), kids' \in Kids,
         NEW n \in Names, NEW o \in Answers, CreateChild(n, o)
  PROVE  ListBehind'
<1>1. CASE Goto("conflict")
  <2>1. /\ pc = "create" /\ pc' = "conflict" /\ UNCHANGED <<list, extras, actual>>
        /\ kids.obj[n].there \/ pc' \in {"idle", "status"}
    BY <1>1, EndPc DEF CreateChild, Goto
  <2>2. ~GenerateName
    BY <2>1 DEF CreateChild, Nameable, KidsBehind
  <2>3. Older(list, kids'.obj)
    BY <2>1, VersionTypes, OlderTransitive DEF ListBehind, Acting
  <2>4. OursIn(list)' = OursIn(list)
    BY <2>1 DEF OursIn, OurChild
  <2> QED
    BY <2>1, <2>2, <2>3, <2>4 DEF ListBehind, Acting
<1>2. CASE ~Goto("conflict")
  <2>1. \/ Fail \/ Finish(Desired(res), "ok") \/ Finish(NoChild, "invalid")
    BY <1>2 DEF CreateChild
  <2> QED
    BY <2>1, EndNotActing DEF ListBehind
<1> QED
  BY <1>1, <1>2

\* Every step keeps the list behind.
LEMMA ListBehindStep ==
  ASSUME TypeOK, TypeOK', WorkerInv, KidInv, [Next]_vars
  PROVE  ListBehind'
<1>1. Older(kids.obj, kids'.obj) /\ kids' \in Kids /\ KidsBehind /\ ListBehind
  BY KidsNewer DEF KidInv, TypeOK, ClusterTypeOK
<1>2. CASE \E o \in Answers : ListChildren(o)
  BY <1>1, <1>2, ListChildrenList
<1>3. CASE \E n \in Names, o \in Answers : DeleteExtra(n, o) \/ CreateChild(n, o)
  BY <1>1, <1>3, DeleteExtraList, CreateChildList
<1>4. CASE \E o \in Answers : AddFinalizer(o)
  BY <1>1, <1>4, AddFinalizerList
<1>5. ASSUME NEW o \in Answers, ClearFinalizer(o)
      PROVE  ~Acting'
  BY <1>5, EndNotActing DEF ClearFinalizer
<1>6. ASSUME NEW n \in Names, NEW o \in Answers, UpdateChild(n, o) \/ DeleteChild(n, o)
      PROVE  ~Acting'
  BY <1>6, EndNotActing DEF UpdateChild, DeleteChild
<1>7. ASSUME NEW n \in Names, NEW seen \in BOOLEAN, CheckConflict(n, seen)
      PROVE  ~Acting'
  BY <1>7, EndNotActing DEF CheckConflict
<1>8. CASE (\E o \in Answers : WriteStatus(o)) \/ Crash \/ Begin
  <2>1. ~Acting' \/ UNCHANGED workerVars
    BY <1>8 DEF WriteStatus, Crash, Rest, Begin, Acting
  <2> QED
    BY <1>1, <2>1, ListKept DEF workerVars, ListBehind, Acting
<1>9. CASE DeliverParent \/ DeliverKids \/ Others \/ UNCHANGED vars
  <2>1. UNCHANGED workerVars
    BY <1>9 DEF DeliverParent, DeliverKids, Others, vars
  <2> QED
    BY <1>1, <2>1, ListKept DEF workerVars, Acting
<1> QED
  BY <1>2, <1>3, <1>4, <1>5, <1>6, <1>7, <1>8, <1>9 DEF Next, Worker, ListBehind

\* The versions, the list and the guard of the finalizer hold together.
LEMMA KidStep ==
  ASSUME GuardInv, KidInv, [Next]_vars
  PROVE  KidInv'
<1>1. GuardInv' /\ TypeOK /\ WorkerInv
  BY NextInv DEF GuardInv, WorkerInv
<1>2. TypeOK'
  BY <1>1 DEF GuardInv
<1> QED
  BY <1>1, <1>2, KidsBehindStep, ListBehindStep DEF KidInv

\* At the start nothing has been stored.
LEMMA InitKids == Init => KidInv
<1> SUFFICES ASSUME Init
             PROVE  KidInv
  OBVIOUS
<1>1. /\ kids = [rev |-> 0, obj |-> [n \in Names |-> Absent]] /\ kCache = kids /\ kWatch = {}
      /\ pc = "idle"
  BY DEF Init, ClusterInit
<1>2. Absent.rv = 0 /\ ~Absent.there
  BY DEF Absent
<1> QED
  BY <1>1, <1>2, AbsentStorable
  DEF KidInv, KidsBehind, ListBehind, Acting, KidVersions, Older

\* Whatever the bounds, a version identifies the object that was stored with it.
THEOREM VersionsIdentify == Spec => [](GuardInv /\ KidInv)
<1>1. Init => GuardInv /\ KidInv
  BY InitInv, InitKids DEF GuardInv, ParentInv, WorkerInv
<1>2. GuardInv /\ KidInv /\ [Next]_vars => (GuardInv /\ KidInv)'
  BY NextInv, KidStep
<1> QED
  BY <1>1, <1>2, PTL DEF Spec


-----------------------------------------------------------------------------
(* What the controller never touches, and what it never says. *)

\* No step of the worker, or of anybody else, changes a foreign object while the
\* worker manages a child, unless that object is deleted by those who made it.
LEMMA ForeignStep ==
  ASSUME TypeOK, WorkerInv, KidInv, [Next]_vars, NEW n \in Names,
         kids.obj[n].there, ~kids.obj[n].marked, pc \in {"create", "conflict", "update"}
  PROVE  kids'.obj[n] \in {kids.obj[n], [Absent EXCEPT !.rv = kids'.rev]}
<1> DEFINE Goal == kids'.obj[n] \in {kids.obj[n], [Absent EXCEPT !.rv = kids'.rev]}
<1>1. ASSUME NEW m \in Names, NEW k \in Kid, StoreKid(m, k), m # n \/ k = Absent
      PROVE  Goal
  BY <1>1, StoreKidVersion DEF KidInv
<1>2. ~kids.obj[n].owned
  BY DEF KidInv, KidsBehind, Storable
<1>3. ASSUME NEW m \in Names, NEW o \in Answers, CreateChild(m, o)
      PROVE  Goal
  <2> DEFINE made == [there |-> TRUE, owned |-> ~SkipOwner, marked |-> TRUE,
                      deleting |-> FALSE, value |-> Desired(res), rv |-> 0]
  <2>1. UNCHANGED kids \/ (m # n /\ StoreKid(m, made))
    BY <1>3 DEF CreateChild
  <2>2. made \in Kid
    <3>1. Desired(res) \in Contents /\ (~SkipOwner) \in BOOLEAN
      BY <1>3 DEF CreateChild, WorkerInv, Stages, Contents
    <3> HIDE DEF SkipOwner
    <3> QED
      BY <3>1 DEF Kid
  <2> QED
    BY <1>1, <2>1, <2>2
<1>4. ASSUME NEW m \in Names, NEW o \in Answers, UpdateChild(m, o)
      PROVE  Goal
  <2>1. UNCHANGED kids \/ (AsListed(m) /\ StoreKid(m, [kids.obj[m] EXCEPT !.value = Desired(res)]))
    BY <1>4 DEF UpdateChild
  <2>2. [kids.obj[m] EXCEPT !.value = Desired(res)] \in Kid
    <3>1. Desired(res) \in Contents /\ kids.obj[m] \in Kid
      BY <1>4, VersionTypes DEF UpdateChild, WorkerInv, Stages, Contents
    <3> QED
      BY <3>1 DEF Kid
  <2>3. AsListed(m) => m # n
    <3>1. m = actual /\ OursIn(list) = {actual} /\ Older(list, kids.obj)
      BY <1>4 DEF UpdateChild, KidInv, ListBehind, Acting
    <3>2. AsListed(m) => OurChild(kids.obj[m])
      BY <3>1 DEF AsListed, OursIn, Older
    <3> QED
      BY <3>2 DEF OurChild
  <2> QED
    BY <1>1, <2>1, <2>2, <2>3
<1>5. ASSUME NEW m \in Names, Drift(m)
      PROVE  Goal
  <2>1. m # n
    BY <1>5 DEF Drift
  <2>2. ASSUME NEW v \in Values
        PROVE  [kids.obj[m] EXCEPT !.value = v] \in Kid
    <3>1. kids.obj[m] \in Kid
      BY VersionTypes
    <3> QED
      BY <3>1 DEF Kid, Contents
  <2> QED
    BY <1>1, <1>5, <2>1, <2>2, DeleteStores, AbsentStorable DEF Drift, KidInv
<1>6. ASSUME NEW m \in Names, Foreign(m)
      PROVE  Goal
  <2>1. ASSUME NEW v \in Values
        PROVE  [Absent EXCEPT !.there = TRUE, !.value = v] \in Kid
    BY DEF Absent, Kid, Contents
  <2> QED
    BY <1>1, <1>6, <2>1, AbsentStorable DEF Foreign
<1>7. ASSUME NEW m \in Names, FinishDelete(m)
      PROVE  Goal
  BY <1>1, <1>7, AbsentStorable DEF FinishDelete
<1>8. ASSUME NEW m \in Names, CollectGarbage(m)
      PROVE  Goal
  BY <1>1, <1>2, <1>8, DeleteStores, AbsentStorable DEF CollectGarbage, KidInv
<1>9. CASE EditSpec \/ DeleteParent \/ ReleaseHold \/ Begin \/ DeliverParent \/ DeliverKids
           \/ Crash \/ UNCHANGED vars
  BY <1>9 DEF EditSpec, DeleteParent, ReleaseHold, Begin, DeliverParent, DeliverKids, Crash,
  vars, clusterVars
<1>10. ASSUME NEW o \in Answers,
              ListChildren(o) \/ ClearFinalizer(o) \/ AddFinalizer(o) \/ WriteStatus(o)
       PROVE  Goal
  BY <1>10 DEF ListChildren, ClearFinalizer, AddFinalizer, WriteStatus
<1>11. ASSUME NEW m \in Names, NEW seen \in BOOLEAN, CheckConflict(m, seen)
       PROVE  Goal
  BY <1>11 DEF CheckConflict
<1>12. ASSUME NEW m \in Names, NEW o \in Answers
       PROVE  ~DeleteExtra(m, o) /\ ~DeleteChild(m, o)
  BY DEF DeleteExtra, DeleteChild
<1> QED
  BY <1>3, <1>4, <1>5, <1>6, <1>7, <1>8, <1>9, <1>10, <1>11, <1>12
  DEF Next, Worker, Others, Environment

\* Create and Update never overwrite a foreign object, not even one that took the
\* child's name after the children were listed.
THEOREM ForeignIsKept == Spec => ForeignKept
<1>1. GuardInv /\ KidInv /\ [Next]_vars =>
        [\A n \in Names :
           kids.obj[n].there /\ ~kids.obj[n].marked /\ pc \in {"create", "conflict", "update"} =>
             kids'.obj[n] \in {kids.obj[n], [Absent EXCEPT !.rv = kids'.rev]}]_vars
  BY ForeignStep DEF GuardInv, WorkerInv
<1> QED
  BY <1>1, VersionsIdentify, PTL DEF Spec, ForeignKept

\* Of the steps that may set the reason, only the lookup after a refused create
\* sets it to a conflict.
LEMMA ReasonStep ==
  ASSUME TypeOK, WorkerInv, [Next]_vars, pc # "idle", res.status.reason # "conflict",
         res'.status.reason = "conflict"
  PROVE  \E n \in Names, seen \in BOOLEAN : CheckConflict(n, seen)
<1> DEFINE Same == res'.status.reason \in {"none", "ok", "invalid", res.status.reason}
<1>1. ASSUME NEW r \in Parent, NEW err, Conclude(r, err)
      PROVE  res'.status.reason \in {"none", r.status.reason}
  BY <1>1 DEF Conclude, Rest, Nobody
<1>2. ASSUME Fail
      PROVE  Same
  BY <1>1, <1>2 DEF Fail, TypeOK
<1>3. ASSUME NEW r \in Parent, NEW ref \in Contents, NEW reason \in {"ok", "invalid"},
             Reflect(r, ref, reason)
      PROVE  Same
  <2> DEFINE q == [r EXCEPT !.status = [obs |-> r.gen, ref |-> ref, reason |-> reason]]
  <2>1. q \in Parent /\ q.status.reason = reason
    BY DEF Parent, Status, Reasons
  <2>2. Conclude(q, FALSE)
    BY <1>3 DEF Reflect
  <2> HIDE DEF q
  <2> QED
    BY <1>1, <2>1, <2>2
<1>4. res \in Parent
  BY DEF TypeOK
<1>5. ASSUME NEW known \in [Names -> Kid], NEW act \in Names \cup {NoName}, Dispatch(known, act)
      PROVE  Same
  <2>1. (IF act = NoName THEN NoChild ELSE known[act].value) \in Contents
    BY DEF Kid, Contents
  <2> QED
    BY <1>3, <1>4, <1>5, <2>1 DEF Dispatch, Finish
<1>6. ASSUME NEW o \in Answers, ListChildren(o)
      PROVE  Same
  <2> DEFINE known == IF CachedList THEN kCache.obj ELSE kids.obj
             ours == {n \in Names : OurChild(known[n])}
  <2>1. known \in [Names -> Kid]
    BY DEF TypeOK, ClusterTypeOK, Kids
  <2>2. \/ Fail \/ UNCHANGED res
        \/ Dispatch(known, NoName)
        \/ ours # {} /\ Dispatch(known, CHOOSE n \in ours : TRUE)
    BY <1>6 DEF ListChildren
  <2>3. ours # {} => (CHOOSE n \in ours : TRUE) \in Names
    OBVIOUS
  <2> HIDE DEF known, ours
  <2> QED
    BY <1>2, <1>5, <2>1, <2>2, <2>3
<1>7. ASSUME NEW n \in Names, NEW o \in Answers, DeleteExtra(n, o)
      PROVE  Same
  <2>1. list \in [Names -> Kid]
    BY DEF TypeOK
  <2> QED
    BY <1>2, <1>5, <1>7, <2>1 DEF DeleteExtra
<1>8. ASSUME NEW add \in BOOLEAN, NEW o \in Answers, PatchFinalizer(add, o)
      PROVE  Patched(add) \in Parent /\ Patched(add).status = res.status
  BY <1>4, <1>8, PatchFinalizerType DEF Patched, Parent
<1>9. ASSUME NEW o \in Answers, ClearFinalizer(o) \/ AddFinalizer(o)
      PROVE  Same
  BY <1>2, <1>3, <1>8, <1>9 DEF ClearFinalizer, AddFinalizer, Contents
<1>10. ASSUME NEW n \in Names, NEW o \in Answers, CreateChild(n, o) \/ UpdateChild(n, o)
       PROVE  Same
  <2>1. \/ Fail \/ UNCHANGED res
        \/ Finish(Desired(res), "ok")
        \/ Finish(NoChild, "invalid")
    BY <1>10 DEF CreateChild, UpdateChild, Goto
  <2>2. Desired(res) \in Contents /\ NoChild \in Contents
    BY <1>10 DEF CreateChild, UpdateChild, WorkerInv, Stages, Contents
  <2> QED
    BY <1>2, <1>3, <1>4, <2>1, <2>2 DEF Finish
<1>11. ASSUME NEW n \in Names, NEW o \in Answers, DeleteChild(n, o)
       PROVE  Same
  BY <1>2, <1>3, <1>4, <1>11 DEF DeleteChild, Finish, Contents
<1>12. CASE DeliverParent \/ DeliverKids \/ Crash \/ Others \/ UNCHANGED vars
  BY <1>12 DEF DeliverParent, DeliverKids, Crash, Rest, Nobody, Others, vars, workerVars
<1>13. ~Begin
  BY DEF Begin
<1>14. ~Same
  OBVIOUS
<1> HIDE DEF Same
<1>15. \/ \E o \in Answers :
            \/ ListChildren(o) \/ ClearFinalizer(o) \/ AddFinalizer(o) \/ WriteStatus(o)
            \/ \E n \in Names : \/ DeleteExtra(n, o) \/ CreateChild(n, o)
                                \/ UpdateChild(n, o) \/ DeleteChild(n, o)
       \/ \E n \in Names, seen \in BOOLEAN : CheckConflict(n, seen)
  BY <1>12, <1>13, <1>14 DEF Next, Worker
<1>16. ASSUME NEW o \in Answers
       PROVE  ~ListChildren(o) /\ ~ClearFinalizer(o) /\ ~AddFinalizer(o) /\ ~WriteStatus(o)
  <2>1. ASSUME WriteStatus(o)
        PROVE  Same
    BY <2>1 DEF WriteStatus, Rest, Nobody, Same
  <2> QED
    BY <1>6, <1>9, <1>14, <2>1
<1>17. ASSUME NEW o \in Answers, NEW n \in Names
       PROVE  /\ ~DeleteExtra(n, o) /\ ~CreateChild(n, o)
              /\ ~UpdateChild(n, o) /\ ~DeleteChild(n, o)
  BY <1>7, <1>10, <1>11, <1>14
<1> QED
  BY <1>15, <1>16, <1>17

\* The lookup sees the object itself: if that is our own there is no conflict.
LEMMA ConflictStep ==
  ASSUME SameNamespace, GuardInv, KidInv, [Next]_vars, pc # "idle",
         res.status.reason # "conflict", res'.status.reason = "conflict"
  PROVE  Ours = {} \/ env'["blind"] < env["blind"]
<1>1. TypeOK /\ WorkerInv /\ res \in Parent /\ env \in [Disturbances -> Nat]
  BY DEF GuardInv, TypeOK, ClusterTypeOK, WorkerInv
<1>2. PICK n \in Names, seen \in BOOLEAN : CheckConflict(n, seen)
  BY <1>1, ReasonStep
<1>3. CASE ~seen
  BY <1>1, <1>2, <1>3 DEF CheckConflict, Spend, Disturbances
<1>4. CASE seen
  <2>1. ~Fail
    BY <1>1 DEF Fail, Conclude, Rest, Nobody
  <2>2. ~OurChild(kids.obj[n])
    BY <1>2, <1>4, <2>1 DEF CheckConflict
  <2>3. \A m \in Names : m = n
    BY <1>2, ReconcilerAssumption DEF CheckConflict, KidInv, ListBehind, Acting
  <2> QED
    BY <2>2, <2>3 DEF Ours
<1> QED
  BY <1>3, <1>4

\* A conflict is reported only if the object in the way is not our own, whatever
\* the cache says, provided that parent and child share the namespace the lookup
\* goes to: in two namespaces it misses, and reports our own child.
THEOREM ConflictsAreReal ==
  ASSUME SameNamespace
  PROVE  Spec => NoFalseConflict
<1>1. GuardInv /\ KidInv /\ [Next]_vars =>
        [res.status.reason # "conflict" /\ res'.status.reason = "conflict" /\ pc # "idle"
           => Ours = {} \/ env'["blind"] < env["blind"]]_vars
  BY ConflictStep
<1> QED
  BY <1>1, VersionsIdentify, PTL DEF Spec, NoFalseConflict

-----------------------------------------------------------------------------
(* An owner is woken by every change of a child it owns.  Without a         *)
(* finalizer, SkipOwner is what the author chose.                          *)

\* Among what can be stored, our children are the owned ones.
LEMMA OwnedAreOurs ==
  ASSUME ~SkipOwner, NEW k, Storable(k), k.owned \in BOOLEAN, k.there \in BOOLEAN
  PROVE  OurChild(k) <=> k.owned
BY DEF OurChild, Storable

\* Nobody who is told of no difference sees one among the children of its own.
LEMMA AlikeOurs ==
  ASSUME ~SkipOwner, NEW f \in [Names -> Kid], NEW g \in [Names -> Kid], Alike(f, g),
         \A n \in Names : Storable(f[n]) /\ Storable(g[n])
  PROVE  OursIn(f) = OursIn(g) /\ \A n \in OursIn(f) : f[n] = g[n]
<1>1. ASSUME NEW n \in Names
      PROVE  /\ OurChild(f[n]) <=> f[n].owned
             /\ OurChild(g[n]) <=> g[n].owned
  <2>1. f[n] \in Kid /\ g[n] \in Kid
    OBVIOUS
  <2> QED
    BY <2>1, OwnedAreOurs DEF Kid
<1>2. ASSUME NEW n \in Names
      PROVE  f[n] = g[n] \/ (~f[n].owned /\ ~g[n].owned)
  BY DEF Alike
<1> QED
  BY <1>1, <1>2 DEF OursIn

\* What is finished for the one is finished for the other.
LEMMA FinishedAlike ==
  ASSUME ~SkipOwner, NEW f \in [Names -> Kid], NEW g \in [Names -> Kid], Alike(f, g),
         \A n \in Names : Storable(f[n]) /\ Storable(g[n]), NEW p, Finished(p, f)
  PROVE  Finished(p, g)
<1>1. OursIn(f) = OursIn(g) /\ \A n \in OursIn(f) : f[n] = g[n]
  BY AlikeOurs
<1>2. AtMostOneStays(g)
  BY <1>1 DEF Finished, AtMostOneStays
<1> QED
  BY <1>1, <1>2 DEF Finished

\* As long as no difference is on its way, the stored children are those of the
\* cache, as far as an owner can tell.
LEMMA StoredAlike ==
  ASSUME KidsBehind, ~Pending
  PROVE  Alike(kids.obj, kCache.obj)
BY DEF KidsBehind, KidVersions, Pending, Alike

\* A write of an owned child is a difference on its way.
LEMMA StoreWakes ==
  ASSUME TypeOK, KidsBehind, NEW n \in Names, NEW k \in Kid, StoreKid(n, k), UNCHANGED kCache,
         k.owned \/ kCache.obj[n].owned
  PROVE  Pending'
<1>1. /\ kids'.obj[n] = [k EXCEPT !.rv = kids.rev + 1]
      /\ kWatch' = kWatch \cup {kids'}
  BY StoreKidVersion
<1>2. kids.rev \in Nat /\ kids.obj[n].rv \in Nat /\ kids.obj[n].rv <= kids.rev
  BY VersionTypes DEF KidsBehind
<1>3. kCache.obj[n].rv \in Nat /\ kCache.obj[n].rv <= kids.obj[n].rv
  BY VersionTypes DEF KidsBehind, KidVersions, Older
<1>4. kids'.obj[n].rv = kids.rev + 1 /\ kids'.obj[n].owned = k.owned
  BY <1>1 DEF Kid
<1>5. kids'.obj[n] # kCache.obj[n]
  BY <1>2, <1>3, <1>4
<1> QED
  BY <1>1, <1>4, <1>5 DEF Pending

\* What is on its way stays on its way while more is stored.
LEMMA PendingStays ==
  ASSUME Pending, UNCHANGED kCache, kWatch \subseteq kWatch'
  PROVE  Pending'
BY DEF Pending

\* Whoever neither works nor delivers leaves the worker awake.
LEMMA AwakeKept ==
  ASSUME Awake, UNCHANGED <<queued, workerVars, pCache, kCache>>,
         kWatch \subseteq kWatch', pWatch \subseteq pWatch'
  PROVE  Awake'
<1>1. Pending => Pending'
  BY PendingStays
<1>2. InHand'
  BY DEF Awake, InHand, workerVars
<1>3. Accurate'
  BY <1>1 DEF Awake, Accurate, Acting, OursIn, workerVars
<1>4. Rested'
  BY <1>1 DEF Awake, Rested, workerVars
<1> QED
  BY <1>2, <1>3, <1>4 DEF Awake

\* A queued parent, and a request that is not acting yet, ask for nothing.
LEMMA AwakeTrivially ==
  ASSUME queued' \/ (pc' # "idle" /\ ~Acting' /\ InHand')
  PROVE  Awake'
BY DEF Awake, InHand, Accurate, Rested

\* A failure queues the parent, at once or once its status is written.
LEMMA FailAwake ==
  ASSUME InHand, Fail, UNCHANGED pCache, pc # "idle"
  PROVE  Awake'
<1>1. CASE res.status # original /\ ~res.deleting
  <2>1. pc' = "status" /\ res' = res /\ UNCHANGED <<queued, original>>
    BY <1>1 DEF Fail, Conclude
  <2>2. InHand'
    BY <2>1 DEF InHand
  <2> QED
    BY <2>1, <2>2, AwakeTrivially DEF Acting
<1>2. CASE ~(res.status # original /\ ~res.deleting)
  <2>1. queued'
    BY <1>2 DEF Fail, Conclude
  <2> QED
    BY <2>1, AwakeTrivially
<1> QED
  BY <1>1, <1>2

\* The status of a parent p with which a request ends.
Reported(p, ref, reason) == [p EXCEPT !.status = [obs |-> p.gen, ref |-> ref, reason |-> reason]]

\* A terminating parent is finished whatever its status says.
LEMMA FinishedDeleting ==
  ASSUME NEW p \in Parent, p.deleting, NEW s, NEW f, Finished([p EXCEPT !.status = s], f)
  PROVE  Finished(p, f)
<1> DEFINE q == [p EXCEPT !.status = s]
<1>1. /\ q.deleting /\ q.spec = p.spec /\ q.held = p.held /\ q.fin = p.fin
      /\ Desired(q) = NoChild /\ Desired(p) = NoChild
  BY DEF Parent, Desired
<1>2. Finished(q, f)
  OBVIOUS
<1> HIDE DEF q
<1> QED
  BY <1>1, <1>2, ClusterAssumption DEF Finished

\* A request that succeeds, without a status to write, leaves nothing to do if what
\* it reports is finished.
LEMMA FinishAwake ==
  ASSUME TypeOK, InHand, ~UseFinalizer, NEW ref, NEW reason, Finish(ref, reason),
         UNCHANGED <<pCache, kCache>>, pc # "idle",
         ~queued /\ ~Pending' => Finished(Reported(pCache, ref, reason), kCache.obj)
  PROVE  Awake'
<1> DEFINE q == Reported(res, ref, reason)
           r == Reported(pCache, ref, reason)
<1>1. /\ pCache \in Parent /\ res \in Parent
      /\ q = [res EXCEPT !.status = [obs |-> res.gen, ref |-> ref, reason |-> reason]]
      /\ Conclude(q, FALSE)
  BY DEF TypeOK, ClusterTypeOK, Finish, Reflect, Reported
<1>2. /\ q.status = [obs |-> res.gen, ref |-> ref, reason |-> reason]
      /\ q.spec = res.spec /\ q.gen = res.gen /\ q.deleting = res.deleting
  BY <1>1 DEF Parent
<1>3. CASE q.status # original /\ ~q.deleting
  <2> HIDE DEF q
  <2>1. pc' = "status" /\ res' = q /\ UNCHANGED <<queued, original>>
    BY <1>1, <1>3 DEF Conclude
  <2>2. InHand'
    BY <1>2, <2>1 DEF InHand
  <2> QED
    BY <2>1, <2>2, AwakeTrivially DEF Acting
<1>4. CASE ~(q.status # original /\ ~q.deleting)
  <2>0. queued \in BOOLEAN
    BY DEF TypeOK
  <2> HIDE DEF q
  <2>1. Rest /\ UNCHANGED queued
    BY <1>1, <1>4, <2>0 DEF Conclude
  <2>2. pc' = "idle"
    BY <2>1 DEF Rest
  <2>3. ASSUME ~queued, ~Pending'
        PROVE  Finished(pCache, kCache.obj)
    <3>1. Finished(r, kCache.obj)
      BY <2>3
    <3>2. /\ res.deleting = pCache.deleting /\ original = pCache.status
          /\ res.gen = pCache.gen
      BY <2>3 DEF InHand
    <3>3. CASE pCache.deleting
      BY <1>1, <3>1, <3>3, FinishedDeleting DEF Reported
    <3>4. CASE ~pCache.deleting
      <4>1. pCache.status = [obs |-> pCache.gen, ref |-> ref, reason |-> reason]
        BY <1>2, <1>4, <3>2, <3>4
      <4>2. r = pCache
        BY <1>1, <4>1 DEF Reported, Parent
      <4> QED
        BY <3>1, <4>2
    <3> QED
      BY <3>3, <3>4
  <2> HIDE DEF r
  <2> QED
    BY <2>1, <2>2, <2>3 DEF Awake, InHand, Accurate, Acting, Rested
<1> QED
  BY <1>3, <1>4

\* The worker goes on with a list that is alike what the cache has: the actual
\* child is the only one of ours, or all of ours are on their way out.
LEMMA DispatchAwake ==
  ASSUME TypeOK, InHand, ~SkipOwner, UNCHANGED <<pCache, kCache>>,
         pc # "idle", NEW known \in [Names -> Kid], NEW act \in Names \cup {NoName},
         Dispatch(known, act), \A n \in Names : Storable(known[n]) /\ Storable(kCache.obj[n]),
         ~queued /\ ~Pending' =>
           /\ Alike(known, kCache.obj)
           /\ act = NoName => \A n \in OursIn(known) : known[n].deleting
           /\ act # NoName => OursIn(known) = {act}
  PROVE  Awake'
<1>1. CASE Desired(res) \in Paused
  <2> DEFINE ref == IF act = NoName THEN NoChild ELSE known[act].value
             r == Reported(pCache, ref, "ok")
  <2>1. Finish(ref, "ok")
    BY <1>1 DEF Dispatch
  <2>2. ASSUME ~queued, ~Pending'
        PROVE  Finished(r, kCache.obj)
    <3>1. AtMostOneStays(kCache.obj)
      <4>1. kCache.obj \in [Names -> Kid]
        BY DEF TypeOK, ClusterTypeOK, Kids
      <4>2. Alike(known, kCache.obj)
        BY <2>2
      <4>3. OursIn(known) = OursIn(kCache.obj) /\ \A n \in OursIn(known) : known[n] = kCache.obj[n]
        BY <4>1, <4>2, AlikeOurs
      <4> QED
        BY <2>2, <4>3 DEF AtMostOneStays
    <3>2. pCache.spec \in Paused /\ ~pCache.deleting
      BY <1>1, <2>2, ClusterAssumption DEF InHand, Desired
    <3>3. r.spec = pCache.spec /\ r.deleting = pCache.deleting
      BY DEF Reported, TypeOK, ClusterTypeOK, Parent
    <3> HIDE DEF r
    <3> QED
      BY <3>1, <3>2, <3>3 DEF Finished
  <2>3. ~UseFinalizer
    BY DEF SkipOwner
  <2> HIDE DEF ref
  <2> QED
    BY <2>1, <2>2, <2>3, FinishAwake
<1>2. CASE Desired(res) \notin Paused
  <2>1. /\ list' = known /\ actual' = act /\ UNCHANGED <<queued, res, original>>
        /\ pc' \in {"clear", "delete", "finalize"}
    BY <1>2 DEF Dispatch, Route
  <2>2. InHand'
    BY <2>1 DEF InHand
  <2>3. Accurate'
    BY <2>1 DEF Accurate, OursIn, OurChild
  <2> QED
    BY <2>1, <2>2, <2>3 DEF Awake, Rested
<1> QED
  BY <1>1, <1>2

\* The list is as good as the cache when it is made.
LEMMA ListChildrenAwake ==
  ASSUME TypeOK, KidsBehind, InHand, ~SkipOwner, NEW o \in Answers, ListChildren(o)
  PROVE  Awake'
<1> DEFINE known == IF CachedList THEN kCache.obj ELSE kids.obj
           ours == {n \in Names : OurChild(known[n])}
<1>1. /\ known \in [Names -> Kid] /\ ours = OursIn(known) /\ ours \subseteq Names
      /\ \A n \in Names : Storable(known[n]) /\ Storable(kCache.obj[n])
      /\ pc # "idle" /\ UNCHANGED <<pCache, kCache, kWatch, kids>>
  BY VersionTypes DEF KidsBehind, KidVersions, OursIn, ListChildren
<1>2. ~Pending' => Alike(known, kCache.obj)
  BY <1>1, StoredAlike DEF Pending, Alike
<1>3. \/ Fail
      \/ ours = {} /\ Dispatch(known, NoName)
      \/ Only(ours) /\ Dispatch(known, CHOOSE n \in ours : TRUE)
      \/ /\ pc' = "extras" /\ list' = known /\ extras' = ours
         /\ UNCHANGED <<queued, res, original>>
  BY DEF ListChildren
<1> HIDE DEF known, ours
<1>4. CASE Fail
  BY <1>1, <1>4, FailAwake
<1>5. CASE ours = {} /\ Dispatch(known, NoName)
  BY <1>1, <1>2, <1>5, DispatchAwake
<1>6. CASE Only(ours) /\ Dispatch(known, CHOOSE n \in ours : TRUE)
  <2>1. PICK n \in ours : ours = {n}
    BY <1>6 DEF Only
  <2>2. (CHOOSE m \in ours : TRUE) = n /\ n \in Names
    BY <1>1, <2>1
  <2>3. Dispatch(known, n) /\ OursIn(known) = {n} /\ n # NoName
    BY <1>1, <1>6, <2>1, <2>2, ReconcilerAssumption
  <2> QED
    BY <1>1, <1>2, <2>2, <2>3, DispatchAwake
<1>7. CASE /\ pc' = "extras" /\ list' = known /\ extras' = ours
           /\ UNCHANGED <<queued, res, original>>
  <2>1. InHand'
    BY <1>1, <1>7 DEF InHand
  <2>2. OursIn(list)' = extras'
    BY <1>1, <1>7 DEF OursIn, OurChild
  <2>3. Accurate'
    BY <1>1, <1>2, <1>7, <2>2 DEF Accurate
  <2> QED
    BY <1>7, <2>1, <2>3 DEF Awake, Rested
<1> QED
  BY <1>3, <1>4, <1>5, <1>6, <1>7

\* While no difference is on its way, the list tells what the cache has.
LEMMA ListTells ==
  ASSUME TypeOK, KidInv, Accurate, ~SkipOwner, Acting, ~queued, ~Pending
  PROVE  /\ OursIn(list) = OursIn(kCache.obj)
         /\ \A n \in OursIn(list) : list[n] = kCache.obj[n] /\ list[n].owned
<1>1. /\ list \in [Names -> Kid] /\ kCache.obj \in [Names -> Kid]
      /\ \A n \in Names : Storable(list[n]) /\ Storable(kCache.obj[n])
  BY VersionTypes DEF KidInv, KidsBehind, ListBehind, KidVersions
<1>2. Alike(list, kCache.obj)
  BY DEF Accurate
<1>3. OursIn(list) = OursIn(kCache.obj) /\ \A n \in OursIn(list) : list[n] = kCache.obj[n]
  BY <1>1, <1>2, AlikeOurs
<1>4. \A n \in OursIn(list) : list[n].owned
  BY DEF OursIn, OurChild
<1> QED
  BY <1>3, <1>4

\* Deleting a child of the list is a difference on its way, unless the child is
\* terminating already.
LEMMA DeleteAwake ==
  ASSUME TypeOK, KidInv, Accurate, ~SkipOwner, Acting, ~queued, NEW n \in OursIn(list),
         DeleteKid(n), UNCHANGED kCache
  PROVE  Pending' \/ list[n].deleting
<1> SUFFICES ASSUME ~Pending, ~list[n].deleting
             PROVE  Pending'
  BY DeleteChanges, PendingStays DEF KidInv, DeleteKid, StoreKid
<1>1. list[n] = kCache.obj[n] /\ kCache.obj[n].owned /\ n \in Names
  BY ListTells DEF OursIn
<1>2. kids.obj[n] = kCache.obj[n]
  <2>1. Alike(kids.obj, kCache.obj)
    BY StoredAlike DEF KidInv
  <2> QED
    BY <1>1, <2>1 DEF Alike
<1>3. \/ StoreKid(n, Absent)
      \/ /\ StoreKid(n, [kids.obj[n] EXCEPT !.deleting = TRUE])
         /\ [kids.obj[n] EXCEPT !.deleting = TRUE] \in Kid
  BY <1>1, <1>2, DeleteStores DEF KidInv
<1> QED
  BY <1>1, <1>3, AbsentStorable, StoreWakes DEF KidInv

\* Once the extra children are gone, the children of ours are all on their way out.
LEMMA DeleteExtraAwake ==
  ASSUME TypeOK, KidInv, InHand, Accurate, ~SkipOwner, NEW n \in Names, NEW o \in Answers,
         DeleteExtra(n, o)
  PROVE  Awake'
<1>1. /\ pc = "extras" /\ Acting /\ UNCHANGED <<pCache, kCache>> /\ n \in OursIn(list)
      /\ list \in [Names -> Kid]
      /\ \A m \in Names : Storable(list[m]) /\ Storable(kCache.obj[m])
  BY VersionTypes DEF DeleteExtra, Acting, KidInv, ListBehind, KidsBehind, KidVersions
<1>2. CASE Fail
  BY <1>1, <1>2, FailAwake
<1>3. CASE ~Fail
  <2>1. /\ DeleteKid(n)
        /\ \/ extras = {n} /\ Dispatch(list, NoName)
           \/ /\ extras' = extras \ {n}
              /\ UNCHANGED <<queued, pc, res, original, list, actual>>
    BY <1>3 DEF DeleteExtra
  <2>2. ASSUME ~queued, ~Pending'
        PROVE  /\ Alike(list, kCache.obj)
               /\ \A m \in OursIn(list) \ (extras \ {n}) : list[m].deleting
    <3>1. list[n].deleting
      BY <1>1, <2>1, <2>2, DeleteAwake
    <3>2. ~Pending
      <4>1. kWatch \subseteq kWatch'
        BY <2>1 DEF DeleteKid, StoreKid
      <4> QED
        BY <1>1, <2>2, <4>1, PendingStays
    <3> QED
      BY <1>1, <2>2, <3>1, <3>2 DEF Accurate
  <2>3. CASE extras = {n} /\ Dispatch(list, NoName)
    <3>1. ~queued /\ ~Pending' =>
            Alike(list, kCache.obj) /\ \A m \in OursIn(list) : list[m].deleting
      BY <2>2, <2>3
    <3> QED
      BY <1>1, <2>3, <3>1, DispatchAwake
  <2>4. CASE /\ extras' = extras \ {n}
             /\ UNCHANGED <<queued, pc, res, original, list, actual>>
    <3>1. InHand'
      BY <1>1, <2>4 DEF InHand
    <3>2. OursIn(list)' = OursIn(list)
      BY <2>4 DEF OursIn, OurChild
    <3>3. Accurate'
      BY <1>1, <2>2, <2>4, <3>2 DEF Accurate
    <3> QED
      BY <1>1, <2>4, <3>1, <3>3 DEF Awake, Rested
  <2> QED
    BY <2>1, <2>3, <2>4
<1> QED
  BY <1>2, <1>3

\* A report changes the status and nothing else.
LEMMA ReportedFields ==
  ASSUME NEW p \in Parent, NEW ref, NEW reason, NEW r \in {Reported(p, ref, reason)}
  PROVE  /\ r.deleting = p.deleting /\ r.held = p.held /\ r.fin = p.fin
         /\ r.spec = p.spec /\ r.gen = p.gen /\ Desired(r) = Desired(p)
         /\ r.status.reason = reason
BY DEF Reported, Parent, Desired

\* Without an actual child, the children of ours are all on their way out.
LEMMA AllLeaving ==
  ASSUME TypeOK, KidInv, Accurate, ~SkipOwner, Acting, pc # "extras", actual = NoName,
         ~queued, ~Pending
  PROVE  /\ \A n \in OursIn(kCache.obj) : kCache.obj[n].deleting
         /\ AtMostOneStays(kCache.obj)
BY ListTells DEF Accurate, AtMostOneStays

\* The finalizer of an owner that relies on ownership does not exist.
LEMMA NothingPatched ==
  ASSUME ~SkipOwner, NEW add \in BOOLEAN, NEW o, PatchFinalizer(add, o)
  PROVE  /\ UNCHANGED <<parent, pWatch, env>> /\ Patches(add, o) /\ Patched(add) = res
         /\ ~UseFinalizer
BY DEF SkipOwner, PatchFinalizer, Patches, Patched, Differs

\* Nothing is desired, and no child is left to delete.
LEMMA ClearFinalizerAwake ==
  ASSUME TypeOK, WorkerInv, KidInv, Latest, InHand, Accurate, ~SkipOwner, NEW o \in Answers,
         ClearFinalizer(o)
  PROVE  Awake'
<1> DEFINE r == Reported(pCache, NoChild, "ok")
<1>1. /\ pc = "clear" /\ Acting /\ actual = NoName /\ ~UseFinalizer
      /\ Finish(NoChild, "ok") /\ UNCHANGED <<pCache, kCache, kWatch>>
  BY NothingPatched DEF ClearFinalizer, Acting, Finish, KidInv, ListBehind
<1>2. ASSUME ~queued, ~Pending'
      PROVE  Finished(r, kCache.obj)
  <2>1. ~Pending
    BY <1>1, <1>2 DEF Pending
  <2>2. /\ \A n \in OursIn(kCache.obj) : kCache.obj[n].deleting
        /\ AtMostOneStays(kCache.obj)
    BY <1>1, <1>2, <2>1, AllLeaving
  <2>3. Desired(pCache) = NoChild /\ ~NothingToDo(pCache)
    BY <1>1, <1>2 DEF WorkerInv, Stages, Wants, InHand, Desired
  <2>4. pCache \in Parent /\ ~pCache.fin
    BY <1>1 DEF Latest, Versions, TypeOK, ClusterTypeOK
  <2>5. \/ pCache.spec = NoChild /\ ~pCache.deleting
        \/ pCache.deleting /\ pCache.held
    BY <2>3, <2>4 DEF Desired, NothingToDo
  <2>6. r \in {Reported(pCache, NoChild, "ok")}
    OBVIOUS
  <2> HIDE DEF r
  <2>7. /\ r.deleting = pCache.deleting /\ r.held = pCache.held /\ r.fin = pCache.fin
        /\ r.spec = pCache.spec /\ Desired(r) = Desired(pCache)
    BY <2>4, <2>6, ReportedFields
  <2> QED
    BY <1>1, <2>2, <2>3, <2>4, <2>5, <2>7 DEF Finished
<1> QED
  BY <1>1, <1>2, FinishAwake

\* On to creating or updating the child.
LEMMA AddFinalizerAwake ==
  ASSUME TypeOK, Awake, ~SkipOwner, NEW o \in Answers, AddFinalizer(o)
  PROVE  Awake'
<1>1. /\ pc = "finalize" /\ pc' \in {"create", "update"}
      /\ UNCHANGED <<queued, res, original, list, extras, actual, pCache, kCache, kWatch>>
  BY NothingPatched DEF AddFinalizer, Verb
<1>2. InHand'
  BY <1>1 DEF Awake, InHand
<1>3. Accurate'
  BY <1>1 DEF Awake, Accurate, Acting, OursIn, OurChild, Pending
<1> QED
  BY <1>1, <1>2, <1>3 DEF Awake, Rested

\* A child of our own that is created is owned: its creation wakes the owner.
LEMMA CreateChildAwake ==
  ASSUME TypeOK, WorkerInv, KidInv, Awake, ~SkipOwner, NEW n \in Names, NEW o \in Answers,
         CreateChild(n, o)
  PROVE  Awake'
<1> DEFINE want == Desired(res)
           made == [there |-> TRUE, owned |-> TRUE, marked |-> TRUE,
                    deleting |-> FALSE, value |-> want, rv |-> 0]
           r == Reported(pCache, NoChild, "invalid")
<1>1. /\ pc = "create" /\ Acting /\ actual = NoName /\ ~UseFinalizer
      /\ UNCHANGED <<pCache, kCache>> /\ want \in Values /\ InHand /\ Accurate
  BY DEF CreateChild, Acting, KidInv, ListBehind, SkipOwner, WorkerInv, Stages, Awake
<1>2. \/ Fail
      \/ want \in Invalid /\ Finish(NoChild, "invalid") /\ UNCHANGED kWatch
      \/ Goto("conflict") /\ UNCHANGED kWatch
      \/ StoreKid(n, made) /\ Finish(want, "ok")
  BY DEF CreateChild
<1>3. CASE Fail
  BY <1>1, <1>3, FailAwake
<1>4. CASE want \in Invalid /\ Finish(NoChild, "invalid") /\ UNCHANGED kWatch
  <2>1. ASSUME ~queued, ~Pending'
        PROVE  Finished(r, kCache.obj)
    <3>1. ~Pending
      BY <1>1, <1>4, <2>1 DEF Pending
    <3>2. AtMostOneStays(kCache.obj)
      BY <1>1, <2>1, <3>1, AllLeaving
    <3>3. pCache \in Parent /\ Desired(pCache) \in Invalid
      BY <1>1, <1>4, <2>1 DEF InHand, Desired, TypeOK, ClusterTypeOK
    <3>4. r \in {Reported(pCache, NoChild, "invalid")}
      OBVIOUS
    <3> HIDE DEF r
    <3>5. Desired(r) \in Invalid /\ r.status.reason = "invalid"
      BY <3>3, <3>4, ReportedFields
    <3> QED
      BY <3>2, <3>5 DEF Finished
  <2> QED
    BY <1>1, <1>4, <2>1, FinishAwake
<1>5. CASE Goto("conflict") /\ UNCHANGED kWatch
  <2>1. /\ pc' = "conflict"
        /\ UNCHANGED <<queued, res, original, list, extras, actual, pCache, kCache, kWatch>>
    BY <1>1, <1>5 DEF Goto
  <2>2. InHand'
    BY <1>1, <2>1 DEF InHand
  <2>3. Accurate'
    BY <1>1, <2>1 DEF Accurate, OursIn, OurChild, Pending
  <2> QED
    BY <2>1, <2>2, <2>3 DEF Awake, Rested
<1>6. CASE StoreKid(n, made) /\ Finish(want, "ok")
  <2>1. made \in Kid /\ made.owned
    BY <1>1 DEF Kid, Contents
  <2>2. Pending'
    BY <1>1, <1>6, <2>1, StoreWakes DEF KidInv
  <2> QED
    BY <1>1, <1>6, <2>2, FinishAwake
<1> QED
  BY <1>2, <1>3, <1>4, <1>5, <1>6

\* An object in the way that is not ours is reported, and nobody retries.
LEMMA CheckConflictAwake ==
  ASSUME TypeOK, WorkerInv, KidInv, InHand, Accurate, ~SkipOwner, NEW n \in Names,
         NEW seen \in BOOLEAN, CheckConflict(n, seen)
  PROVE  Awake'
<1> DEFINE r == Reported(pCache, NoChild, "conflict")
<1>1. /\ pc = "conflict" /\ Acting /\ actual = NoName /\ ~UseFinalizer
      /\ UNCHANGED <<pCache, kCache, kWatch>> /\ Desired(res) \in Values
  BY DEF CheckConflict, Acting, KidInv, ListBehind, SkipOwner, WorkerInv, Stages
<1>2. CASE Fail
  BY <1>1, <1>2, FailAwake
<1>3. CASE Finish(NoChild, "conflict")
  <2>1. ASSUME ~queued, ~Pending'
        PROVE  Finished(r, kCache.obj)
    <3>1. ~Pending
      BY <1>1, <2>1 DEF Pending
    <3>2. AtMostOneStays(kCache.obj)
      BY <1>1, <2>1, <3>1, AllLeaving
    <3>3. pCache \in Parent /\ Desired(pCache) \in Values
      BY <1>1, <2>1 DEF InHand, Desired, TypeOK, ClusterTypeOK
    <3>4. r \in {Reported(pCache, NoChild, "conflict")}
      OBVIOUS
    <3> HIDE DEF r
    <3>5. Desired(r) \in Values /\ r.status.reason = "conflict"
      BY <3>3, <3>4, ReportedFields
    <3> QED
      BY <3>2, <3>5 DEF Finished
  <2> QED
    BY <1>1, <1>3, <2>1, FinishAwake
<1> QED
  BY <1>2, <1>3 DEF CheckConflict

\* The only child of ours is what is wanted, is rejected, or is written.
LEMMA UpdateChildAwake ==
  ASSUME TypeOK, WorkerInv, KidInv, InHand, Accurate, ~SkipOwner, NEW n \in Names,
         NEW o \in Answers, UpdateChild(n, o)
  PROVE  Awake'
<1> DEFINE want == Desired(res)
           next == [kids.obj[n] EXCEPT !.value = want]
           ok == Reported(pCache, want, "ok")
           bad == Reported(pCache, NoChild, "invalid")
<1>1. /\ pc = "update" /\ Acting /\ n = actual /\ ~UseFinalizer /\ OursIn(list) = {n}
      /\ UNCHANGED <<pCache, kCache>> /\ want \in Values /\ want = res.spec
      /\ list[n].value \notin Invalid /\ pCache \in Parent
  BY DEF UpdateChild, Acting, KidInv, ListBehind, SkipOwner, WorkerInv, Stages, Storable,
     Desired, TypeOK, ClusterTypeOK
<1>2. \/ Fail
      \/ list[n].value = want /\ Finish(want, "ok") /\ UNCHANGED kWatch
      \/ want \in Invalid /\ Finish(NoChild, "invalid") /\ UNCHANGED kWatch
      \/ AsListed(n) /\ StoreKid(n, next) /\ Finish(want, "ok")
  BY DEF UpdateChild
<1>3. CASE Fail
  BY <1>1, <1>3, FailAwake
<1>4. ASSUME ~queued, ~Pending
      PROVE  /\ OursIn(kCache.obj) = {n} /\ kCache.obj[n] = list[n] /\ list[n].owned
             /\ Desired(pCache) = want /\ pCache.spec = want /\ AtMostOneStays(kCache.obj)
  BY <1>1, <1>4, ListTells DEF InHand, Desired, AtMostOneStays
<1>5. CASE list[n].value = want /\ Finish(want, "ok") /\ UNCHANGED kWatch
  <2>1. ASSUME ~queued, ~Pending'
        PROVE  Finished(ok, kCache.obj)
    <3>1. ~Pending
      BY <1>1, <1>5, <2>1 DEF Pending
    <3>2. /\ OursIn(kCache.obj) = {n} /\ kCache.obj[n].value = want
          /\ Desired(pCache) = want /\ pCache.spec = want /\ AtMostOneStays(kCache.obj)
      BY <1>4, <1>5, <2>1, <3>1
    <3>3. ok.status = [obs |-> pCache.gen, ref |-> want, reason |-> "ok"]
      BY <1>1 DEF Reported, Parent
    <3>4. ok \in {Reported(pCache, want, "ok")} /\ want \notin Invalid
      BY <1>1, <1>5
    <3> HIDE DEF ok
    <3>5. Desired(ok) = want /\ ok.spec = want /\ ok.gen = pCache.gen
      BY <1>1, <3>2, <3>4, ReportedFields
    <3> HIDE DEF want
    <3> QED
      BY <1>1, <3>2, <3>3, <3>4, <3>5 DEF Finished
  <2> HIDE DEF want
  <2> QED
    BY <1>1, <1>5, <2>1, FinishAwake
<1>6. CASE want \in Invalid /\ Finish(NoChild, "invalid") /\ UNCHANGED kWatch
  <2>1. ASSUME ~queued, ~Pending'
        PROVE  Finished(bad, kCache.obj)
    <3>1. ~Pending
      BY <1>1, <1>6, <2>1 DEF Pending
    <3>2. Desired(pCache) = want /\ AtMostOneStays(kCache.obj)
      BY <1>4, <2>1, <3>1
    <3>3. bad \in {Reported(pCache, NoChild, "invalid")}
      OBVIOUS
    <3> HIDE DEF bad
    <3>4. Desired(bad) = want /\ bad.status.reason = "invalid"
      BY <1>1, <3>2, <3>3, ReportedFields
    <3> QED
      BY <1>6, <3>2, <3>4 DEF Finished
  <2> QED
    BY <1>1, <1>6, <2>1, FinishAwake
<1>7. CASE AsListed(n) /\ StoreKid(n, next) /\ Finish(want, "ok")
  <2>1. next \in Kid /\ next.owned = kids.obj[n].owned /\ kids.obj[n] \in Kid
    BY <1>1, VersionTypes DEF Kid, Contents
  <2>2. kids.obj[n] = list[n]
    BY <1>1, <1>7 DEF AsListed, KidInv, ListBehind, Older
  <2>3. list[n].owned
    BY <1>1 DEF OursIn, OurChild
  <2>4. Pending'
    BY <1>1, <1>7, <2>1, <2>2, <2>3, StoreWakes DEF KidInv
  <2> HIDE DEF want
  <2> QED
    BY <1>1, <1>7, <2>4, FinishAwake
<1> QED
  BY <1>2, <1>3, <1>5, <1>6, <1>7

\* An unwanted child is deleted, or is on its way out.
LEMMA DeleteChildAwake ==
  ASSUME TypeOK, WorkerInv, KidInv, InHand, Accurate, ~SkipOwner, NEW n \in Names,
         NEW o \in Answers, DeleteChild(n, o)
  PROVE  Awake'
<1> DEFINE r == Reported(pCache, NoChild, "ok")
<1>1. /\ pc = "delete" /\ Acting /\ n = actual /\ ~UseFinalizer /\ OursIn(list) = {n}
      /\ UNCHANGED <<pCache, kCache>> /\ Desired(res) = NoChild
  BY DEF DeleteChild, Acting, KidInv, ListBehind, SkipOwner, WorkerInv, Stages, Wants
<1>2. \/ Fail
      \/ /\ Finish(NoChild, "ok")
         /\ (list[n].deleting /\ UNCHANGED kWatch) \/ DeleteKid(n)
  BY DEF DeleteChild
<1>3. CASE Fail
  BY <1>1, <1>3, FailAwake
<1>4. CASE /\ Finish(NoChild, "ok")
           /\ (list[n].deleting /\ UNCHANGED kWatch) \/ DeleteKid(n)
  <2>1. ASSUME ~queued, ~Pending'
        PROVE  Finished(r, kCache.obj)
    <3>1. list[n].deleting
      BY <1>1, <1>4, <2>1, DeleteAwake
    <3>2. ~Pending
      <4>1. kWatch \subseteq kWatch'
        BY <1>4 DEF DeleteKid, StoreKid
      <4> QED
        BY <1>1, <2>1, <4>1, PendingStays
    <3>3. OursIn(kCache.obj) = {n} /\ kCache.obj[n].deleting /\ AtMostOneStays(kCache.obj)
      BY <1>1, <2>1, <3>1, <3>2, ListTells DEF AtMostOneStays
    <3>4. pCache \in Parent /\ Desired(pCache) = NoChild
      BY <1>1, <2>1 DEF InHand, Desired, TypeOK, ClusterTypeOK
    <3>5. r \in {Reported(pCache, NoChild, "ok")}
      OBVIOUS
    <3> HIDE DEF r
    <3>6. Desired(r) = NoChild
      BY <3>4, <3>5, ReportedFields
    <3> QED
      BY <3>3, <3>6 DEF Finished
  <2> QED
    BY <1>1, <1>4, <2>1, FinishAwake
<1> QED
  BY <1>2, <1>3, <1>4

\* A request begins with what the cache has, or there is nothing to do.
LEMMA BeginAwake ==
  ASSUME TypeOK, Begin
  PROVE  Awake'
<1>1. UNCHANGED <<pCache, kCache, kWatch>> /\ pCache \in Parent
  BY DEF Begin, TypeOK, ClusterTypeOK, clusterVars
<1>2. CASE NothingToDo(pCache)
  <2>1. pc' = "idle" /\ NothingToDo(pCache')
    BY <1>1, <1>2 DEF Begin, workerVars, NothingToDo
  <2> QED
    BY <2>1 DEF Awake, InHand, Accurate, Acting, Rested
<1>3. CASE ~NothingToDo(pCache)
  <2>1. /\ pc' = "list" /\ original' = pCache.status
        /\ res'.spec = pCache.spec /\ res'.deleting = pCache.deleting /\ res'.gen = pCache.gen
    BY <1>1, <1>3 DEF Begin, Parent
  <2>2. InHand'
    BY <1>1, <1>3, <2>1 DEF InHand, NothingToDo
  <2> QED
    BY <2>1, <2>2, AwakeTrivially DEF Acting
<1> QED
  BY <1>2, <1>3

\* A status that is written comes back as a version of the parent.
LEMMA WriteStatusAwake ==
  ASSUME TypeOK, NEW o \in Answers, WriteStatus(o)
  PROVE  Awake'
<1>1. CASE queued'
  BY <1>1, AwakeTrivially
<1>2. CASE ~queued'
  <2>1. pc' = "idle" /\ pWatch' # {}
    BY <1>2 DEF WriteStatus, Rest, StoreParent
  <2> QED
    BY <2>1 DEF Awake, InHand, Accurate, Acting, Rested
<1> QED
  BY <1>1, <1>2

\* A version of the children that queues nobody is alike the one before.
LEMMA DeliverKidsAwake ==
  ASSUME TypeOK, KidInv, Awake, ~SkipOwner, DeliverKids
  PROVE  Awake'
<1>1. PICK k \in kWatch :
        /\ kCache' = k /\ kWatch' = kWatch \ {k}
        /\ queued' = (queued \/ \E n \in Names : /\ k.obj[n] # kCache.obj[n]
                                                 /\ Notifies(n, kCache.obj[n], k.obj[n]))
  BY DEF DeliverKids
<1>2. CASE queued'
  BY <1>2, AwakeTrivially
<1>3. CASE ~queued'
  <2>1. ~queued /\ Alike(k.obj, kCache.obj)
    BY <1>1, <1>3 DEF Notifies, Alike
  <2>2. UNCHANGED <<workerVars, pCache, pWatch>> /\ k \in KidVersions
    BY <1>1 DEF DeliverKids, KidVersions
  <2>3. Pending => Pending'
    <3> SUFFICES ASSUME NEW q \in kWatch, NEW n \in Names, q.obj[n] # kCache.obj[n],
                        q.obj[n].owned \/ kCache.obj[n].owned
                 PROVE  Pending'
      BY DEF Pending
    <3>1. k.obj[n] = kCache.obj[n] \/ (~k.obj[n].owned /\ ~kCache.obj[n].owned)
      BY <2>1 DEF Alike
    <3>2. q.obj[n] # k.obj[n] /\ (q.obj[n].owned \/ k.obj[n].owned)
      BY <3>1
    <3>3. q \in kWatch' /\ kCache' = k
      BY <1>1, <3>2
    <3> QED
      BY <3>2, <3>3 DEF Pending
  <2>4. InHand'
    BY <2>1, <2>2 DEF Awake, InHand, workerVars
  <2>5. Accurate'
    <3> SUFFICES ASSUME Acting', ~Pending'
                 PROVE  /\ Alike(list, k.obj)
                        /\ pc = "extras" => \A n \in OursIn(list) \ extras : list[n].deleting
                        /\ pc # "extras" /\ actual = NoName =>
                             \A n \in OursIn(list) : list[n].deleting
      BY <1>1, <2>2 DEF Accurate, OursIn, OurChild, workerVars
    <3>1. Acting /\ ~Pending
      BY <2>2, <2>3 DEF Acting, workerVars
    <3>2. Alike(list, kCache.obj)
      BY <2>1, <3>1 DEF Awake, Accurate
    <3> QED
      BY <2>1, <3>1, <3>2 DEF Awake, Accurate, Alike
  <2>6. Rested'
    <3> SUFFICES ASSUME pc = "idle", pWatch = {}, ~Pending', ~NothingToDo(pCache)
                 PROVE  Finished(pCache, k.obj)
      BY <1>1, <2>2 DEF Rested, workerVars
    <3>1. Finished(pCache, kCache.obj)
      BY <2>1, <2>3 DEF Awake, Rested
    <3>2. k.obj \in [Names -> Kid] /\ kCache.obj \in [Names -> Kid]
      BY <2>2, VersionTypes DEF KidVersions
    <3>3. \A n \in Names : Storable(k.obj[n]) /\ Storable(kCache.obj[n])
      BY <2>2 DEF KidInv, KidsBehind, KidVersions
    <3>4. Alike(kCache.obj, k.obj)
      BY <2>1 DEF Alike
    <3> QED
      BY <3>1, <3>2, <3>3, <3>4, FinishedAlike
  <2> QED
    BY <2>4, <2>5, <2>6 DEF Awake
<1> QED
  BY <1>2, <1>3

\* A new process queues every parent that is there.
LEMMA CrashAwake ==
  ASSUME Crash
  PROVE  Awake'
<1>1. pc' = "idle" /\ pCache' = parent /\ queued' = parent.there
  BY DEF Crash, Rest
<1> QED
  BY <1>1 DEF Awake, InHand, Accurate, Acting, Rested, NothingToDo

\* Users and other controllers leave the worker alone, and only add versions.
LEMMA OthersAwake ==
  ASSUME TypeOK, KidInv, Awake, Others
  PROVE  Awake'
<1>1. ASSUME NEW n \in Names, DeleteKid(n)
      PROVE  kWatch \subseteq kWatch'
  BY <1>1 DEF DeleteKid, StoreKid
<1>2. /\ UNCHANGED <<queued, workerVars, pCache, kCache>>
      /\ kWatch \subseteq kWatch' /\ pWatch \subseteq pWatch'
  <2>1. CASE EditSpec \/ DeleteParent \/ ReleaseHold
    BY <2>1 DEF Others, EditSpec, DeleteParent, ReleaseHold, StoreParent
  <2>2. ASSUME NEW n \in Names, Drift(n) \/ Foreign(n) \/ FinishDelete(n) \/ CollectGarbage(n)
        PROVE  UNCHANGED <<pCache, kCache, pWatch>> /\ kWatch \subseteq kWatch'
    BY <1>1, <2>2 DEF Drift, Foreign, FinishDelete, CollectGarbage, StoreKid
  <2> QED
    BY <2>1, <2>2 DEF Others, Environment
<1> QED
  BY <1>2, AwakeKept

\* The parent as it is stored is delivered sooner or later.
LEMMA LatestStep ==
  ASSUME TypeOK, Behind, Latest, [Next]_vars
  PROVE  Latest'
<1>1. parent \in Versions /\ parent \in Parent /\ (~UseFinalizer => ~parent.fin)
  BY DEF Latest, TypeOK, ClusterTypeOK
<1>2. ASSUME NEW p \in Parent, ~UseFinalizer => ~p.fin, StoreParent(p), UNCHANGED pCache
      PROVE  Latest'
  <2>1. pWatch' = pWatch \cup {parent'} /\ Versions' = Versions \cup {parent'}
    BY <1>2 DEF StoreParent, Versions
  <2>2. /\ ~UseFinalizer => ~parent'.fin
        /\ (parent'.there <=> ~parent'.deleting \/ parent'.fin \/ parent'.held)
    <3> DEFINE there == ~p.deleting \/ p.fin \/ p.held
    <3>1. parent' = [p EXCEPT !.rv = parent.rv + 1, !.there = there] /\ there \in BOOLEAN
      BY <1>2 DEF StoreParent
    <3>2. there = (~p.deleting \/ p.fin \/ p.held)
      OBVIOUS
    <3> HIDE DEF there
    <3> QED
      BY <1>2, <3>1, <3>2 DEF Parent
  <2> QED
    BY <2>1, <2>2 DEF Latest
<1>3. CASE UNCHANGED <<parent, pCache, pWatch>>
  BY <1>3 DEF Latest, Versions
<1>4. CASE EditSpec \/ DeleteParent \/ ReleaseHold
  <2>0. parent.gen + 1 \in Nat
    BY <1>1 DEF Parent
  <2>1. ASSUME NEW spec \in Specs
        PROVE  LET p == [parent EXCEPT !.spec = spec, !.gen = @ + 1]
               IN  p \in Parent /\ (~UseFinalizer => ~p.fin)
    BY <1>1, <2>0 DEF Parent
  <2>2. LET p == [parent EXCEPT !.deleting = TRUE, !.gen = @ + 1]
        IN  p \in Parent /\ (~UseFinalizer => ~p.fin)
    BY <1>1, <2>0 DEF Parent
  <2>3. LET p == [parent EXCEPT !.held = FALSE]
        IN  p \in Parent /\ (~UseFinalizer => ~p.fin)
    BY <1>1 DEF Parent
  <2>4. CASE EditSpec
    BY <1>2, <2>1, <2>4 DEF EditSpec
  <2>5. CASE DeleteParent
    BY <1>2, <2>2, <2>5 DEF DeleteParent
  <2>6. CASE ReleaseHold
    BY <1>2, <2>3, <2>6 DEF ReleaseHold
  <2> QED
    BY <1>4, <2>4, <2>5, <2>6
<1>5. ASSUME NEW o \in Answers, WriteStatus(o)
      PROVE  Latest'
  <2>1. [parent EXCEPT !.status = res.status] \in Parent
        /\ (~UseFinalizer => ~[parent EXCEPT !.status = res.status].fin)
    <3>1. res.status \in Status
      BY DEF TypeOK, Parent
    <3> QED
      BY <1>1, <3>1 DEF Parent
  <2> QED
    BY <1>2, <1>3, <1>5, <2>1 DEF WriteStatus
<1>6. CASE DeliverParent
  <2>1. PICK p \in pWatch : /\ \A q \in pWatch : p.rv <= q.rv
                            /\ pCache' = p /\ pWatch' = pWatch \ {p} /\ UNCHANGED parent
    BY <1>6 DEF DeliverParent
  <2>2. Versions' \subseteq Versions
    BY <2>1 DEF Versions
  <2>3. parent \in Versions'
    <3>1. p.rv \in Nat /\ pCache.rv \in Nat /\ p.rv <= parent.rv /\ parent.rv \in Nat
      BY <2>1 DEF Versions, Behind, TypeOK, ClusterTypeOK, Parent
    <3>2. pCache # parent
      BY <2>1, <3>1 DEF Behind
    <3> QED
      BY <1>1, <2>1, <3>2 DEF Versions
  <2> QED
    BY <2>1, <2>2, <2>3 DEF Latest
<1>7. CASE Crash
  BY <1>1, <1>7 DEF Crash, Latest, Versions
<1>8. ASSUME NEW o \in Answers, ListChildren(o) \/ ClearFinalizer(o) \/ AddFinalizer(o)
      PROVE  Latest'
  <2>1. ASSUME NEW add \in BOOLEAN, PatchFinalizer(add, o), UNCHANGED pCache
        PROVE  Latest'
    <3>1. [parent EXCEPT !.fin = add] \in Parent
      BY <1>1 DEF Parent
    <3> QED
      BY <1>2, <1>3, <2>1, <3>1 DEF PatchFinalizer, Differs
  <2> QED
    BY <1>3, <1>8, <2>1 DEF ListChildren, ClearFinalizer, AddFinalizer
<1>9. ASSUME NEW o \in Answers, NEW n \in Names,
             DeleteExtra(n, o) \/ CreateChild(n, o) \/ UpdateChild(n, o) \/ DeleteChild(n, o)
      PROVE  Latest'
  BY <1>3, <1>9 DEF DeleteExtra, CreateChild, UpdateChild, DeleteChild
<1>10. ASSUME NEW n \in Names, NEW seen \in BOOLEAN, CheckConflict(n, seen)
       PROVE  Latest'
  BY <1>3, <1>10 DEF CheckConflict
<1>11. CASE Begin \/ DeliverKids \/ UNCHANGED vars
  BY <1>3, <1>11 DEF Begin, DeliverKids, vars, clusterVars
<1>12. ASSUME NEW n \in Names,
              Drift(n) \/ Foreign(n) \/ FinishDelete(n) \/ CollectGarbage(n)
       PROVE  Latest'
  BY <1>3, <1>12 DEF Drift, Foreign, FinishDelete, CollectGarbage
<1>13. CASE Others
  BY <1>4, <1>12, <1>13 DEF Others, Environment
<1>14. CASE Worker
  BY <1>5, <1>8, <1>9, <1>10, <1>11, <1>14 DEF Worker
<1> QED
  BY <1>6, <1>7, <1>11, <1>13, <1>14 DEF Next

\* Every step leaves an owner awake.
LEMMA AwakeStep ==
  ASSUME TypeOK, WorkerInv, KidInv, WakeInv, ~SkipOwner, [Next]_vars
  PROVE  Awake'
<1>1. Awake /\ Latest /\ InHand /\ Accurate /\ KidsBehind
  BY DEF WakeInv, Awake, KidInv
<1>2. ASSUME NEW o \in Answers, ListChildren(o) \/ ClearFinalizer(o) \/ AddFinalizer(o)
      PROVE  Awake'
  BY <1>1, <1>2, ListChildrenAwake, ClearFinalizerAwake, AddFinalizerAwake
<1>3. ASSUME NEW o \in Answers, WriteStatus(o)
      PROVE  Awake'
  BY <1>3, WriteStatusAwake
<1>4. ASSUME NEW o \in Answers, NEW n \in Names, DeleteExtra(n, o) \/ CreateChild(n, o)
      PROVE  Awake'
  BY <1>1, <1>4, DeleteExtraAwake, CreateChildAwake
<1>5. ASSUME NEW o \in Answers, NEW n \in Names, UpdateChild(n, o) \/ DeleteChild(n, o)
      PROVE  Awake'
  BY <1>1, <1>5, UpdateChildAwake, DeleteChildAwake
<1>6. ASSUME NEW n \in Names, NEW seen \in BOOLEAN, CheckConflict(n, seen)
      PROVE  Awake'
  BY <1>1, <1>6, CheckConflictAwake
<1>7. CASE Worker
  BY <1>2, <1>3, <1>4, <1>5, <1>6, <1>7, BeginAwake DEF Worker
<1>8. CASE DeliverParent
  BY <1>8, AwakeTrivially DEF DeliverParent
<1>9. CASE UNCHANGED vars
  BY <1>1, <1>9, AwakeKept DEF vars, clusterVars
<1> QED
  BY <1>1, <1>7, <1>8, <1>9, DeliverKidsAwake, CrashAwake, OthersAwake DEF Next

\* At the start the parent is queued and its latest version in the cache.
LEMMA InitAwake == Init /\ ~UseFinalizer => WakeInv
<1> SUFFICES ASSUME Init
             PROVE  WakeInv
  OBVIOUS
<1>1. Awake
  BY DEF Init, Awake, InHand, Accurate, Acting, Rested
<1>2. /\ pCache = parent /\ pWatch = {} /\ ~parent.fin /\ parent.there /\ ~parent.deleting
  BY DEF Init, ClusterInit
<1> QED
  BY <1>1, <1>2 DEF WakeInv, Latest, Versions

\* Whatever an owner still has to do, it is queued, at work, or told of something
\* that is on its way.
LEMMA WakeInvariant ==
  ASSUME ~SkipOwner
  PROVE  Spec => [](GuardInv /\ KidInv /\ WakeInv)
<1>1. Init => GuardInv /\ KidInv /\ WakeInv
  BY InitInv, InitKids, InitAwake DEF GuardInv, ParentInv, WorkerInv, SkipOwner
<1>2. GuardInv /\ KidInv /\ WakeInv /\ [Next]_vars => (GuardInv /\ KidInv /\ WakeInv)'
  <2> SUFFICES ASSUME GuardInv, KidInv, WakeInv, [Next]_vars
               PROVE  GuardInv' /\ KidInv' /\ WakeInv'
    OBVIOUS
  <2>1. TypeOK /\ WorkerInv /\ Behind /\ Latest /\ ~UseFinalizer
    BY DEF GuardInv, WorkerInv, WakeInv, SkipOwner
  <2>2. Latest' /\ Awake'
    BY <2>1, LatestStep, AwakeStep
  <2> QED
    BY <2>2, NextInv, KidStep DEF WakeInv
<1> QED
  BY <1>1, <1>2, PTL DEF Spec

\* When an owner has gone quiet, what is stored is finished.
LEMMA QuietFinished ==
  ASSUME GuardInv, KidInv, WakeInv, Quiet, parent.there
  PROVE  Finished(parent, kids.obj)
<1>1. kCache = kids /\ pCache = parent /\ ~Pending
  BY DEF Quiet, KidInv, KidsBehind, KidVersions, WakeInv, Latest, Versions, Pending
<1>2. ~NothingToDo(parent)
  BY <1>1 DEF WakeInv, Latest, Versions, NothingToDo
<1> QED
  BY <1>1, <1>2 DEF WakeInv, Awake, Rested, Quiet

\* A controller that owns its children, and guards them with no finalizer, goes
\* quiet only when there is nothing left to do, however its calls fail, its cache
\* lags and the process crashes.
THEOREM OwnersAreWoken ==
  ASSUME ~SkipOwner
  PROVE  Spec => []NoLostWakeup
<1>1. GuardInv /\ KidInv /\ WakeInv => NoLostWakeup
  <2> SUFFICES ASSUME GuardInv, KidInv, WakeInv, Quiet, parent.there
               PROVE  NoLostWakeup
    BY DEF NoLostWakeup
  <2>1. Finished(parent, kids.obj) /\ OursIn(kids.obj) = Ours
    BY QuietFinished DEF OursIn, Ours
  <2> QED
    BY <2>1 DEF Finished, NoLostWakeup
<1> QED
  BY <1>1, WakeInvariant, PTL

\* With a live list, or a name that is given, there is never more than one child.
\* With neither, an owner deletes those that slipped in behind its cache.
THEOREM SettlesOnOneChild ==
  ASSUME ~SkipOwner \/ ~CachedList \/ ~GenerateName
  PROVE  Spec => []SettlesOnOne
<1>1. CASE ~SkipOwner
  <2>1. GuardInv /\ KidInv /\ WakeInv => SettlesOnOne
    <3> SUFFICES ASSUME GuardInv, KidInv, WakeInv, Quiet, parent.there
                 PROVE  SettlesOnOne
      BY DEF SettlesOnOne
    <3>1. Finished(parent, kids.obj) /\ OursIn(kids.obj) = Ours
      BY QuietFinished DEF OursIn, Ours
    <3> QED
      BY <3>1 DEF Finished, AtMostOneStays, SettlesOnOne
  <2> QED
    BY <1>1, <2>1, WakeInvariant, PTL
<1>2. CASE ~CachedList
  <2>1. GuardInv /\ LiveInv => SettlesOnOne
    BY DEF LiveInv, AtMostOne, SettlesOnOne
  <2> QED
    BY <1>2, <2>1, LiveInvariant, PTL
<1>3. CASE ~GenerateName
  <2>1. SettlesOnOne
    BY <1>3, ReconcilerAssumption DEF SettlesOnOne, Ours
  <2> QED
    BY <2>1, PTL
<1> QED
  BY <1>1, <1>2, <1>3

-----------------------------------------------------------------------------
(* A tracker observes what it was told to track, and a request that ends   *)
(* well has told it.                                                       *)

\* A step that hands the worker's knowledge on, but for the status.
HandsOn ==
  \/ pc' = "idle"
  \/ /\ res'.spec = res.spec /\ res'.deleting = res.deleting /\ original' = original
     /\ ~UseFinalizer => res'.gen = res.gen

\* Such a step leaves in hand what is in hand.
LEMMA HandsOnInHand ==
  ASSUME InHand, HandsOn, pc # "idle", UNCHANGED pCache, queued => queued'
  PROVE  InHand'
BY DEF InHand, HandsOn, NothingToDo

\* The end of a request hands on what it ends with.
LEMMA EndHandsOn ==
  ASSUME TypeOK,
         NEW r \in Parent, r.spec = res.spec, r.deleting = res.deleting,
         ~UseFinalizer => r.gen = res.gen,
         Fail \/ \E ref, reason : Reflect(r, ref, reason)
  PROVE  HandsOn /\ (queued => queued')
<1>1. ASSUME NEW q, NEW err, Conclude(q, err),
             q.spec = res.spec, q.deleting = res.deleting, ~UseFinalizer => q.gen = res.gen
      PROVE  HandsOn /\ (queued => queued')
  BY <1>1 DEF Conclude, Rest, HandsOn
<1>2. CASE Fail
  BY <1>1, <1>2 DEF Fail
<1>3. ASSUME NEW ref, NEW reason, Reflect(r, ref, reason)
      PROVE  HandsOn /\ (queued => queued')
  <2> DEFINE q == [r EXCEPT !.status = [obs |-> r.gen, ref |-> ref, reason |-> reason]]
  <2>1. q.spec = r.spec /\ q.deleting = r.deleting /\ q.gen = r.gen
    BY DEF Parent
  <2>2. Conclude(q, FALSE)
    BY <1>3 DEF Reflect
  <2> HIDE DEF q
  <2> QED
    BY <1>1, <2>1, <2>2
<1> QED
  BY <1>2, <1>3

\* Going on with the actual child hands on.
LEMMA DispatchHandsOn ==
  ASSUME TypeOK, NEW known, NEW act, Dispatch(known, act)
  PROVE  HandsOn /\ (queued => queued')
<1>1. CASE Desired(res) \in Paused
  <2>1. res \in Parent /\ \E ref, reason : Reflect(res, ref, reason)
    BY <1>1 DEF Dispatch, Finish, TypeOK
  <2> QED
    BY <2>1, EndHandsOn
<1>2. CASE Desired(res) \notin Paused
  BY <1>2 DEF Dispatch, HandsOn
<1> QED
  BY <1>1, <1>2

\* What is in memory stays what the cache has, until that changes.
LEMMA InHandStep ==
  ASSUME TypeOK, InHand, [Next]_vars
  PROVE  InHand'
<1>1. res \in Parent
  BY DEF TypeOK
<1>2. ASSUME Fail
      PROVE  HandsOn /\ (queued => queued')
  BY <1>1, <1>2, EndHandsOn
<1>3. ASSUME NEW ref, NEW reason, Finish(ref, reason)
      PROVE  HandsOn /\ (queued => queued')
  BY <1>1, <1>3, EndHandsOn DEF Finish
<1>4. ASSUME NEW o \in Answers, ListChildren(o)
      PROVE  InHand'
  <2> DEFINE known == IF CachedList THEN kCache.obj ELSE kids.obj
             ours == {n \in Names : OurChild(known[n])}
  <2>1. /\ pc # "idle" /\ UNCHANGED pCache
        /\ \/ Fail
           \/ Dispatch(known, NoName) \/ Dispatch(known, CHOOSE n \in ours : TRUE)
           \/ UNCHANGED <<queued, res, original>>
    BY <1>4 DEF ListChildren
  <2> HIDE DEF known, ours
  <2>2. HandsOn /\ (queued => queued')
    BY <1>2, <2>1, DispatchHandsOn DEF HandsOn
  <2> QED
    BY <2>1, <2>2, HandsOnInHand
<1>5. ASSUME NEW o \in Answers, NEW n \in Names, DeleteExtra(n, o)
      PROVE  InHand'
  <2>1. /\ pc # "idle" /\ UNCHANGED pCache
        /\ Fail \/ Dispatch(list, NoName) \/ UNCHANGED <<queued, res, original>>
    BY <1>5 DEF DeleteExtra
  <2>2. HandsOn /\ (queued => queued')
    BY <1>2, <2>1, DispatchHandsOn DEF HandsOn
  <2> QED
    BY <2>1, <2>2, HandsOnInHand
<1>6. ASSUME NEW add \in BOOLEAN, NEW o \in Answers, PatchFinalizer(add, o)
      PROVE  /\ Patched(add) \in Parent /\ Patched(add).spec = res.spec
             /\ Patched(add).deleting = res.deleting
             /\ ~UseFinalizer => Patched(add).gen = res.gen
             /\ Patched(add).status = res.status
  BY <1>1, <1>6, PatchFinalizerType DEF Patched, Differs, Parent
<1>7. ASSUME NEW o \in Answers, ClearFinalizer(o)
      PROVE  InHand'
  <2>1. /\ pc # "idle" /\ UNCHANGED pCache /\ PatchFinalizer(FALSE, o)
        /\ Fail \/ \E ref, reason : Reflect(Patched(FALSE), ref, reason)
    BY <1>7 DEF ClearFinalizer
  <2>2. HandsOn /\ (queued => queued')
    BY <1>2, <1>6, <2>1, EndHandsOn
  <2> QED
    BY <2>1, <2>2, HandsOnInHand
<1>8. ASSUME NEW o \in Answers, AddFinalizer(o)
      PROVE  InHand'
  <2>1. /\ pc # "idle" /\ UNCHANGED pCache /\ PatchFinalizer(TRUE, o)
        /\ Fail \/ (res' = Patched(TRUE) /\ UNCHANGED <<queued, original>>)
    BY <1>8 DEF AddFinalizer
  <2>2. HandsOn /\ (queued => queued')
    <3> DEFINE q == Patched(TRUE)
    <3>1. /\ q.spec = res.spec /\ q.deleting = res.deleting
          /\ ~UseFinalizer => q.gen = res.gen
      BY <1>6, <2>1
    <3>2. Fail \/ (res' = q /\ UNCHANGED <<queued, original>>)
      BY <2>1
    <3> HIDE DEF q
    <3>3. CASE res' = q /\ UNCHANGED <<queued, original>>
      BY <3>1, <3>3 DEF HandsOn
    <3> QED
      BY <1>2, <3>2, <3>3
  <2> QED
    BY <2>1, <2>2, HandsOnInHand
<1>9. ASSUME NEW o \in Answers, NEW n \in Names,
             CreateChild(n, o) \/ UpdateChild(n, o) \/ DeleteChild(n, o)
      PROVE  InHand'
  <2>1. /\ pc # "idle" /\ UNCHANGED pCache
        /\ \/ Fail
           \/ \E ref, reason : Finish(ref, reason)
           \/ UNCHANGED <<queued, res, original>>
    BY <1>9 DEF CreateChild, UpdateChild, DeleteChild, Goto
  <2>2. HandsOn /\ (queued => queued')
    BY <1>2, <1>3, <2>1 DEF HandsOn
  <2> QED
    BY <2>1, <2>2, HandsOnInHand
<1>10. ASSUME NEW n \in Names, NEW seen \in BOOLEAN, CheckConflict(n, seen)
       PROVE  InHand'
  <2>1. /\ pc # "idle" /\ UNCHANGED pCache
        /\ Fail \/ Finish(NoChild, "conflict")
    BY <1>10 DEF CheckConflict
  <2>2. HandsOn /\ (queued => queued')
    BY <1>2, <1>3, <2>1
  <2> QED
    BY <2>1, <2>2, HandsOnInHand
<1>11. ASSUME NEW o \in Answers, WriteStatus(o)
       PROVE  InHand'
  BY <1>11 DEF WriteStatus, Rest, InHand
<1>12. CASE Begin
  BY <1>12, BeginAwake DEF Awake
<1>13. CASE DeliverParent \/ DeliverKids \/ Crash
  BY <1>13 DEF DeliverParent, DeliverKids, Crash, Rest, InHand, workerVars, NothingToDo
<1>14. CASE Others \/ UNCHANGED vars
  <2>1. UNCHANGED <<queued, workerVars, pCache>>
    BY <1>14 DEF Others, Environment, EditSpec, DeleteParent, ReleaseHold, Drift, Foreign,
       FinishDelete, CollectGarbage, vars, clusterVars
  <2> QED
    BY <2>1 DEF InHand, workerVars, NothingToDo
<1>15. CASE Worker
  BY <1>4, <1>5, <1>7, <1>8, <1>9, <1>10, <1>11, <1>12, <1>15 DEF Worker
<1> QED
  BY <1>13, <1>14, <1>15 DEF Next

\* Our children, as long as none is created.
LEMMA OursShrink ==
  ASSUME TypeOK, WorkerInv, [Next]_vars, pc # "create"
  PROVE  Ours' \subseteq Ours
BY OursStep

\* A failure is not the end.
LEMMA FailObserved ==
  ASSUME TypeOK, Fail
  PROVE  Observed' /\ pc' \in {"idle", "status"}
BY DEF Fail, Conclude, Rest, Observed, TypeOK

\* A request that ends well has all of the children tracked, or wants none.
LEMMA FinishObserved ==
  ASSUME NEW r, NEW ref, NEW reason, Reflect(r, ref, reason), ~queued => AllTracked'
  PROVE  Observed' /\ pc' \in {"idle", "status"}
BY DEF Reflect, Conclude, Rest, Observed

\* What is desired of the resource in memory is desired of the one in the cache.
LEMMA DesiredInHand ==
  ASSUME InHand, pc # "idle", ~queued
  PROVE  Desired(res) = Desired(pCache)
BY DEF InHand, Desired

\* A parent for which there is nothing to do wants no child.
LEMMA NothingWanted ==
  ASSUME TypeOK, Latest, NEW v \in Versions, NothingToDo(v)
  PROVE  Desired(v) = NoChild
BY DEF Latest, NothingToDo, Desired

\* With a live list, the actual child is the only one.
LEMMA DispatchOnly ==
  ASSUME TypeOK, InHand, pc # "idle", UNCHANGED <<pCache, kids>>,
         NEW act \in Names \cup {NoName}, Dispatch(kids.obj, act),
         act # NoName => Ours = {act}
  PROVE  TrackedInv'
<1>1. Ours' = Ours
  BY DEF Ours
<1>2. CASE Desired(res) \in Paused
  <2>1. PICK ref, reason : Finish(ref, reason)
    BY <1>2 DEF Dispatch
  <2>2. ~queued => AllTracked'
    BY <1>2, DesiredInHand, ClusterAssumption DEF AllTracked, Desired
  <2>3. Observed' /\ pc' \in {"idle", "status"}
    BY <2>1, <2>2, FinishObserved DEF Finish
  <2> QED
    BY <2>3 DEF TrackedInv
<1>3. CASE Desired(res) \notin Paused
  BY <1>1, <1>3 DEF Dispatch, Route, TrackedInv, Observed
<1> QED
  BY <1>2, <1>3

\* The steps of a request up to the writes of the child.
LEMMA TrackedBefore ==
  ASSUME GuardInv, LiveInv, InHand, TrackedInv, ~CachedList, NEW o \in Answers,
         ListChildren(o) \/ ClearFinalizer(o) \/ AddFinalizer(o)
  PROVE  TrackedInv'
<1>1. TypeOK /\ res \in Parent
  BY DEF GuardInv, TypeOK
<1>2. CASE Fail
  BY <1>1, <1>2, FailObserved DEF TrackedInv
<1>3. CASE ListChildren(o) /\ ~Fail
  <2>1. /\ pc = "list" /\ UNCHANGED <<pCache, kids>>
        /\ \/ Ours = {} /\ Dispatch(kids.obj, NoName)
           \/ Ours # {} /\ Only(Ours) /\ Dispatch(kids.obj, CHOOSE n \in Ours : TRUE)
           \/ Ours # {} /\ ~Only(Ours)
    BY <1>3 DEF ListChildren, Ours
  <2>2. Ours \subseteq Names /\ \A n, m \in Ours : n = m
    BY DEF LiveInv, AtMostOne, Ours
  <2>3. ASSUME NEW n \in Ours
        PROVE  Ours = {n} /\ Only(Ours) /\ (CHOOSE m \in Ours : TRUE) = n /\ n # NoName
    BY <2>2, ReconcilerAssumption DEF Only
  <2>4. CASE Ours = {} /\ Dispatch(kids.obj, NoName)
    BY <1>1, <2>1, <2>4, DispatchOnly
  <2>5. CASE Ours # {} /\ Dispatch(kids.obj, CHOOSE n \in Ours : TRUE)
    <3>1. PICK n \in Ours : TRUE
      BY <2>5
    <3>2. Ours = {n} /\ Dispatch(kids.obj, n) /\ n \in Names
      BY <2>2, <2>3, <2>5, <3>1
    <3> QED
      BY <1>1, <2>1, <3>2, DispatchOnly
  <2> QED
    BY <2>1, <2>3, <2>4, <2>5
<1>4. CASE ClearFinalizer(o) /\ ~Fail
  <2>1. /\ Reflect(Patched(FALSE), NoChild, "ok") /\ pc = "clear"
        /\ UNCHANGED <<pCache, kids, tracked>>
    BY <1>4 DEF ClearFinalizer
  <2>2. Desired(res) = NoChild
    BY <2>1 DEF GuardInv, Stages, Wants
  <2>3. ~queued => AllTracked'
    BY <2>1, <2>2, DesiredInHand, ClusterAssumption DEF AllTracked, Desired
  <2>4. Observed' /\ pc' \in {"idle", "status"}
    BY <2>1, <2>3, FinishObserved
  <2> QED
    BY <2>4 DEF TrackedInv
<1>5. CASE AddFinalizer(o) /\ ~Fail
  <2>1. pc = "finalize" /\ pc' = Verb(actual) /\ UNCHANGED <<kids, actual>>
    BY <1>5 DEF AddFinalizer
  <2>2. Ours' = Ours
    BY <2>1 DEF Ours
  <2> QED
    BY <2>1, <2>2 DEF TrackedInv, Observed, Verb
<1> QED
  BY <1>2, <1>3, <1>4, <1>5

\* The steps that write the child, or find that they must not.
LEMMA TrackedWrites ==
  ASSUME GuardInv, KidInv, LiveInv, InHand, TrackedInv, SkipOwnerReference, [Next]_vars,
         NEW n \in Names, NEW o \in Answers,
         CreateChild(n, o) \/ UpdateChild(n, o) \/ DeleteChild(n, o)
  PROVE  TrackedInv'
<1>1. TypeOK /\ WorkerInv /\ TrackDesired
  BY DEF GuardInv, WorkerInv, TrackDesired
<1>2. CASE Fail
  BY <1>1, <1>2, FailObserved DEF TrackedInv
<1>3. ASSUME NEW ref, NEW reason, Finish(ref, reason), ~queued => AllTracked'
      PROVE  TrackedInv'
  <2>1. Observed' /\ pc' \in {"idle", "status"}
    BY <1>3, FinishObserved DEF Finish
  <2> QED
    BY <2>1 DEF TrackedInv
<1>4. pc # "idle" /\ UNCHANGED pCache
  BY DEF CreateChild, UpdateChild, DeleteChild
<1>5. ~queued => Desired(pCache') = Desired(res)
  BY <1>4, DesiredInHand
<1>6. CASE CreateChild(n, o) /\ ~Fail
  <2>1. pc = "create" /\ Ours = {}
    BY <1>6 DEF CreateChild, LiveInv
  <2>2. CASE Desired(res) \in Invalid /\ Finish(NoChild, "invalid")
    BY <1>3, <1>5, <2>2 DEF AllTracked
  <2>3. CASE Goto("conflict") /\ UNCHANGED kids
    <3>1. Ours' = {} /\ pc' = "conflict"
      BY <2>1, <2>3 DEF Ours, Goto
    <3> QED
      BY <3>1 DEF TrackedInv, Observed
  <2>4. CASE /\ Finish(Desired(res), "ok") /\ tracked' = tracked \cup {n}
             /\ \E k \in Kid : StoreKid(n, k)
    <3>1. \A m \in Names : m # n => kids'.obj[m] = kids.obj[m]
      BY <1>1, <2>4, StoreKidVersion DEF KidInv
    <3>2. Ours' \subseteq {n}
      BY <2>1, <3>1 DEF Ours, OurChild
    <3> QED
      BY <1>3, <2>4, <3>2 DEF AllTracked
  <2>5. ASSUME StoreKid(n, [there |-> TRUE, owned |-> ~SkipOwner, marked |-> TRUE,
                            deleting |-> FALSE, value |-> Desired(res), rv |-> 0])
        PROVE  \E k \in Kid : StoreKid(n, k)
    <3>1. Desired(res) \in Contents /\ (~SkipOwner) \in BOOLEAN
      BY <2>1 DEF GuardInv, Stages, Contents
    <3> HIDE DEF SkipOwner
    <3>2. [there |-> TRUE, owned |-> ~SkipOwner, marked |-> TRUE,
           deleting |-> FALSE, value |-> Desired(res), rv |-> 0] \in Kid
      BY <3>1 DEF Kid
    <3> QED
      BY <2>5, <3>2
  <2> QED
    BY <1>1, <1>6, <2>2, <2>3, <2>4, <2>5 DEF CreateChild
<1>7. CASE (UpdateChild(n, o) \/ DeleteChild(n, o)) /\ ~Fail
  <2>1. /\ pc \in {"update", "delete"} /\ n = actual /\ actual # NoName
        /\ \E ref, reason : Finish(ref, reason)
        /\ pc = "update" => tracked' = tracked \cup {n}
    BY <1>1, <1>7, ReconcilerAssumption DEF UpdateChild, DeleteChild
  <2>2. pc = "delete" => Desired(res) \notin Values
    BY ClusterAssumption DEF GuardInv, Stages, Wants
  <2>3. Ours' \subseteq {n}
    BY <1>1, <2>1, OursShrink DEF TrackedInv
  <2>4. ~queued => AllTracked'
    BY <1>5, <2>1, <2>2, <2>3 DEF AllTracked
  <2> QED
    BY <1>3, <2>1, <2>4
<1> QED
  BY <1>2, <1>6, <1>7

\* Every step keeps the children of ours observed.
LEMMA TrackedStep ==
  ASSUME GuardInv, KidInv, LiveInv, InHand, Latest, TrackedInv,
         ~CachedList, SkipOwnerReference, [Next]_vars
  PROVE  TrackedInv'
<1>1. TypeOK /\ WorkerInv
  BY DEF GuardInv, WorkerInv
<1>2. ASSUME NEW n \in Names, NEW seen \in BOOLEAN, CheckConflict(n, seen)
      PROVE  TrackedInv'
  <2>1. pc = "conflict" /\ Ours = {} /\ UNCHANGED kids
    BY <1>2 DEF CheckConflict, TrackedInv
  <2>2. Ours' = {}
    BY <2>1 DEF Ours
  <2>3. Fail \/ Finish(NoChild, "conflict")
    BY <1>2 DEF CheckConflict
  <2>4. AllTracked'
    BY <2>2 DEF AllTracked
  <2>5. Observed' /\ pc' \in {"idle", "status"}
    BY <1>1, <2>3, <2>4, FailObserved, FinishObserved DEF Finish
  <2> QED
    BY <2>5 DEF TrackedInv
<1>3. CASE Begin
  <2>1. pc = "idle" /\ UNCHANGED <<pCache, kids, tracked>> /\ pCache \in Versions
    BY <1>3 DEF Begin, clusterVars, Versions
  <2>2. CASE NothingToDo(pCache)
    <3>1. pc' = "idle" /\ Desired(pCache) = NoChild
      BY <1>1, <1>3, <2>1, <2>2, NothingWanted DEF Begin, workerVars
    <3> QED
      BY <2>1, <3>1, ClusterAssumption DEF TrackedInv, Observed, AllTracked
  <2>3. CASE ~NothingToDo(pCache)
    <3>1. pc' = "list"
      BY <1>3, <2>3 DEF Begin
    <3> QED
      BY <3>1 DEF TrackedInv, Observed
  <2> QED
    BY <2>2, <2>3
<1>4. ASSUME NEW n \in Names, NEW o \in Answers, DeleteExtra(n, o)
      PROVE  FALSE
  BY <1>4 DEF DeleteExtra, LiveInv
<1>5. ASSUME NEW o \in Answers, WriteStatus(o)
      PROVE  TrackedInv'
  <2>1. /\ pc = "status" /\ pc' = "idle" /\ UNCHANGED <<pCache, kids, tracked>>
        /\ queued \/ failed => queued'
    BY <1>1, <1>5 DEF WriteStatus, Rest
  <2>2. Ours' = Ours
    BY <2>1 DEF Ours
  <2> QED
    BY <2>1, <2>2 DEF TrackedInv, Observed, AllTracked
<1>6. CASE DeliverParent
  <2>1. queued' /\ UNCHANGED <<pc, actual, kids>>
    BY <1>6 DEF DeliverParent, workerVars
  <2>2. Ours' = Ours
    BY <2>1 DEF Ours
  <2> QED
    BY <2>1, <2>2 DEF TrackedInv, Observed
<1>7. CASE DeliverKids \/ Others \/ UNCHANGED vars
  <2>1. UNCHANGED <<pc, actual, failed, pCache, tracked>> /\ (queued => queued')
    <3>1. CASE DeliverKids
      BY <3>1 DEF DeliverKids, workerVars
    <3>2. Environment => UNCHANGED pCache
      BY DEF Environment, EditSpec, DeleteParent, ReleaseHold, Drift, Foreign, FinishDelete,
         CollectGarbage
    <3>3. CASE Others \/ UNCHANGED vars
      BY <3>2, <3>3 DEF Others, vars, clusterVars, workerVars
    <3> QED
      BY <1>7, <3>1, <3>3
  <2>2. Ours' \subseteq Ours
    BY <1>1, <2>1, OursStep
  <2> QED
    BY <2>1, <2>2 DEF TrackedInv, Observed, AllTracked
<1>8. CASE Crash
  <2>1. pc' = "idle" /\ pCache' = parent /\ queued' = parent.there /\ parent \in Versions
    BY <1>8 DEF Crash, Rest, Latest
  <2>2. ~parent.there => Desired(parent) = NoChild
    BY <1>1, <2>1, NothingWanted DEF NothingToDo
  <2> QED
    BY <2>1, <2>2, ClusterAssumption DEF TrackedInv, Observed, AllTracked
<1>9. CASE Worker
  <2>1. CASE \E o \in Answers : ListChildren(o) \/ ClearFinalizer(o) \/ AddFinalizer(o)
    BY <2>1, TrackedBefore
  <2>2. CASE \E o \in Answers, n \in Names :
               CreateChild(n, o) \/ UpdateChild(n, o) \/ DeleteChild(n, o)
    BY <2>2, TrackedWrites
  <2> QED
    BY <1>2, <1>3, <1>4, <1>5, <1>9, <2>1, <2>2 DEF Worker
<1> QED
  BY <1>6, <1>7, <1>8, <1>9 DEF Next

\* With a live list the tracker observes what the reconciler means to keep.
LEMMA TrackedInvariant ==
  ASSUME ~CachedList, SkipOwnerReference
  PROVE  Spec => [](GuardInv /\ KidInv /\ LiveInv /\ InHand /\ Latest /\ TrackedInv)
<1> DEFINE Inv == GuardInv /\ KidInv /\ LiveInv /\ InHand /\ Latest /\ TrackedInv
<1>1. Init => Inv
  <2> SUFFICES ASSUME Init
               PROVE  Inv
    OBVIOUS
  <2>1. GuardInv /\ KidInv
    BY InitInv, InitKids DEF GuardInv, ParentInv, WorkerInv
  <2>2. /\ pCache = parent /\ pWatch = {} /\ ~parent.fin /\ parent.there /\ ~parent.deleting
        /\ kids = [rev |-> 0, obj |-> [n \in Names |-> Absent]] /\ pc = "idle" /\ queued
    BY DEF Init, ClusterInit
  <2>3. Ours = {}
    BY <2>2 DEF Ours, OurChild, Absent
  <2> QED
    BY <2>1, <2>2, <2>3
    DEF LiveInv, AtMostOne, InHand, Latest, Versions, TrackedInv, Observed
<1>2. Inv /\ [Next]_vars => Inv'
  <2> SUFFICES ASSUME Inv, [Next]_vars
               PROVE  Inv'
    OBVIOUS
  <2>1. TypeOK /\ Behind
    BY DEF GuardInv
  <2>2. GuardInv' /\ LiveInv'
    BY NextInv, LiveStep
  <2>3. KidInv' /\ InHand' /\ Latest' /\ TrackedInv'
    BY <2>1, KidStep, InHandStep, LatestStep, TrackedStep
  <2> QED
    BY <2>2, <2>3
<1> QED
  BY <1>1, <1>2, PTL DEF Spec

\* Whenever the controller is quiet, the next change of a child it wants will queue
\* the parent: the child is owned, or it is tracked.  Without owner references that
\* takes a live list, as nobody tracks a child the cache does not show, and an
\* author who chose SkipOwnerReference: where only the finalizer implies it,
\* nothing is tracked (the run child_untracked).
THEOREM ChildrenAreObserved ==
  ASSUME ~SkipOwner \/ (SkipOwnerReference /\ ~CachedList)
  PROVE  Spec => []ObservedWanted
<1>1. CASE ~SkipOwner
  <2>1. ObservedWanted
    BY <1>1 DEF ObservedWanted, Ours, OurChild, Notifies
  <2> QED
    BY <2>1, PTL
<1>2. CASE SkipOwner
  <2>1. SkipOwnerReference /\ ~CachedList
    BY <1>2
  <2>2. Latest /\ TrackedInv => ObservedWanted
    <3> SUFFICES ASSUME Latest, TrackedInv, Quiet, Desired(parent) \in Values \ Invalid
                 PROVE  Ours \subseteq tracked
      BY <1>2 DEF ObservedWanted, Notifies
    <3>1. pCache = parent
      BY DEF Quiet, Latest, Versions
    <3> QED
      BY <3>1 DEF Quiet, TrackedInv, Observed, AllTracked
  <2> QED
    BY <2>1, <2>2, TrackedInvariant, PTL
<1> QED
  BY <1>1, <1>2

=============================================================================
