------------------------- MODULE TrackedReadsProofs -------------------------
(***************************************************************************)
(* A lease of twice the sync period outlives every gap between two         *)
(* reconcile requests: for any number of reconcilers and references, and   *)
(* any sync period, a watcher that is not queued is observing what it      *)
(* reads.                                                                  *)
(***************************************************************************)
EXTENDS TrackedReads, TLAPS

USE DEF LeaseDuration

-----------------------------------------------------------------------------
(* Facts about one operation of the tracker. *)

\* Every object has a reference by name, a key of the exact map.
LEMMA RefToType ==
  ASSUME NEW o \in Objects
  PROVE  RefTo(o) \in ExactRefs /\ o.kind \in Kinds
BY ReadsAssumption DEF Objects, RefTo, ExactRefs, Reference, Named, Valid

\* What a reconciler reads is a key of one of the two maps.
LEMMA ReadKeys ==
  ASSUME NEW r \in Reads
  PROVE  /\ r \in Reference /\ Valid(r)
         /\ Named(r) => r \in ExactRefs
         /\ ~Named(r) => r.kind \in Kinds /\ MatcherKey(r) \in MatcherKeys
<1>1. r \in Reference /\ Valid(r)  BY ReadsAssumption
<1> QED  BY <1>1 DEF Reference, ExactRefs, Named, MatcherKey, MatcherKeys

\* A lease is never longer than leaseDuration.
LEMMA LeaseTypes ==
  /\ SyncPeriod \in Nat /\ Jitter \in Nat /\ Jitter <= SyncPeriod
  /\ None \in Leases /\ LeaseDuration \in Leases
  /\ \A l \in Leases : l \in Int /\ Older(l) \in Leases
BY ReadsAssumption DEF Leases, None, Older, Live

\* What is left of the lease on what a reconciler reads.
LEMMA LeftType ==
  ASSUME TypeOK, NEW w \in Watchers, NEW r \in Reads
  PROVE  Left(w, r) \in Leases
BY ReadKeys DEF TypeOK, Left

\* Tracking renews the lease at hand.
LEMMA TrackRenews ==
  ASSUME TypeOK, NEW w \in Watchers, NEW r \in Reads, TrackReference(w, r)
  PROVE  /\ TypeOK'
         /\ Left(w, r)' = LeaseDuration
         /\ \A v \in Watchers, s \in Reads : v # w => Left(v, s)' = Left(v, s)
<1> USE ReadKeys, LeaseTypes
<1>1. CASE Named(r)
  <2>1. exact' = [exact EXCEPT ![r][w] = LeaseDuration] /\ UNCHANGED <<inexact, answer>>
    BY <1>1 DEF TrackReference
  <2>2. r \in ExactRefs  BY <1>1
  <2>3. exact' \in [ExactRefs -> [Watchers -> Leases]]  BY <2>1, <2>2 DEF TypeOK
  <2> QED  BY <1>1, <2>1, <2>2, <2>3 DEF TypeOK, Left
<1>2. CASE ~Named(r)
  <2>1. /\ inexact' = [inexact EXCEPT ![r.kind][w][MatcherKey(r)] = LeaseDuration]
        /\ UNCHANGED <<exact, answer>>
    BY <1>2 DEF TrackReference
  <2>2. r.kind \in Kinds /\ MatcherKey(r) \in MatcherKeys  BY <1>2
  <2>3. inexact' \in [Kinds -> [Watchers -> [MatcherKeys -> Leases]]]
    BY <2>1, <2>2 DEF TypeOK
  <2>4. Left(w, r)' = LeaseDuration  BY <1>2, <2>1, <2>2 DEF TypeOK, Left
  <2>5. ASSUME NEW v \in Watchers, NEW s \in Reads, v # w PROVE Left(v, s)' = Left(v, s)
    BY <2>1, <2>2, <2>5 DEF TypeOK, Left
  <2> QED  BY <2>1, <2>3, <2>4, <2>5 DEF TypeOK
<1> QED  BY <1>1, <1>2

\* A lookup drops no live lease.
LEMMA LookUpKeeps ==
  ASSUME TypeOK, NEW o \in Objects, GetObservers(o)
  PROVE  /\ TypeOK'
         /\ \A w \in Watchers, r \in Reads : Left(w, r) >= 0 => Left(w, r)' = Left(w, r)
<1> USE RefToType, ReadKeys
<1>1. Observers(o) \subseteq Watchers
  BY DEF Observers, ObserversByName, ObserversBySelector
<1>2. ASSUME NEW S, NEW f \in [S -> Leases] PROVE Pruned(f) \in [S -> Leases]
  BY LeaseTypes DEF Pruned
<1>3. Pruned(exact[RefTo(o)]) \in [Watchers -> Leases]  BY <1>2 DEF TypeOK
<1>4. \A w \in Watchers : Pruned(inexact[o.kind][w]) \in [MatcherKeys -> Leases]
  BY <1>2 DEF TypeOK
<1>5. TypeOK'  BY <1>1, <1>3, <1>4 DEF TypeOK, GetObservers
<1>6. ASSUME NEW w \in Watchers, NEW r \in Reads, Left(w, r) >= 0
      PROVE  Left(w, r)' = Left(w, r)
  <2>1. CASE Named(r)
    BY <1>6, <2>1 DEF Left, GetObservers, Pruned, TypeOK, None, Lapsed
  <2>2. CASE ~Named(r)
    <3>1. Left(w, r)' = inexact'[r.kind][w][MatcherKey(r)]  BY <2>2 DEF Left
    <3>2. inexact'[r.kind][w] = IF r.kind = o.kind THEN Pruned(inexact[o.kind][w])
                                                   ELSE inexact[r.kind][w]
      BY <2>2 DEF GetObservers, TypeOK
    <3> QED  BY <1>6, <2>2, <3>1, <3>2 DEF Left, Pruned, TypeOK, None, Lapsed
  <2> QED  BY <2>1, <2>2
<1> QED  BY <1>5, <1>6

\* Time wears every live lease down by one.
LEMMA TimePasses ==
  ASSUME TypeOK, Expire
  PROVE  /\ TypeOK'
         /\ \A w \in Watchers, r \in Reads : Left(w, r)' = Older(Left(w, r))
<1>1. TypeOK'  BY LeaseTypes DEF TypeOK, Expire
<1>2. \A w \in Watchers, r \in Reads : Left(w, r)' = Older(Left(w, r))
  BY ReadKeys DEF Expire, Left
<1> QED  BY <1>1, <1>2

\* Whoever holds a live lease on a reference is among the observers of what the
\* reference covers.
LEMMA LeaseObserves ==
  ASSUME NEW w \in Watchers, NEW r \in Reads, NEW o \in Objects,
         <<r, o>> \in Covers, Left(w, r) >= 0
  PROVE  w \in Observers(o)
<1>1. r \in Reference /\ r.kind = o.kind  BY DEF Covers
<1>2. CASE Named(r)
  <2>1. r = RefTo(o)  BY <1>1, <1>2 DEF Covers, Reference, RefTo, Named
  <2> QED  BY <1>2, <2>1 DEF Observers, ObserversByName, Left, Live
<1>3. CASE ~Named(r)
  <2>1. MatcherKey(r) \in MatcherKeys  BY <1>3, ReadKeys
  <2>2. Matches(MatcherKey(r), o)  BY <1>3 DEF Covers, Matches, MatcherKey
  <2> QED  BY <1>1, <1>3, <2>1, <2>2 DEF Observers, ObserversBySelector, Left, Live
<1> QED  BY <1>2, <1>3

-----------------------------------------------------------------------------
(* The inductive invariant. *)

\* What is left of a lease that counts covers the time to the next resync.
LongEnough ==
  \A w \in Watchers :
    w \notin queued /\ call[w] # "track" => Left(w, ref[w]) >= LeaseDuration - since[w]

RenewInv == ReadsTypeOK /\ LongEnough

\* At the start, and after a restart, everybody is queued.
LEMMA InitRenew == ReadsInit => RenewInv
<1> SUFFICES ASSUME ReadsInit PROVE RenewInv  OBVIOUS
<1> USE LeaseTypes DEF ReadsInit
<1>1. TypeOK  BY DEF TypeOK, TrackerInit
<1>2. events \in Seq(Objects)  OBVIOUS
<1>3. since \in [Watchers -> 0..(SyncPeriod + Jitter)]  OBVIOUS
<1> QED  BY <1>1, <1>2, <1>3 DEF RenewInv, ReadsTypeOK, LongEnough

\* The variables of the tracker alone decide what is left of a lease.
LEMMA MapsDecide ==
  ASSUME UNCHANGED maps
  PROVE  /\ TypeOK => TypeOK'
         /\ \A w \in Watchers, r \in Reads : Left(w, r)' = Left(w, r)
BY DEF maps, TypeOK, Left

\* The steps of a request.
LEMMA RequestStep ==
  ASSUME RenewInv, NEW w \in Watchers, Begin(w) \/ Track(w) \/ Read(w) \/ Fail(w)
  PROVE  RenewInv'
<1> USE DEF RenewInv, ReadsTypeOK
<1>1. CASE Begin(w)
  <2>1. After(call[w]) = "track"  BY <1>1 DEF Begin, After
  <2>2. ReadsTypeOK'  BY <1>1, <2>1, MapsDecide DEF Begin
  <2>3. LongEnough'  BY <1>1, <2>1, MapsDecide DEF Begin, LongEnough
  <2> QED  BY <2>2, <2>3
<1>2. CASE Track(w)
  <2>1. After(call[w]) = "get"  BY <1>2 DEF Track, After
  <2>2. /\ TypeOK' /\ Left(w, ref[w])' = LeaseDuration
        /\ \A v \in Watchers, s \in Reads : v # w => Left(v, s)' = Left(v, s)
    <3>1. ref[w] \in Reads /\ TrackReference(w, ref[w]) /\ ref' = ref
      BY <1>2 DEF Track
    <3>2. Left(w, ref[w])' = LeaseDuration
      <4> DEFINE r == ref[w]
      <4>1. Left(w, r)' = LeaseDuration  BY <3>1, TrackRenews
      <4> QED  BY <3>1, TrackRenews DEF Left
    <3> QED  BY <3>1, <3>2, TrackRenews
  <2>3. ReadsTypeOK'  BY <1>2, <2>1, <2>2 DEF Track
  <2>4. LongEnough'
    <3> SUFFICES ASSUME NEW v \in Watchers, v \notin queued', call'[v] # "track"
                 PROVE  Left(v, ref[v])' >= LeaseDuration - since'[v]
      BY DEF LongEnough
    <3>1. since' = since /\ since[v] \in Nat /\ ref' = ref /\ queued' = queued
      BY <1>2 DEF Track
    <3>2. CASE v = w  BY <2>2, <3>1, <3>2, LeaseTypes
    <3>3. CASE v # w
      <4>1. Left(v, ref[v]) >= LeaseDuration - since[v]
        BY <1>2, <3>1, <3>3 DEF LongEnough, Track
      <4>2. Left(v, ref[v])' = Left(v, ref[v])
        BY <2>2, <3>1, <3>3 DEF Left
      <4> QED  BY <3>1, <4>1, <4>2
    <3> QED  BY <3>2, <3>3
  <2> QED  BY <2>3, <2>4
<1>3. CASE Read(w)
  <2>1. call[w] = "get" /\ After(call[w]) = "none"  BY <1>3 DEF Read, After
  <2>2. View(ref[w]) \subseteq Objects
    <3>1. Stored \subseteq Objects
      BY ReadsAssumption DEF Stored, Object, Objects, Id
    <3> QED  BY <3>1 DEF View
  <2>3. ReadsTypeOK'  BY <1>3, <2>1, <2>2, MapsDecide DEF Read
  <2>4. LongEnough'  BY <1>3, <2>1, MapsDecide DEF Read, LongEnough
  <2> QED  BY <2>3, <2>4
<1>4. CASE Fail(w)
  <2>1. ReadsTypeOK'  BY <1>4, MapsDecide DEF Fail
  <2>2. LongEnough'  BY <1>4, MapsDecide DEF Fail, LongEnough
  <2> QED  BY <2>1, <2>2
<1> QED  BY <1>1, <1>2, <1>3, <1>4

\* The watch of the tracked objects.
LEMMA WatchStep ==
  ASSUME RenewInv,
         \/ \E id \in Ids, label \in Labels \cup {NoLabel} : ObjectChanges(id, label)
         \/ LookUp
         \/ Enqueue
  PROVE  RenewInv'
<1> USE DEF RenewInv, ReadsTypeOK
<1>1. ASSUME NEW id \in Ids, NEW label \in Labels \cup {NoLabel}, ObjectChanges(id, label)
      PROVE  RenewInv'
  <2> DEFINE state(l) == IF l = NoLabel THEN <<>> ELSE <<Object(id, l)>>
  <2>1. \A l \in Labels \cup {NoLabel} : state(l) \in Seq(Objects)
    <3>1. \A l \in Labels : Object(id, l) \in Objects
      BY ReadsAssumption DEF Object, Objects, Id
    <3> QED  BY <3>1
  <2>2. events' = events \o Mapped(state(cache[id]), state(label))
    BY <1>1 DEF ObjectChanges
  <2>3. state(cache[id]) \in Seq(Objects) /\ state(label) \in Seq(Objects)
    BY <2>1
  <2> HIDE DEF state
  <2>4. events' \in Seq(Objects)  BY <2>2, <2>3 DEF Mapped
  <2>5. ReadsTypeOK'  BY <1>1, <2>4, MapsDecide DEF ObjectChanges
  <2>6. LongEnough'  BY <1>1, MapsDecide DEF ObjectChanges, LongEnough
  <2> QED  BY <2>5, <2>6
<1>2. CASE LookUp
  <2>1. Head(events) \in Objects /\ Tail(events) \in Seq(Objects)
    BY <1>2 DEF LookUp
  <2>2. /\ TypeOK'
        /\ \A w \in Watchers, r \in Reads : Left(w, r) >= 0 => Left(w, r)' = Left(w, r)
    BY <1>2, <2>1, LookUpKeeps DEF LookUp
  <2>3. ReadsTypeOK'  BY <1>2, <2>1, <2>2 DEF LookUp
  <2>4. LongEnough'
    <3> SUFFICES ASSUME NEW w \in Watchers, w \notin queued', call'[w] # "track"
                 PROVE  Left(w, ref[w])' >= LeaseDuration - since'[w]
      BY DEF LongEnough
    <3>1. /\ since' = since /\ ref' = ref /\ queued' = queued /\ call' = call
          /\ since[w] \in 0..(SyncPeriod + Jitter) /\ ref[w] \in Reads
      BY <1>2 DEF LookUp
    <3>2. Left(w, ref[w]) >= LeaseDuration - since[w]  BY <3>1 DEF LongEnough
    <3>3. Left(w, ref[w]) \in Int  BY <3>1, LeftType, LeaseTypes
    <3>4. Left(w, ref[w]) >= 0  BY <3>1, <3>2, <3>3, LeaseTypes
    <3>5. Left(w, ref[w])' = Left(w, ref[w])  BY <2>2, <3>1, <3>4 DEF Left
    <3> QED  BY <3>1, <3>2, <3>5
  <2> QED  BY <2>3, <2>4
<1>3. CASE Enqueue
  <2>1. TypeOK'  BY <1>3 DEF Enqueue, TypeOK
  <2>2. \A w \in Watchers, r \in Reads : Left(w, r)' = Left(w, r)
    BY <1>3 DEF Enqueue, Left
  <2>3. ReadsTypeOK'  BY <1>3, <2>1 DEF Enqueue, TypeOK
  <2>4. LongEnough'  BY <1>3, <2>2 DEF Enqueue, LongEnough
  <2> QED  BY <2>3, <2>4
<1> QED  BY <1>1, <1>2, <1>3

\* Users, time and restarts.
LEMMA OtherStep ==
  ASSUME RenewInv,
         \/ \E w \in Watchers : Resync(w) \/ \E r \in Reads : EditSpec(w, r)
         \/ Tick
         \/ Restart
  PROVE  RenewInv'
<1> USE DEF RenewInv, ReadsTypeOK
<1>1. ASSUME NEW w \in Watchers, Resync(w) PROVE RenewInv'
  <2>1. ReadsTypeOK'  BY <1>1, MapsDecide, LeaseTypes DEF Resync
  <2>2. LongEnough'  BY <1>1, MapsDecide DEF Resync, LongEnough
  <2> QED  BY <2>1, <2>2
<1>2. ASSUME NEW w \in Watchers, NEW r \in Reads, EditSpec(w, r) PROVE RenewInv'
  <2>1. ReadsTypeOK'  BY <1>2, MapsDecide DEF EditSpec
  <2>2. LongEnough'  BY <1>2, MapsDecide DEF EditSpec, LongEnough
  <2> QED  BY <2>1, <2>2
<1>3. CASE Tick
  <2>1. /\ TypeOK'
        /\ \A w \in Watchers, r \in Reads : Left(w, r)' = Older(Left(w, r))
    BY <1>3, TimePasses DEF Tick
  <2>2. since' \in [Watchers -> 0..(SyncPeriod + Jitter)]  BY <1>3, LeaseTypes DEF Tick
  <2>3. ReadsTypeOK'  BY <1>3, <2>1, <2>2 DEF Tick
  <2>4. LongEnough'
    <3> SUFFICES ASSUME NEW w \in Watchers, w \notin queued', call'[w] # "track"
                 PROVE  Left(w, ref[w])' >= LeaseDuration - since'[w]
      BY DEF LongEnough
    <3>1. /\ since'[w] = since[w] + 1 /\ ref' = ref /\ queued' = queued /\ call' = call
          /\ since[w] \in 0..(SyncPeriod + Jitter) /\ since[w] < SyncPeriod + Jitter
          /\ ref[w] \in Reads
      BY <1>3 DEF Tick
    <3>2. Left(w, ref[w]) >= LeaseDuration - since[w]  BY <3>1 DEF LongEnough
    <3>3. Left(w, ref[w]) \in Int  BY <3>1, LeftType, LeaseTypes
    <3>4. Left(w, ref[w]) >= 0  BY <3>1, <3>2, <3>3, LeaseTypes
    <3>5. Left(w, ref[w])' = Left(w, ref[w]) - 1
      BY <2>1, <3>1, <3>4 DEF Left, Older, Live
    <3> QED  BY <3>1, <3>2, <3>3, <3>5, LeaseTypes
  <2> QED  BY <2>3, <2>4
<1>4. CASE Restart
  <2>1. TypeOK'  BY <1>4, LeaseTypes DEF Restart, TypeOK
  <2>2. since' \in [Watchers -> 0..(SyncPeriod + Jitter)]
    BY <1>4, LeaseTypes DEF Restart
  <2>3. ReadsTypeOK'  BY <1>4, <2>1, <2>2 DEF Restart
  <2>4. LongEnough'  BY <1>4 DEF Restart, LongEnough
  <2> QED  BY <2>3, <2>4
<1> QED  BY <1>1, <1>2, <1>3, <1>4

\* The invariant says what it is for: live leases observe.
LEMMA RenewInvRenewed == RenewInv => Renewed
<1> SUFFICES ASSUME RenewInv, NEW w \in Watchers, w \notin queued, call[w] # "track",
                    NEW o \in Objects, <<ref[w], o>> \in Covers
             PROVE  w \in Observers(o)
  BY DEF Renewed
<1>1. ref[w] \in Reads /\ since[w] \in 0..(SyncPeriod + Jitter) /\ TypeOK
  BY DEF RenewInv, ReadsTypeOK
<1>2. Left(w, ref[w]) >= LeaseDuration - since[w]  BY DEF RenewInv, LongEnough
<1>3. Left(w, ref[w]) \in Int  BY <1>1, LeftType, LeaseTypes
<1>4. Left(w, ref[w]) >= 0  BY <1>1, <1>2, <1>3, LeaseTypes
<1> QED  BY <1>1, <1>4, LeaseObserves

\* Every step of the system keeps the invariant.
LEMMA RenewStep == RenewInv /\ [ReadsNext]_vars => RenewInv'
<1> SUFFICES ASSUME RenewInv, [ReadsNext]_vars PROVE RenewInv'  OBVIOUS
<1>1. CASE ReadsNext  BY <1>1, RequestStep, WatchStep, OtherStep DEF ReadsNext
<1>2. CASE UNCHANGED vars
  <2>1. TypeOK' /\ \A w \in Watchers, r \in Reads : Left(w, r)' = Left(w, r)
    BY <1>2, MapsDecide DEF vars, maps, RenewInv, ReadsTypeOK
  <2> QED
    BY <1>2, <2>1 DEF vars, readVars, RenewInv, ReadsTypeOK, LongEnough
<1> QED  BY <1>1, <1>2

\* The maps, the queue and the requests keep their types.
THEOREM ReadsTypeCorrect == ReadsSpec => []ReadsTypeOK
<1>1. RenewInv => ReadsTypeOK  BY DEF RenewInv
<1> QED  BY <1>1, InitRenew, RenewStep, PTL DEF ReadsSpec

\* Twice the resync period is long enough (README.md:934), as long as a resync
\* is late by no more than another period: a watcher that is not queued is
\* among the observers of everything its reference covers, existing or not.
THEOREM LeasesAreRenewed == ReadsSpec => []Renewed
BY InitRenew, RenewStep, RenewInvRenewed, PTL DEF ReadsSpec

-----------------------------------------------------------------------------
(* Nothing goes unnoticed.  A reader that has settled may differ from the  *)
(* cache only in objects its reference covers, and each of those is among  *)
(* the objects the handlers have still to be called with: the change that  *)
(* made the difference put it there, and the lookup that takes it out      *)
(* finds the reader, whose lease is live.                                  *)

\* A request is done with: the watcher is neither at work nor told of a change.
Settled(w) == w \notin queued \cup answer /\ call[w] = "none"

\* Between requests a watcher works with the reference its spec names.
RefCurrent == \A w \in Watchers : w \notin queued => ref[w] = wants[w]

\* What a settled watcher read is what its reference covers.
SeenCovered ==
  \A w \in Watchers : Settled(w) => \A o \in seen[w] : <<ref[w], o>> \in Covers

Notified(o) == \E i \in 1..Len(events) : events[i] = o
Differs(w, o) == ~(o \in seen[w] <=> o \in View(ref[w]))

\* What it did not read, or no longer reads, is about to be handled.
Pending ==
  \A w \in Watchers : Settled(w) =>
    \A o \in Objects : Differs(w, o) => Notified(o)

NoticeInv == RenewInv /\ RefCurrent /\ SeenCovered /\ Pending

\* The cache holds objects, each with the label the cache has for its identity.
LEMMA StoredObjects ==
  ASSUME NEW w \in Watchers, ref[w] \in Reads, cache \in [Ids -> Labels \cup {NoLabel}]
  PROVE  /\ Stored \subseteq Objects
         /\ View(ref[w]) \subseteq Objects
         /\ \A o \in View(ref[w]) : <<ref[w], o>> \in Covers
<1>1. Stored \subseteq Objects
  BY ReadsAssumption DEF Stored, Object, Objects, Id
<1> QED  BY <1>1 DEF View

\* A settled watcher is among the observers of everything it could miss.
LEMMA DifferenceObserved ==
  ASSUME NoticeInv, NEW w \in Watchers, Settled(w), NEW o \in Objects, Differs(w, o)
  PROVE  w \in Observers(o)
<1>1. /\ TypeOK /\ ref[w] \in Reads /\ since[w] \in 0..(SyncPeriod + Jitter)
      /\ cache \in [Ids -> Labels \cup {NoLabel}]
  BY DEF NoticeInv, RenewInv, ReadsTypeOK
<1>2. <<ref[w], o>> \in Covers
  BY <1>1, StoredObjects DEF Differs, NoticeInv, SeenCovered
<1>3. w \notin queued /\ call[w] # "track"  BY DEF Settled
<1>4. Left(w, ref[w]) >= LeaseDuration - since[w]
  BY <1>3 DEF NoticeInv, RenewInv, LongEnough
<1>5. Left(w, ref[w]) \in Int  BY <1>1, LeftType, LeaseTypes
<1>6. Left(w, ref[w]) >= 0  BY <1>1, <1>4, <1>5, LeaseTypes
<1> QED  BY <1>1, <1>2, <1>6, LeaseObserves

\* The watchers settle on nothing that is not there: nobody is settled.
LEMMA InitNotice == ReadsInit => NoticeInv
<1> SUFFICES ASSUME ReadsInit PROVE NoticeInv  OBVIOUS
<1>1. RenewInv  BY InitRenew
<1>2. queued = Watchers  BY DEF ReadsInit
<1> QED  BY <1>1, <1>2 DEF NoticeInv, RefCurrent, SeenCovered, Pending, Settled

\* A step that leaves the cache and the events alone can only disturb the
\* watcher it queues, starts or serves.
LEMMA OthersKeep ==
  ASSUME NoticeInv, UNCHANGED <<cache, events>>, NEW W \in SUBSET Watchers,
         \A w \in Watchers \ W : /\ Settled(w)' => Settled(w)
                                 /\ w \notin queued' => w \notin queued
                                 /\ ref'[w] = ref[w] /\ seen'[w] = seen[w]
                                 /\ wants'[w] = wants[w]
  PROVE  \A w \in Watchers \ W :
           /\ w \notin queued' => ref'[w] = wants'[w]
           /\ Settled(w)' => /\ \A o \in seen'[w] : <<ref'[w], o>> \in Covers
                             /\ \A o \in Objects : Differs(w, o)' => Notified(o)'
<1> SUFFICES ASSUME NEW w \in Watchers \ W
             PROVE  /\ w \notin queued' => ref'[w] = wants'[w]
                    /\ Settled(w)' => /\ \A o \in seen'[w] : <<ref'[w], o>> \in Covers
                                      /\ \A o \in Objects : Differs(w, o)' => Notified(o)'
  OBVIOUS
<1>1. \A o : Differs(w, o)' <=> Differs(w, o)
  BY DEF Differs, View, Stored
<1>2. \A o : Notified(o)' <=> Notified(o)  BY DEF Notified
<1> QED  BY <1>1, <1>2 DEF NoticeInv, RefCurrent, SeenCovered, Pending

\* What a step must establish for the invariant, watcher by watcher.
LEMMA NoticeByWatcher ==
  ASSUME RenewInv',
         \A w \in Watchers :
           /\ w \notin queued' => ref'[w] = wants'[w]
           /\ Settled(w)' => /\ \A o \in seen'[w] : <<ref'[w], o>> \in Covers
                             /\ \A o \in Objects : Differs(w, o)' => Notified(o)'
  PROVE  NoticeInv'
BY DEF NoticeInv, RefCurrent, SeenCovered, Pending

\* The steps of a request, of a user and of a resync.
LEMMA WatcherNotice ==
  ASSUME NoticeInv, RenewInv', NEW w \in Watchers,
         \/ Begin(w) \/ Track(w) \/ Read(w) \/ Fail(w) \/ Resync(w)
         \/ \E r \in Reads : EditSpec(w, r)
  PROVE  NoticeInv'
<1> DEFINE Kept(v) ==
      /\ v \notin queued' => ref'[v] = wants'[v]
      /\ Settled(v)' => /\ \A o \in seen'[v] : <<ref'[v], o>> \in Covers
                        /\ \A o \in Objects : Differs(v, o)' => Notified(o)'
<1>1. /\ UNCHANGED <<cache, events>>
      /\ ref \in [Watchers -> Reads] /\ call \in [Watchers -> {"none", "track", "get"}]
      /\ cache \in [Ids -> Labels \cup {NoLabel}]
      /\ seen \in [Watchers -> SUBSET Objects] /\ wants \in [Watchers -> Reads]
  BY DEF NoticeInv, RenewInv, ReadsTypeOK, Begin, Track, Read, Fail, Resync, EditSpec
<1>2. answer' = answer
  <2>1. CASE Track(w)  BY <2>1 DEF Track, TrackReference
  <2> QED  BY <2>1 DEF Begin, Read, Fail, Resync, EditSpec, maps
<1>3. \A v \in Watchers \ {w} : /\ Settled(v)' => Settled(v)
                                /\ v \notin queued' => v \notin queued
                                /\ ref'[v] = ref[v] /\ seen'[v] = seen[v]
                                /\ wants'[v] = wants[v]
  BY <1>1, <1>2 DEF Settled, Begin, Track, Read, Fail, Resync, EditSpec
<1>4. \A v \in Watchers \ {w} : Kept(v)
  <2>1. {w} \in SUBSET Watchers  OBVIOUS
  <2> DEFINE W == {w}
  <2>2. \A v \in Watchers \ W : /\ Settled(v)' => Settled(v)
                                /\ v \notin queued' => v \notin queued
                                /\ ref'[v] = ref[v] /\ seen'[v] = seen[v]
                                /\ wants'[v] = wants[v]
    BY <1>3
  <2>3. W \in SUBSET Watchers  OBVIOUS
  <2> HIDE DEF W
  <2>4. \A v \in Watchers \ W : Kept(v)  BY <1>1, <2>2, <2>3, OthersKeep
  <2> QED  BY <2>4 DEF W
<1>5. Kept(w)
  <2>1. CASE Begin(w)
    <3>1. call'[w] = "track"  BY <1>1, <2>1 DEF Begin, After
    <3>2. ref'[w] = wants'[w]  BY <1>1, <2>1 DEF Begin
    <3> QED  BY <3>1, <3>2 DEF Settled
  <2>2. CASE Track(w)
    <3>1. call'[w] = "get"  BY <1>1, <2>2 DEF Track, After
    <3>2. w \notin queued' => ref'[w] = wants'[w]
      BY <2>2 DEF Track, NoticeInv, RefCurrent
    <3> QED  BY <3>1, <3>2 DEF Settled
  <2>3. CASE Read(w)
    <3>1. w \notin queued' => ref'[w] = wants'[w]
      BY <2>3 DEF Read, NoticeInv, RefCurrent
    <3>2. ref'[w] = ref[w] /\ seen'[w] = View(ref[w])  BY <1>1, <2>3 DEF Read
    <3>3. \A o : ~Differs(w, o)'  BY <1>1, <3>2 DEF Differs, View, Stored
    <3> QED  BY <3>1, <3>2, <3>3, StoredObjects, <1>1
  <2>4. CASE Fail(w) \/ Resync(w) \/ \E r \in Reads : EditSpec(w, r)
    <3>1. w \in queued'  BY <2>4 DEF Fail, Resync, EditSpec
    <3> QED  BY <3>1 DEF Settled
  <2> QED  BY <2>1, <2>2, <2>3, <2>4
<1>6. \A v \in Watchers : Kept(v)  BY <1>4, <1>5
<1> QED  BY <1>6, NoticeByWatcher

\* Where the elements of two joined sequences are.
LEMMA Joined ==
  ASSUME NEW S, NEW s \in Seq(S), NEW t \in Seq(S)
  PROVE  /\ s \o t \in Seq(S)
         /\ Len(s \o t) = Len(s) + Len(t)
         /\ \A i \in 1..Len(s) : (s \o t)[i] = s[i]
         /\ \A i \in 1..Len(t) : (s \o t)[Len(s) + i] = t[i]
OBVIOUS

\* A change announces both the object that is no longer and the one that is.
LEMMA ChangeNotice ==
  ASSUME NoticeInv, RenewInv', NEW id \in Ids, NEW label \in Labels \cup {NoLabel},
         ObjectChanges(id, label)
  PROVE  NoticeInv'
<1> DEFINE state(l) == IF l = NoLabel THEN <<>> ELSE <<Object(id, l)>>
<1>1. /\ events \in Seq(Objects) /\ cache \in [Ids -> Labels \cup {NoLabel}]
      /\ cache' = [cache EXCEPT ![id] = label]
      /\ events' = events \o (state(cache[id]) \o state(label))
      /\ UNCHANGED <<maps, wants, queued, call, ref, seen, since>>
  BY DEF NoticeInv, RenewInv, ReadsTypeOK, ObjectChanges, Mapped
<1>2. \A l \in Labels \cup {NoLabel} : state(l) \in Seq(Objects)
  <2>1. \A l \in Labels : Object(id, l) \in Objects
    BY ReadsAssumption DEF Object, Objects, Id
  <2> QED  BY <2>1
<1>3. \A o : Notified(o) => Notified(o)'
  <2> SUFFICES ASSUME NEW i \in 1..Len(events)
               PROVE  i \in 1..Len(events') /\ events'[i] = events[i]
    BY DEF Notified
  <2> DEFINE more == state(cache[id]) \o state(label)
  <2>1. more \in Seq(Objects) /\ events' = events \o more  BY <1>1, <1>2
  <2> HIDE DEF more
  <2> QED  BY <1>1, <2>1
<1>4. ASSUME NEW l \in Labels, l = cache[id] \/ l = label
      PROVE  Notified(Object(id, l))'
  <2>0. l # NoLabel /\ Object(id, l) \in Objects
    BY ReadsAssumption DEF Object, Objects, Id
  <2> DEFINE one == <<Object(id, l)>>
  <2>1. one \in Seq(Objects) /\ Len(one) = 1 /\ one[1] = Object(id, l)  BY <2>0
  <2> DEFINE prev == state(cache[id])
  <2> DEFINE next == state(label)
  <2>2. prev \in Seq(Objects) /\ next \in Seq(Objects)  BY <1>1, <1>2
  <2>3. prev = one \/ next = one  BY <1>4, <2>0
  <2>4. events' = events \o (prev \o next)  BY <1>1
  <2> HIDE DEF prev, next, one
  <2>5. CASE prev = one
    <3>1. (prev \o next)[1] = Object(id, l) /\ Len(prev \o next) >= 1 /\ prev \o next \in Seq(Objects)
      BY <2>0, <2>1, <2>2, <2>5, Joined
    <3>2. events'[Len(events) + 1] = Object(id, l) /\ Len(events) + 1 \in 1..Len(events')
      BY <1>1, <2>4, <3>1
    <3> QED  BY <3>2 DEF Notified
  <2>6. CASE next = one
    <3>1. /\ (prev \o next)[Len(prev) + 1] = Object(id, l)
          /\ Len(prev \o next) = Len(prev) + 1 /\ prev \o next \in Seq(Objects)
      <4>1. 1 \in 1..Len(next) /\ next[1] = Object(id, l) /\ Len(next) = 1
        BY <2>0, <2>1, <2>6
      <4>2. prev \o next \in Seq(Objects) /\ Len(prev \o next) = Len(prev) + Len(next)
        BY <2>2, Joined
      <4>3. \A i \in 1..Len(next) : (prev \o next)[Len(prev) + i] = next[i]  BY <2>2, Joined
      <4>4. (prev \o next)[Len(prev) + 1] = next[1]  BY <4>1, <4>3
      <4> QED  BY <4>1, <4>2, <4>4
    <3>2. /\ events'[Len(events) + (Len(prev) + 1)] = Object(id, l)
          /\ Len(events) + (Len(prev) + 1) \in 1..Len(events')
      BY <1>1, <2>2, <2>4, <3>1
    <3> QED  BY <3>2 DEF Notified
  <2> QED  BY <2>3, <2>5, <2>6
<1> HIDE DEF state
<1>5. ASSUME NEW o, ~(o \in Stored <=> o \in Stored') PROVE Notified(o)'
  <2>1. PICK i \in Ids : \/ o = Object(i, cache[i]) /\ cache[i] # NoLabel
                         \/ o = Object(i, cache'[i]) /\ cache'[i] # NoLabel
    BY <1>5 DEF Stored
  <2>2. CASE i = id
    <3>1. \E l \in Labels : (l = cache[id] \/ l = label) /\ o = Object(id, l)
      BY <1>1, <2>1, <2>2
    <3> QED  BY <3>1, <1>4
  <2>3. CASE i # id
    <3>1. cache'[i] = cache[i]  BY <1>1, <2>3
    <3>2. o \in Stored /\ o \in Stored'  BY <2>1, <3>1 DEF Stored
    <3> QED  BY <1>5, <3>2
  <2> QED  BY <2>2, <2>3
<1>6. ASSUME NEW w \in Watchers, Settled(w)', NEW o \in Objects, Differs(w, o)'
      PROVE  Notified(o)'
  <2>1. Settled(w)  BY <1>1, <1>6 DEF Settled, maps
  <2>2. CASE Differs(w, o)  BY <1>3, <2>1, <2>2 DEF NoticeInv, Pending
  <2>3. CASE ~Differs(w, o)
    <3>1. ~(o \in Stored <=> o \in Stored')
      BY <1>1, <1>6, <2>3 DEF Differs, View
    <3> QED  BY <1>5, <3>1
  <2> QED  BY <2>2, <2>3
<1>7. RefCurrent' /\ SeenCovered'
  BY <1>1 DEF NoticeInv, RefCurrent, SeenCovered, Settled, maps
<1> QED  BY <1>6, <1>7 DEF NoticeInv, Pending

\* The handler finds whoever missed the object it is called with, and the queue
\* gets whom it found.
LEMMA HandlerNotice ==
  ASSUME NoticeInv, RenewInv', LookUp \/ Enqueue
  PROVE  NoticeInv'
<1>1. CASE LookUp
  <2>1. /\ events # <<>> /\ answer = {} /\ events' = Tail(events)
        /\ answer' = Observers(Head(events)) /\ events \in Seq(Objects)
        /\ UNCHANGED <<cache, wants, queued, call, ref, seen>>
    BY <1>1 DEF LookUp, GetObservers, NoticeInv, RenewInv, ReadsTypeOK
  <2>2. ASSUME NEW w \in Watchers, Settled(w)', NEW o \in Objects, Differs(w, o)'
        PROVE  Notified(o)'
    <3>1. Settled(w)  BY <2>1, <2>2 DEF Settled
    <3>2. Differs(w, o)  BY <2>1, <2>2 DEF Differs, View, Stored
    <3>3. o # Head(events)
      <4>1. w \in Observers(o)  BY <3>1, <3>2, DifferenceObserved
      <4>2. w \notin Observers(Head(events))  BY <2>1, <2>2 DEF Settled
      <4> QED  BY <4>1, <4>2
    <3>4. PICK i \in 1..Len(events) : events[i] = o
      BY <3>1, <3>2 DEF NoticeInv, Pending, Notified
    <3>5. i # 1  BY <2>1, <3>3, <3>4
    <3>6. i - 1 \in 1..Len(events') /\ events'[i - 1] = o
      BY <2>1, <3>4, <3>5
    <3> QED  BY <3>6 DEF Notified
  <2>3. RefCurrent' /\ SeenCovered'
    BY <2>1 DEF NoticeInv, RefCurrent, SeenCovered, Settled
  <2> QED  BY <2>2, <2>3 DEF NoticeInv, Pending
<1>2. CASE Enqueue
  <2>1. /\ queued' = queued \cup answer /\ answer' = {}
        /\ UNCHANGED <<cache, events, wants, call, ref, seen>>
    BY <1>2 DEF Enqueue
  <2>2. \A w \in Watchers : Settled(w)' <=> Settled(w)  BY <2>1 DEF Settled
  <2>3. \A w, o : Differs(w, o)' <=> Differs(w, o)  BY <2>1 DEF Differs, View, Stored
  <2>4. \A o : Notified(o)' <=> Notified(o)  BY <2>1 DEF Notified
  <2> QED  BY <2>1, <2>2, <2>3, <2>4 DEF NoticeInv, RefCurrent, SeenCovered, Pending
<1> QED  BY <1>1, <1>2

\* Time changes nothing that was read; after a restart everybody is queued.
LEMMA TimeNotice ==
  ASSUME NoticeInv, RenewInv', Tick \/ Restart
  PROVE  NoticeInv'
<1>1. CASE Tick
  <2>1. UNCHANGED <<cache, events, wants, queued, call, ref, seen, answer>>
    BY <1>1 DEF Tick, Expire
  <2>2. \A w \in Watchers : Settled(w)' <=> Settled(w)  BY <2>1 DEF Settled
  <2>3. \A w, o : Differs(w, o)' <=> Differs(w, o)  BY <2>1 DEF Differs, View, Stored
  <2>4. \A o : Notified(o)' <=> Notified(o)  BY <2>1 DEF Notified
  <2> QED  BY <2>1, <2>2, <2>3, <2>4 DEF NoticeInv, RefCurrent, SeenCovered, Pending
<1>2. CASE Restart
  <2>1. queued' = Watchers  BY <1>2 DEF Restart
  <2> QED  BY <2>1 DEF NoticeInv, RefCurrent, SeenCovered, Pending, Settled
<1> QED  BY <1>1, <1>2

\* Every step of the system keeps the invariant.
LEMMA NoticeStep == NoticeInv /\ [ReadsNext]_vars => NoticeInv'
<1> SUFFICES ASSUME NoticeInv, [ReadsNext]_vars PROVE NoticeInv'  OBVIOUS
<1>0. RenewInv'  BY RenewStep DEF NoticeInv
<1>1. CASE ReadsNext
  BY <1>0, <1>1, WatcherNotice, ChangeNotice, HandlerNotice, TimeNotice DEF ReadsNext
<1>2. CASE UNCHANGED vars
  <2>1. UNCHANGED <<cache, events, wants, queued, call, ref, seen, answer>>
    BY <1>2 DEF vars, readVars, maps
  <2>2. \A w \in Watchers : Settled(w)' <=> Settled(w)  BY <2>1 DEF Settled
  <2>3. \A w, o : Differs(w, o)' <=> Differs(w, o)  BY <2>1 DEF Differs, View, Stored
  <2>4. \A o : Notified(o)' <=> Notified(o)  BY <2>1 DEF Notified
  <2> QED
    BY <1>0, <2>1, <2>2, <2>3, <2>4 DEF NoticeInv, RefCurrent, SeenCovered, Pending
<1> QED  BY <1>1, <1>2

\* With nothing left to handle there is nothing a settled watcher has missed.
LEMMA NoticeInvNoStaleView == NoticeInv => NoStaleView
<1> SUFFICES ASSUME NoticeInv, NEW w \in Watchers, call[w] = "none",
                    w \notin queued \cup answer, events = <<>>
             PROVE  seen[w] = View(wants[w])
  BY DEF NoStaleView
<1>1. /\ ref[w] \in Reads /\ cache \in [Ids -> Labels \cup {NoLabel}]
      /\ seen[w] \subseteq Objects
  BY DEF NoticeInv, RenewInv, ReadsTypeOK
<1>2. \A o : ~Notified(o)  BY DEF Notified
<1>3. \A o \in Objects : ~Differs(w, o)  BY <1>2 DEF NoticeInv, Pending, Settled
<1>4. ref[w] = wants[w]  BY DEF NoticeInv, RefCurrent
<1> QED  BY <1>1, <1>3, <1>4, StoredObjects DEF Differs

\* TrackAndGet and TrackAndList with EnqueueTracked lose no change, whatever the
\* order of requests, changes, handlers, resyncs and restarts: when nothing is
\* queued, at work or still to be handled, every reconciler has read what the
\* cache holds for the reference its spec names.
THEOREM NoChangeUnnoticed == ReadsSpec => []NoStaleView
BY InitNotice, NoticeStep, NoticeInvNoStaleView, PTL DEF ReadsSpec

=============================================================================
