--------------------------- MODULE TrackerProofs ---------------------------
(***************************************************************************)
(* The tracker is type correct and implements TrackerContract, whatever    *)
(* the watchers, objects, selectors and the length of a lease.             *)
(***************************************************************************)
EXTENDS Tracker, TLAPS

ValidRefs == {ref \in Reference : Valid(ref)}
Age == [w \in Watchers |-> [ref \in ValidRefs |->
          IF Live(Left(w, ref)) THEN Lease - Left(w, ref) ELSE Lease + 1]]

-----------------------------------------------------------------------------
(* Facts about the maps. *)

\* Every object has a reference by name, and it is a valid one.
LEMMA RefToType == ASSUME NEW o \in Objects PROVE RefTo(o) \in ExactRefs
BY TrackerAssumption DEF Objects, RefTo, ExactRefs, Reference, Named, Valid

\* A valid reference without a selector is a key of the exact map; any other
\* has a matcher key.
LEMMA RefKeys ==
  ASSUME NEW ref \in Reference, Valid(ref)
  PROVE  /\ Named(ref) => ref \in ExactRefs
         /\ ~Named(ref) => ref.kind \in Kinds /\ MatcherKey(ref) \in MatcherKeys
BY DEF Reference, ExactRefs, Named, MatcherKey, MatcherKeys

\* Two valid references with selectors differ in their kind or matcher key.
LEMMA MatcherKeyDetermines ==
  ASSUME NEW r \in Reference, NEW s \in Reference, Valid(r), Valid(s),
         ~Named(r), ~Named(s), r.kind = s.kind, MatcherKey(r) = MatcherKey(s)
  PROVE  r = s
<1>1. r.name = s.name  BY DEF Valid
<1>2. r.selector = s.selector /\ r.namespace = s.namespace  BY DEF MatcherKey
<1> QED  BY <1>1, <1>2 DEF Reference

\* What is left of a lease on a valid reference is a lease.
LEMMA LeftType ==
  ASSUME TypeOK, NEW w \in Watchers, NEW ref \in ValidRefs
  PROVE  Left(w, ref) \in Leases
BY RefKeys DEF TypeOK, Left, ValidRefs

-----------------------------------------------------------------------------
(* Type correctness. *)

\* The maps start out empty.
LEMMA InitType == Init => TypeOK
BY TrackerAssumption DEF Init, TrackerInit, TypeOK, Leases, None

\* Every operation keeps the types.
LEMMA StepType == TypeOK /\ [Next]_trackerVars => TypeOK'
<1> SUFFICES ASSUME TypeOK, [Next]_trackerVars PROVE TypeOK'  OBVIOUS
<1> USE TrackerAssumption
<1>1. ASSUME NEW w \in Watchers, NEW ref \in Reference, TrackReference(w, ref) PROVE TypeOK'
  <2>1. Lease \in Leases  BY DEF Leases, None
  <2>2. CASE ~Valid(ref)  BY <1>1, <2>2 DEF TypeOK, TrackReference
  <2>3. CASE Valid(ref) /\ Named(ref)
    <3>1. ref \in ExactRefs  BY <2>3, RefKeys
    <3>2. exact' = [exact EXCEPT ![ref][w] = Lease]
      BY <1>1, <2>3 DEF TrackReference
    <3>3. exact' \in [ExactRefs -> [Watchers -> Leases]]
      BY <2>1, <3>1, <3>2 DEF TypeOK
    <3> QED  BY <1>1, <2>3, <3>3 DEF TypeOK, TrackReference
  <2>4. CASE Valid(ref) /\ ~Named(ref)
    <3>1. ref.kind \in Kinds /\ MatcherKey(ref) \in MatcherKeys  BY <2>4, RefKeys
    <3>2. inexact' = [inexact EXCEPT ![ref.kind][w][MatcherKey(ref)] = Lease]
      BY <1>1, <2>4 DEF TrackReference
    <3>3. inexact' \in [Kinds -> [Watchers -> [MatcherKeys -> Leases]]]
      BY <2>1, <3>1, <3>2 DEF TypeOK
    <3> QED  BY <1>1, <2>4, <3>3 DEF TypeOK, TrackReference
  <2> QED  BY <2>2, <2>3, <2>4
<1>2. ASSUME NEW o \in Objects, GetObservers(o) PROVE TypeOK'
  <2>1. Observers(o) \subseteq Watchers
    BY DEF Observers, ObserversByName, ObserversBySelector
  <2>2. RefTo(o) \in ExactRefs /\ o.kind \in Kinds  BY RefToType DEF Objects
  <2>3. ASSUME NEW S, NEW f \in [S -> Leases] PROVE Pruned(f) \in [S -> Leases]
    BY DEF Pruned, Leases, None, Lapsed
  <2>4. Pruned(exact[RefTo(o)]) \in [Watchers -> Leases]
    BY <2>2, <2>3 DEF TypeOK
  <2>5. \A w \in Watchers : Pruned(inexact[o.kind][w]) \in [MatcherKeys -> Leases]
    BY <2>2, <2>3 DEF TypeOK
  <2> QED  BY <1>2, <2>1, <2>2, <2>4, <2>5 DEF TypeOK, GetObservers
<1>3. ASSUME Expire PROVE TypeOK'
  <2>1. \A l \in Leases : Older(l) \in Leases
    BY DEF Leases, Older, Live, None
  <2> QED  BY <1>3, <2>1 DEF TypeOK, Expire
<1>4. CASE UNCHANGED trackerVars
  BY <1>4 DEF TypeOK, trackerVars
<1> QED  BY <1>1, <1>2, <1>3, <1>4 DEF Next

\* The maps hold nothing but leases, none of them longer than leaseDuration:
\* tracking again overwrites a lease and never extends it.
THEOREM TypeCorrect == Spec => []TypeOK
<1>1. Init => TypeOK  BY InitType
<1>2. TypeOK /\ [Next]_trackerVars => TypeOK'  BY StepType
<1> QED  BY <1>1, <1>2, PTL DEF Spec

-----------------------------------------------------------------------------
(* The refinement. *)

\* The ages the contract speaks of are those of the leases.
LEMMA AgeIs ==
  ASSUME TypeOK, NEW w \in Watchers, NEW ref \in ValidRefs
  PROVE  /\ Age[w][ref] = IF Left(w, ref) >= 0 THEN Lease - Left(w, ref) ELSE Lease + 1
         /\ Age[w][ref] <= Lease <=> Left(w, ref) >= 0
<1>1. Left(w, ref) \in Int /\ Lease \in Int
  BY LeftType, TrackerAssumption DEF Leases, None
<1> QED  BY <1>1 DEF Age, Live

\* A lookup leaves live leases as they are, and the dead ones dead.
LEMMA PruneKeeps ==
  ASSUME TypeOK, NEW o \in Objects, GetObservers(o), NEW w \in Watchers, NEW ref \in ValidRefs
  PROVE  \/ Left(w, ref)' = Left(w, ref)
         \/ Left(w, ref) < 0 /\ Left(w, ref)' < 0
<1>1. RefTo(o) \in ExactRefs /\ o.kind \in Kinds  BY RefToType DEF Objects
<1>2. ref \in Reference /\ Valid(ref)  BY DEF ValidRefs
<1>3. CASE Named(ref)
  BY <1>1, <1>2, <1>3, RefKeys DEF Left, GetObservers, Pruned, TypeOK, None, Lapsed
<1>4. CASE ~Named(ref)
  <2>1. ref.kind \in Kinds /\ MatcherKey(ref) \in MatcherKeys  BY <1>2, <1>4, RefKeys
  <2>2. Left(w, ref)' = inexact'[ref.kind][w][MatcherKey(ref)]  BY <1>4 DEF Left
  <2>3. inexact'[ref.kind][w] = IF ref.kind = o.kind THEN Pruned(inexact[o.kind][w])
                                                    ELSE inexact[ref.kind][w]
    BY <1>1, <2>1 DEF GetObservers, TypeOK
  <2> QED  BY <1>4, <2>1, <2>2, <2>3 DEF Left, Pruned, TypeOK, None, Lapsed
<1> QED  BY <1>3, <1>4

\* The two maps together answer for the references that cover an object.
LEMMA AnswerIsRight ==
  ASSUME TypeOK, NEW o \in Objects
  PROVE  Observers(o) =
           {w \in Watchers : \E r \in ValidRefs : <<r, o>> \in Covers /\ Left(w, r) >= 0}
<1> DEFINE Right(w) == \E r \in ValidRefs : <<r, o>> \in Covers /\ Left(w, r) >= 0
<1> SUFFICES ASSUME NEW w \in Watchers PROVE w \in Observers(o) <=> Right(w)
  BY DEF Observers, ObserversByName, ObserversBySelector
<1>1. ASSUME w \in ObserversByName(o) PROVE Right(w)
  <2>1. RefTo(o) \in ValidRefs /\ Named(RefTo(o))
    BY RefToType DEF ExactRefs, ValidRefs
  <2>2. <<RefTo(o), o>> \in Covers
    BY <2>1 DEF Covers, ValidRefs, RefTo
  <2>3. Left(w, RefTo(o)) >= 0
    BY <1>1, <2>1 DEF ObserversByName, Left, Live
  <2> QED  BY <2>1, <2>2, <2>3
<1>2. ASSUME w \in ObserversBySelector(o) PROVE Right(w)
  <2>1. PICK m \in MatcherKeys : Matches(m, o) /\ Live(inexact[o.kind][w][m])
    BY <1>2 DEF ObserversBySelector
  <2> DEFINE r == [kind |-> o.kind, namespace |-> m.namespace, name |-> NoName,
                   selector |-> m.selector]
  <2>2. r \in ValidRefs /\ ~Named(r)
    BY TrackerAssumption DEF ValidRefs, Reference, Valid, Named, MatcherKeys, Objects
  <2>3. MatcherKey(r) = m  BY DEF MatcherKey, MatcherKeys
  <2>4. <<r, o>> \in Covers
    BY <2>1, <2>2 DEF Covers, ValidRefs, Matches
  <2>5. Left(w, r) >= 0
    BY <2>1, <2>2, <2>3 DEF Left, Live
  <2> HIDE DEF r
  <2> QED  BY <2>2, <2>4, <2>5
<1>3. ASSUME NEW r \in ValidRefs, <<r, o>> \in Covers, Left(w, r) >= 0
      PROVE  w \in Observers(o)
  <2>1. r \in Reference /\ Valid(r) /\ r.kind = o.kind  BY <1>3 DEF Covers
  <2>2. CASE Named(r)
    <3>1. r.namespace = o.namespace /\ r.name = o.name  BY <1>3, <2>2 DEF Covers
    <3>2. r = RefTo(o)
      BY <2>1, <2>2, <3>1 DEF Reference, RefTo, Named
    <3> QED  BY <1>3, <2>2, <3>2 DEF Observers, ObserversByName, Left, Live
  <2>3. CASE ~Named(r)
    <3>1. MatcherKey(r) \in MatcherKeys  BY <2>1, <2>3, RefKeys
    <3>2. Matches(MatcherKey(r), o)
      BY <1>3, <2>3 DEF Covers, Matches, MatcherKey
    <3> QED
      BY <1>3, <2>1, <2>3, <3>1, <3>2 DEF Observers, ObserversBySelector, Left, Live
  <2> QED  BY <2>2, <2>3
<1> QED  BY <1>1, <1>2, <1>3 DEF Observers

\* Tracking renews one lease and touches no other.
LEMMA TrackRenews ==
  ASSUME TypeOK, NEW w \in Watchers, NEW ref \in ValidRefs, TrackReference(w, ref),
         NEW v \in Watchers, NEW r \in ValidRefs
  PROVE  Left(v, r)' = IF v = w /\ r = ref THEN Lease ELSE Left(v, r)
<1>1. ref \in Reference /\ Valid(ref) /\ r \in Reference /\ Valid(r)  BY DEF ValidRefs
<1>2. CASE Named(ref)
  BY <1>1, <1>2, RefKeys DEF TrackReference, Left, TypeOK
<1>3. CASE ~Named(ref)
  <2>1. CASE Named(r)
    BY <1>1, <1>3, <2>1 DEF TrackReference, Left
  <2>2. CASE ~Named(r)
    <3>1. r.kind = ref.kind /\ MatcherKey(r) = MatcherKey(ref) => r = ref
      BY <1>1, <1>3, <2>2, MatcherKeyDetermines
    <3>2. /\ ref.kind \in Kinds /\ MatcherKey(ref) \in MatcherKeys
          /\ r.kind \in Kinds /\ MatcherKey(r) \in MatcherKeys
      BY <1>1, <1>3, <2>2, RefKeys
    <3>3. inexact' = [inexact EXCEPT ![ref.kind][w][MatcherKey(ref)] = Lease]
      BY <1>1, <1>3 DEF TrackReference
    <3>4. Left(v, r)' = inexact'[r.kind][v][MatcherKey(r)]  BY <2>2 DEF Left
    <3> QED  BY <2>2, <3>1, <3>2, <3>3, <3>4 DEF Left, TypeOK
  <2> QED  BY <2>1, <2>2
<1> QED  BY <1>2, <1>3

\* A table that differs from another in one entry is that one, updated.
LEMMA UpdatedTable ==
  ASSUME NEW S, NEW T, NEW f, NEW g, NEW w \in S, NEW ref \in T,
         f = [v \in S |-> [r \in T |-> f[v][r]]],
         g = [v \in S |-> [r \in T |-> g[v][r]]],
         \A v \in S, r \in T : g[v][r] = IF v = w /\ r = ref THEN 0 ELSE f[v][r]
  PROVE  g = [f EXCEPT ![w] = [@ EXCEPT ![ref] = 0]]
<1> DEFINE h == [f EXCEPT ![w] = [@ EXCEPT ![ref] = 0]]
<1>1. ASSUME NEW v \in S PROVE h[v] = [r \in T |-> g[v][r]]
  <2>1. f[v] = [r \in T |-> f[v][r]]
    OBVIOUS
  <2>2. CASE v = w
    <3>1. h[v] = [f[v] EXCEPT ![ref] = 0]
      BY <2>2
    <3> QED
      BY <2>1, <2>2, <3>1
  <2>3. CASE v # w
    <3>1. h[v] = f[v]
      BY <2>3
    <3>2. \A r \in T : g[v][r] = f[v][r]
      BY <2>3
    <3> QED
      BY <2>1, <3>1, <3>2
  <2> QED
    BY <2>2, <2>3
<1>2. h = [v \in S |-> h[v]]
  OBVIOUS
<1> QED
  BY <1>1, <1>2

\* Every step of the tracker is a step of its contract.
LEMMA StepRefines == TypeOK /\ [Next]_trackerVars => [Contract!Next]_(Contract!vars)
<1> SUFFICES ASSUME TypeOK, [Next]_trackerVars PROVE [Contract!Next]_(Contract!vars)
  OBVIOUS
<1>a. TypeOK'  BY StepType
<1>b. Lease \in Nat  BY TrackerAssumption
<1>1. ASSUME NEW w \in Watchers, NEW ref \in Reference, TrackReference(w, ref)
      PROVE  [Contract!Next]_(Contract!vars)
  <2>1. CASE ~Valid(ref)
    <3>1. Age' = Age /\ answer' = answer
      BY <1>1, <2>1 DEF TrackReference, Age, Left
    <3> QED  BY <3>1 DEF Contract!vars, Age, ValidRefs
  <2>2. CASE Valid(ref)
    <3>1. ref \in ValidRefs  BY <2>2 DEF ValidRefs
    <3>2. \A v \in Watchers, r \in ValidRefs :
            Age'[v][r] = IF v = w /\ r = ref THEN 0 ELSE Age[v][r]
      <4> SUFFICES ASSUME NEW v \in Watchers, NEW r \in ValidRefs
                   PROVE  Age'[v][r] = IF v = w /\ r = ref THEN 0 ELSE Age[v][r]
        OBVIOUS
      <4>1. Left(v, r)' = IF v = w /\ r = ref THEN Lease ELSE Left(v, r)
        BY <1>1, <3>1, TrackRenews
      <4>2. Age'[v][r] = IF Left(v, r)' >= 0 THEN Lease - Left(v, r)' ELSE Lease + 1
        BY DEF Age, Live
      <4>3. Age[v][r] = IF Left(v, r) >= 0 THEN Lease - Left(v, r) ELSE Lease + 1
        BY DEF Age, Live
      <4> QED  BY <4>1, <4>2, <4>3, <1>b
    <3>a. Age = [v \in Watchers |-> [r \in ValidRefs |-> Age[v][r]]]
      BY DEF Age
    <3>b. Age' = [v \in Watchers |-> [r \in ValidRefs |-> Age'[v][r]]]
      BY DEF Age
    <3>3. Age' = [Age EXCEPT ![w] = [@ EXCEPT ![ref] = 0]]
      BY <3>1, <3>2, <3>a, <3>b, UpdatedTable
    <3>4. answer' = answer  BY <1>1 DEF TrackReference
    <3>5. Contract!Track(w, ref)
      BY <3>3, <3>4 DEF Contract!Track, Age, ValidRefs
    <3> QED  BY <3>1, <3>5 DEF Contract!Next, ValidRefs
  <2> QED  BY <2>1, <2>2
<1>2. ASSUME NEW o \in Objects, GetObservers(o) PROVE [Contract!Next]_(Contract!vars)
  <2>1. Age' = Age
    <3> SUFFICES ASSUME NEW w \in Watchers, NEW r \in ValidRefs
                 PROVE  Age'[w][r] = Age[w][r]
      BY DEF Age
    <3>1. \/ Left(w, r)' = Left(w, r)
          \/ Left(w, r) < 0 /\ Left(w, r)' < 0
      BY <1>2, PruneKeeps
    <3>2. Left(w, r) \in Int /\ Left(w, r)' \in Int
      <4>1. Left(w, r) \in Int  BY LeftType DEF Leases, None
      <4>2. Left(w, r)' \in Leases
        BY <1>a, RefKeys DEF TypeOK, Left, ValidRefs
      <4> QED  BY <4>1, <4>2 DEF Leases, None
    <3>3. Age'[w][r] = IF Left(w, r)' >= 0 THEN Lease - Left(w, r)' ELSE Lease + 1
      BY DEF Age, Live
    <3>4. Age[w][r] = IF Left(w, r) >= 0 THEN Lease - Left(w, r) ELSE Lease + 1
      BY DEF Age, Live
    <3> QED  BY <3>1, <3>2, <3>3, <3>4
  <2>2. answer' = {w \in Watchers : \E r \in ValidRefs :
                     <<r, o>> \in Covers /\ Left(w, r) >= 0}
    BY <1>2, AnswerIsRight DEF GetObservers
  <2>3. answer' = {w \in Watchers : \E r \in ValidRefs :
                     <<r, o>> \in Covers /\ Age[w][r] <= Lease}
    BY <2>2, AgeIs
  <2>4. Contract!Ask(o)
    BY <2>1, <2>3 DEF Contract!Ask, Contract!Observers, Age, ValidRefs
  <2> QED  BY <2>4 DEF Contract!Next
<1>3. ASSUME Expire PROVE [Contract!Next]_(Contract!vars)
  <2>1. \A w \in Watchers, r \in ValidRefs : Left(w, r)' = Older(Left(w, r))
    BY <1>3, RefKeys DEF Expire, Left, ValidRefs
  <2>2. Age' = [w \in Watchers |-> [r \in ValidRefs |->
                  IF Age[w][r] <= Lease THEN Age[w][r] + 1 ELSE Lease + 1]]
    <3> SUFFICES ASSUME NEW w \in Watchers, NEW r \in ValidRefs
                 PROVE  Age'[w][r] = IF Age[w][r] <= Lease THEN Age[w][r] + 1 ELSE Lease + 1
      BY DEF Age
    <3>1. Left(w, r) \in Int  BY LeftType DEF Leases, None
    <3>2. Left(w, r)' = IF Left(w, r) >= 0 THEN Left(w, r) - 1 ELSE Left(w, r)
      BY <2>1 DEF Older, Live
    <3>3. Age'[w][r] = IF Left(w, r)' >= 0 THEN Lease - Left(w, r)' ELSE Lease + 1
      BY DEF Age, Live
    <3> QED  BY <3>1, <3>2, <3>3, <1>b, AgeIs
  <2>3. answer' = answer  BY <1>3 DEF Expire
  <2>4. Contract!Tick
    BY <2>2, <2>3 DEF Contract!Tick, Contract!Forgotten, Age, ValidRefs
  <2> QED  BY <2>4 DEF Contract!Next
<1>4. CASE UNCHANGED trackerVars
  <2>1. Age' = Age /\ answer' = answer
    BY <1>4 DEF trackerVars, Age, Left
  <2> QED  BY <2>1 DEF Contract!vars, Age, ValidRefs
<1> QED  BY <1>1, <1>2, <1>3, <1>4 DEF Next

\* GetObservers answers with exactly the watchers whose track requests cover the
\* object and are no older than the lease, however the lookups before it pruned
\* the two maps.
THEOREM TrackerImplementsContract == Spec => ImplementsContract
<1>1. Init => Contract!Init
  <2> SUFFICES ASSUME Init PROVE Contract!Init  OBVIOUS
  <2>1. \A w \in Watchers, r \in ValidRefs : Left(w, r) = None
    BY RefKeys DEF Init, TrackerInit, Left, ValidRefs
  <2>2. Age = [w \in Watchers |-> [r \in ValidRefs |-> Lease + 1]]
    BY <2>1 DEF Age, Live, None
  <2> QED
    BY <2>2 DEF Contract!Init, Contract!Forgotten, Age, ValidRefs, Init, TrackerInit
<1>2. TypeOK /\ [Next]_trackerVars => [Contract!Next]_(Contract!vars)  BY StepRefines
<1>3. Spec => []TypeOK  BY TypeCorrect
<1> QED  BY <1>1, <1>2, <1>3, PTL DEF Spec, ImplementsContract, Contract!Spec
=============================================================================
