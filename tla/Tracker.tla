------------------------------ MODULE Tracker ------------------------------
(***************************************************************************)
(* src/tracker: which reconciled resources (the watchers) asked to hear of *)
(* changes to which other objects, by name or by label selector.  A track  *)
(* request is a lease; a lapsed lease stays in the maps until a lookup     *)
(* happens to walk over it.  Every operation holds the mutex from its      *)
(* first access to the maps to its last: each is one step.                 *)
(*                                                                         *)
(* Times are kept relative to the clock: a lease is the time left to it.   *)
(***************************************************************************)
EXTENDS Integers

CONSTANTS
  Watchers,     \* keys of the resources that track
  Kinds,        \* group and kind of the tracked objects
  Namespaces,   \* their namespaces, NoNamespace included
  NoNamespace,  \* the namespace of cluster-scoped objects; in a reference with
                \* a selector it stands for all namespaces
  ObjNames,     \* their names
  NoName,       \* the reference has no name
  Labels,       \* their labels, one value for the whole set
  Selectors,    \* the label selectors, each the labels it matches
  NoSelector,   \* the reference has no selector
  Lease         \* leaseDuration

ASSUME TrackerAssumption ==
  /\ NoNamespace \in Namespaces
  /\ NoName \notin ObjNames
  /\ NoSelector \notin Selectors
  /\ Lease \in Nat

VARIABLES
  exact,    \* leases on references with a name
  inexact,  \* leases on references with a selector
  answer    \* the last answer of GetObservers

trackerVars == <<exact, inexact, answer>>

Objects == [kind : Kinds, namespace : Namespaces, name : ObjNames, label : Labels]

Reference == [kind : Kinds, namespace : Namespaces, name : ObjNames \cup {NoName},
              selector : Selectors \cup {NoSelector}]

Named(ref) == ref.selector = NoSelector
Valid(ref) == Named(ref) <=> ref.name # NoName

ExactRefs == {ref \in Reference : Named(ref) /\ Valid(ref)}
MatcherKeys == [selector : Selectors, namespace : Namespaces]
MatcherKey(ref) == [selector |-> ref.selector, namespace |-> ref.namespace]

\* The map has no entry, or one whose expiry is in the past.
None == -2
Lapsed == -1
Leases == None..Lease

TypeOK ==
  /\ exact \in [ExactRefs -> [Watchers -> Leases]]
  /\ inexact \in [Kinds -> [Watchers -> [MatcherKeys -> Leases]]]
  /\ answer \in SUBSET Watchers

TrackerInit ==
  /\ exact = [ref \in ExactRefs |-> [w \in Watchers |-> None]]
  /\ inexact = [k \in Kinds |-> [w \in Watchers |-> [m \in MatcherKeys |-> None]]]
  /\ answer = {}

\* A request for an invalid reference is refused.  A repeated request
\* overwrites the lease; several references of one watcher live side by side.
TrackReference_Extends(w, ref) ==
  /\ IF ~Valid(ref)
       THEN UNCHANGED <<exact, inexact>>
       ELSE IF Named(ref)
              THEN /\ exact' = [exact EXCEPT ![ref][w] = @ + Lease]
                   /\ UNCHANGED inexact
              ELSE /\ inexact' = [inexact EXCEPT ![ref.kind][w][MatcherKey(ref)] = @ + Lease]
                   /\ UNCHANGED exact
  /\ UNCHANGED answer
TrackReference(w, ref) ==
  /\ IF ~Valid(ref)
       THEN UNCHANGED <<exact, inexact>>
       ELSE IF Named(ref)
              THEN /\ exact' = [exact EXCEPT ![ref][w] = Lease]
                   /\ UNCHANGED inexact
              ELSE /\ inexact' = [inexact EXCEPT ![ref.kind][w][MatcherKey(ref)] = Lease]
                   /\ UNCHANGED exact
  /\ UNCHANGED answer

\* The reference by which TrackObject and GetObservers know an object.
RefTo(o) == [kind |-> o.kind, namespace |-> o.namespace, name |-> o.name,
             selector |-> NoSelector]

Matches(m, o) == m.namespace \in {NoNamespace, o.namespace} /\ o.label \in m.selector

\* now.After(expiry)
Live(lease) == lease >= 0

ObserversByName(o) == {w \in Watchers : Live(exact[RefTo(o)][w])}
ObserversBySelector(o) ==
  {w \in Watchers : \E m \in MatcherKeys : Matches(m, o) /\ Live(inexact[o.kind][w][m])}
Observers(o) == ObserversByName(o) \cup ObserversBySelector(o)

\* A lookup drops the lapsed leases it walks over, and the maps that empties.
Pruned_Watcher(leases) ==
  [x \in DOMAIN leases |-> IF \E y \in DOMAIN leases : leases[y] = Lapsed THEN None ELSE leases[x]]
Pruned(leases) ==
  [x \in DOMAIN leases |-> IF leases[x] = Lapsed THEN None ELSE leases[x]]

GetObservers(o) ==
  /\ answer' = Observers(o)
  /\ exact' = [exact EXCEPT ![RefTo(o)] = Pruned(@)]
  /\ inexact' = [inexact EXCEPT ![o.kind] = [w \in Watchers |-> Pruned(@[w])]]

\* Time passes.
Older(lease) == IF Live(lease) THEN lease - 1 ELSE lease

Expire ==
  /\ exact' = [ref \in ExactRefs |-> [w \in Watchers |-> Older(exact[ref][w])]]
  /\ inexact' = [k \in Kinds |-> [w \in Watchers |-> [m \in MatcherKeys |->
                   Older(inexact[k][w][m])]]]
  /\ UNCHANGED answer

Init == TrackerInit

Next ==
  \/ \E w \in Watchers, ref \in Reference : TrackReference(w, ref)
  \/ \E o \in Objects : GetObservers(o)
  \/ Expire

Spec == Init /\ [][Next]_trackerVars

-----------------------------------------------------------------------------
(* Properties *)

\* The doc of interface.go and README.md:926-936: a name matches one object, a
\* selector those of its namespace, or of all namespaces.
Covers == {p \in Reference \X Objects :
  LET ref == p[1]  o == p[2]
  IN  /\ Valid(ref)
      /\ ref.kind = o.kind
      /\ IF Named(ref)
           THEN ref.namespace = o.namespace /\ ref.name = o.name
           ELSE /\ ref.namespace = o.namespace \/ ref.namespace = NoNamespace
                /\ o.label \in ref.selector}

Left(w, ref) == IF Named(ref) THEN exact[ref][w]
                              ELSE inexact[ref.kind][w][MatcherKey(ref)]

\* The tracker answers as if it never pruned anything: a lookup that throws
\* lapsed leases away takes no live one along, and one that leaves them in the
\* maps (it walks only the maps of one kind) never answers with them.
Contract == INSTANCE TrackerContract WITH
  Refs <- {ref \in Reference : Valid(ref)},
  age <- [w \in Watchers |-> [ref \in {r \in Reference : Valid(r)} |->
            IF Live(Left(w, ref)) THEN Lease - Left(w, ref) ELSE Lease + 1]]
ImplementsContract == Contract!Spec
=============================================================================
