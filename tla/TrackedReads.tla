--------------------------- MODULE TrackedReads ---------------------------
(***************************************************************************)
(* Reconcilers that read other resources with Config.TrackAndGet or        *)
(* TrackAndList, the watch that wakes them through EnqueueTracked, and the *)
(* resync that renews their leases before the tracker of NewConfig forgets *)
(* them.                                                                   *)
(*                                                                         *)
(* The informer of the tracked kinds updates its cache first and calls the *)
(* event handlers later; reads are served from the cache.  Requests for    *)
(* different watchers run side by side, those for one watcher one by one.  *)
(***************************************************************************)
EXTENDS Sequences, Integers

CONSTANTS
  Watchers, Kinds, Namespaces, NoNamespace, ObjNames, NoName, Labels, Selectors,
  NoSelector,  \* as in Tracker
  NoLabel,     \* there is no such object
  Ids,         \* identities of the tracked objects
  Reads,       \* the references a reconciler may be asked to read
  SyncPeriod,  \* the informers resync after this time ...
  Jitter,      \* ... or at most this much later
  MaxEvents    \* bound on the events in flight

VARIABLES exact, inexact, answer

\* NewConfig: tracker.New(mgr.GetScheme(), 2*syncPeriod)
LeaseDuration_Once == SyncPeriod
LeaseDuration == 2 * SyncPeriod

INSTANCE Tracker WITH Lease <- LeaseDuration

Id == [kind : Kinds, namespace : Namespaces, name : ObjNames]

ASSUME ReadsAssumption ==
  /\ NoNamespace \in Namespaces /\ NoName \notin ObjNames /\ NoSelector \notin Selectors
  /\ Ids \subseteq Id
  /\ NoLabel \notin Labels
  /\ \A ref \in Reads : ref \in Reference /\ Valid(ref)
  /\ SyncPeriod \in Nat /\ Jitter \in Nat /\ Jitter <= SyncPeriod

VARIABLES
  cache,   \* the tracked objects in the informer's cache: their labels
  events,  \* objects the event handlers have still to be called with
  wants,   \* the reference each watcher's spec names
  queued,  \* the watchers in the work queue
  call,    \* the call each watcher's request makes next
  ref,     \* the reference each watcher's request works with
  seen,    \* what each watcher last read
  since    \* the time since each watcher was last resynced

readVars == <<cache, events, wants, queued, call, ref, seen, since>>
maps == <<exact, inexact, answer>>
vars == <<maps, readVars>>

Object(id, label) == [kind |-> id.kind, namespace |-> id.namespace, name |-> id.name,
                      label |-> label]
Stored == {Object(id, cache[id]) : id \in {i \in Ids : cache[i] # NoLabel}}

\* What Get and List return.
View(r) == {o \in Stored : <<r, o>> \in Covers}

ReadsTypeOK ==
  /\ TypeOK
  /\ cache \in [Ids -> Labels \cup {NoLabel}]
  /\ events \in Seq(Objects)
  /\ wants \in [Watchers -> Reads]
  /\ queued \in SUBSET Watchers
  /\ call \in [Watchers -> {"none", "track", "get"}]
  /\ ref \in [Watchers -> Reads]
  /\ seen \in [Watchers -> SUBSET Objects]
  /\ since \in [Watchers -> 0..(SyncPeriod + Jitter)]

ReadsInit ==
  /\ TrackerInit
  /\ cache = [id \in Ids |-> NoLabel]
  /\ events = <<>>
  /\ wants \in [Watchers -> Reads]
  /\ queued = Watchers
  /\ call = [w \in Watchers |-> "none"]
  /\ ref = wants
  /\ seen = [w \in Watchers |-> {}]
  /\ since = [w \in Watchers |-> 0]

-----------------------------------------------------------------------------
(* The reconciler. *)

\* TrackAndGet and TrackAndList track first: the order of the calls.
After_ReadFirst(c) == CASE c = "none" -> "get" [] c = "get" -> "track" [] c = "track" -> "none"
After(c) == CASE c = "none" -> "track" [] c = "track" -> "get" [] c = "get" -> "none"

Begin(w) ==
  /\ call[w] = "none" /\ w \in queued
  /\ queued' = queued \ {w}
  /\ call' = [call EXCEPT ![w] = After(@)]
  /\ ref' = [ref EXCEPT ![w] = wants[w]]
  /\ UNCHANGED <<maps, cache, events, wants, seen, since>>

Track(w) ==
  /\ call[w] = "track"
  /\ TrackReference(w, ref[w])
  /\ call' = [call EXCEPT ![w] = After(@)]
  /\ UNCHANGED <<cache, events, wants, queued, ref, seen, since>>

Read(w) ==
  /\ call[w] = "get"
  /\ seen' = [seen EXCEPT ![w] = View(ref[w])]
  /\ call' = [call EXCEPT ![w] = After(@)]
  /\ UNCHANGED <<maps, cache, events, wants, queued, ref, since>>

\* The request fails, before or after it tracked, and is queued again.
Fail(w) ==
  /\ call[w] # "none"
  /\ call' = [call EXCEPT ![w] = "none"]
  /\ queued' = queued \cup {w}
  /\ UNCHANGED <<maps, cache, events, wants, ref, seen, since>>

-----------------------------------------------------------------------------
(* The watch of the tracked kinds: EnqueueTracked. *)

\* The objects the handler maps to requests: an update has two.
Mapped(old, new) == old \o new

\* An object is created, changed or deleted, and the cache has it.
ObjectChanges(id, label) ==
  LET state(l) == IF l = NoLabel THEN <<>> ELSE <<Object(id, l)>>
  IN  /\ label # cache[id]
      /\ Len(events) < MaxEvents
      /\ cache' = [cache EXCEPT ![id] = label]
      /\ events' = events \o Mapped(state(cache[id]), state(label))
      /\ UNCHANGED <<maps, wants, queued, call, ref, seen, since>>

\* The handler looks the object up in the tracker, then adds what it found to
\* the queue; the tracker's lock is free again in between.
LookUp ==
  /\ events # <<>> /\ answer = {}
  /\ GetObservers(Head(events))
  /\ events' = Tail(events)
  /\ UNCHANGED <<cache, wants, queued, call, ref, seen, since>>

Enqueue ==
  /\ answer # {}
  /\ queued' = queued \cup answer
  /\ answer' = {}
  /\ UNCHANGED <<exact, inexact, cache, events, wants, call, ref, seen, since>>

-----------------------------------------------------------------------------
(* Users, time, restarts. *)

\* The spec of a watcher now names something else: its own watch queues it.
EditSpec(w, r) ==
  /\ r # wants[w]
  /\ wants' = [wants EXCEPT ![w] = r]
  /\ queued' = queued \cup {w}
  /\ UNCHANGED <<maps, cache, events, call, ref, seen, since>>

Resync(w) ==
  /\ since[w] >= SyncPeriod
  /\ since' = [since EXCEPT ![w] = 0]
  /\ queued' = queued \cup {w}
  /\ UNCHANGED <<maps, cache, events, wants, call, ref, seen>>

Tick ==
  /\ \A w \in Watchers : since[w] < SyncPeriod + Jitter
  /\ since' = [w \in Watchers |-> since[w] + 1]
  /\ Expire
  /\ UNCHANGED <<cache, events, wants, queued, call, ref, seen>>

\* The tracker lives in memory; the new informers list all watchers.
Restart ==
  /\ exact' = [r \in ExactRefs |-> [w \in Watchers |-> None]]
  /\ inexact' = [k \in Kinds |-> [w \in Watchers |-> [m \in MatcherKeys |-> None]]]
  /\ answer' = {}
  /\ events' = <<>>
  /\ queued' = Watchers
  /\ call' = [w \in Watchers |-> "none"]
  /\ seen' = [w \in Watchers |-> {}]
  /\ since' = [w \in Watchers |-> 0]
  /\ UNCHANGED <<cache, wants, ref>>

ReadsNext ==
  \/ \E w \in Watchers :
       \/ Begin(w) \/ Track(w) \/ Read(w) \/ Fail(w) \/ Resync(w)
       \/ \E r \in Reads : EditSpec(w, r)
  \/ \E id \in Ids, label \in Labels \cup {NoLabel} : ObjectChanges(id, label)
  \/ LookUp
  \/ Enqueue
  \/ Tick
  \/ Restart

ReadsSpec == ReadsInit /\ [][ReadsNext]_vars

-----------------------------------------------------------------------------
(* Properties *)

\* No change goes unnoticed: a watcher with nothing under way, nothing queued
\* and no notification pending has seen what the cache holds for the reference
\* its spec names.  (TrackAndGet: "track is registered even when the resource
\* does not exist"; track before get, map the old object and the new one.)
NoStaleView ==
  \A w \in Watchers :
    call[w] = "none" /\ w \notin queued \cup answer /\ events = <<>> =>
      seen[w] = View(wants[w])

\* A watcher that is not queued holds a live lease on what it works with,
\* whenever the object at the other end changes, or appears for the first time:
\* twice the resync period outlasts a resync that comes late.  (README.md:934)
Renewed ==
  \A w \in Watchers :
    w \notin queued /\ call[w] # "track" =>
      \A o \in Objects : <<ref[w], o>> \in Covers => w \in Observers(o)
=============================================================================
