# A TLA+ model of reconciler-runtime

reconciler-runtime is a library for writing Kubernetes controllers: an author
composes *reconcilers*, and the library does what is easy to get wrong, such as
finalizers, child resources, status writes, tracking and conditions. These modules
model that library code, check it with TLC on small clusters, and prove the
properties that matter most with TLAPS for clusters of any size.

Contents: [the system](#the-system), [the modules](#the-modules),
[the runs](#the-runs), [what disagrees with the documentation](#where-code-and-documentation-disagree),
[what else the models show](#what-else-the-models-show), [fairness](#fairness),
[the proofs](#the-proofs), [what is not modelled](#what-is-not-modelled), [the plan](#the-plan).

## The system

A controller is one process. A work queue hands keys to workers, never the same key
to two of them. A worker reads the resource (the *parent*) from an informer's cache,
runs the sub reconcilers, and writes to the API server. Informers learn of the writes
later, update their caches and call event handlers, which put keys back on the queue.
A request that fails is queued again. All that is hard comes from there: what a worker
reads is old; users, other controllers and the garbage collector act in between; calls
fail, or succeed with the answer lost; the process restarts and forgets everything
that is not on the API server.

| component | state | operations | interacts with | module |
|---|---|---|---|---|
| `ResourceReconciler` (`reconcilers/resource.go`) | the in-memory resource and the status as read, per request | read, default, initialize conditions, run the sub reconciler, copy the generation, write the status if it changed | API server, work queue, every sub reconciler | `Requests`, `ChildReconciler`, `ConditionSet` |
| `ChildReconciler` (`child.go`) | none of its own after setup | list and filter children, desire one, create, update, delete, reflect its status on the parent | API server, `ResourceManager`, tracker | `ChildReconciler` |
| `ResourceManager` (`resourcemanager.go`) | a cache of mutation patches by UID | `Manage`: finalizer, create, update or delete one resource | API server, finalizer helpers, tracker | `ChildReconciler`, `Requests` |
| finalizer helpers (`finalizer.go`) | none | `AddFinalizer`, `ClearFinalizer`: a patch under an optimistic lock; `WithFinalizer` around a sub reconciler | API server | `ChildReconciler`, `ChildSet` |
| `ChildSetReconciler` (`childset.go`) | partial results, in the stash of the request | compose one `ChildReconciler` per child identity, gather and reflect their results | `ChildReconciler`, `Sequence`, `WithFinalizer` | `ChildSet` |
| flow reconcilers (`sequence.go`, `flow.go`, `sync.go`, `cast.go`, `WithConfig`) | none | validate the tree; run sub reconcilers in order, conditionally, in a loop, with cleanup, under another type or config; put results and errors together | sub reconcilers | `Flow` |
| `AggregateReconciler` (`aggregate.go`) | none | reconcile one named resource that may not exist | flow reconcilers, `ResourceManager` | `Requests` |
| `AdmissionWebhookAdapter` (`webhook.go`) | none | default and reconcile an object on its way into the API server, answer with a patch or a refusal | API server, flow reconcilers | `Requests` |
| duck client (`duck/client.go`) | none | serve types that have some of an object's fields only | API server | `Requests`, in part |
| `Config`, `EnqueueTracked` (`config.go`, `reconcilers.go`) | the tracker | `TrackAndGet`, `TrackAndList`; map events to keys | tracker, informers, queue | `TrackedReads` |
| tracker (`tracker/enqueue.go`) | two maps of leases under a mutex | track by name or selector, look observers up | `Config`, event handlers | `Tracker` |
| conditions (`apis/conditionset.go`) | a list of conditions | `Mark*`, `ClearCondition`, `InitializeConditions` | sub reconcilers, `ResourceReconciler` | `ConditionSet` |
| test harness (`testing/`) | what the config under test took down | run table tests, record calls, induce failures, compare | any reconciler | `Harness`, in part |
| stash, helpers, fixtures, generated code | context values | - | - | - |

What is hard, and what correctness means:

* **Children and finalizers** (stale reads, lost calls, restarts, foreign objects): no
  child without the finalizer, no finalizer removed while a child exists, never two
  children for long, nobody else's object overwritten, no conflict reported with the
  reconciler's own child. With several children, one that fails, is refused or is slow
  hides nothing of the others.
* **Status**: a status that claims the current generation reports on the current
  spec; it stops changing when the world does; writing it undoes nobody else's change.
* **Composition**: requeue times, errors and changes of the resource get through every
  combinator; cleanup always runs; loops end; what validation accepts does not panic.
* **Mutating webhooks**: what they make of an object causes neither endless updates nor
  a missing one.
* **Wakeups**: when the controller goes quiet there is no work left, and the next
  change of a child or tracked object will be noticed.
* **Tracker**: who observes an object follows from the unexpired track requests alone.
* **Conditions**: the happy condition follows from its dependents.
* **Progress**: children and aggregates converge; a terminating parent goes away.
* **Tests**: a suite is green exactly if the reconcilers did what it expects. This is not
  always so: see `harness_configs`.

`PROJECT.json` lists each hazard at the line where it bites, with its properties.

## The modules

| module | models |
|---|---|
| `Cluster` | the API server, the informer caches with their undelivered versions, users, other controllers, the garbage collector. External: no code of the repository |
| `ChildReconciler` | `ResourceReconciler` around one `ChildReconciler`, with `ResourceManager.Manage` and the finalizer helpers inlined |
| `FinalizerContract` | what a finalizer promises, without caches, calls or crashes; implemented by `ChildReconciler` and by `ChildSet` |
| `ChildSet` | `ResourceReconciler` around one `ChildSetReconciler`: many children, one `ChildReconciler` for each, one finalizer for all |
| `Flow` | the composition of sub reconcilers, and the validation of it |
| `Requests` | extends `Flow` with what runs a tree: `ResourceReconciler`, `AggregateReconciler` with `ResourceManager`'s mutation cache, `AdmissionWebhookAdapter`, for plain and duck types |
| `Tracker` | `tracker/enqueue.go`, both maps and their pruning |
| `TrackerContract` | the tracker's promise: a list of ages, no maps; implemented by `Tracker` |
| `TrackedReads` | `TrackAndGet`/`TrackAndList`, `EnqueueTracked`, `NewConfig`'s lease, resyncs, restarts. Composes `Tracker` (an instance) with informer and queue |
| `ConditionSet` | conditions over several requests, and `syncLastTransitionTime` |
| `Harness` | suites of table tests and what they compare |
| `MC*` | constants and bounds for TLC |
| `*Proofs` | theorems of the module they are named for |
| `ChildWakeupProofs` | theorems of `ChildReconciler` about the children's versions and about wakeups; extends `ChildReconcilerProofs` |

**ChildReconciler.** A request is cut at every call to the API server: `pc` names the
next call, and each call is one action, together with all in-memory work up to the next
one. `res` is the in-memory resource, `original` its status as read, `list` the children
as listed. `Begin` reads the parent; `ListChildren` lists and dispatches, to `DeleteExtra`
when there are several children, else into `Manage`: `ClearFinalizer`, `DeleteChild`, or
`AddFinalizer` followed by `CreateChild` (then `CheckConflict` if the name is taken) or
`UpdateChild`. All end in `Conclude`, which goes on to `WriteStatus` if the status
changed and the parent is not terminating, and else returns the key to the queue exactly
if there was an error. Every call has three fates (`Answers`): done, refused, done with
the answer lost; each deviation spends one of the run's `faults`. The order of `init()`
and `validate()` in the setup is in `TrackDesired` and `SkipOwner`. `DesiredChild` is a
function of the spec; a spec in `Paused` makes it return `OnlyReconcileChildStatus`.

**Cluster.** Every write makes a version; `pWatch` and `kWatch` hold those the informers
have not delivered. Objects carry resource versions, and a write that carries one fails
against another (`Current`). Users and others act as often as the run's budget allows.

**ChildSet.** The same way of cutting a request: `Begin`, then `Compose` (list the
children once, call `DesiredChildren`, make a reconciler for each identifier desired or
found), `AddFinalizer` if it is needed, a turn for each identifier in order
(`Leave`, `Skip`, `Delete`, `Create`, `Update`), `ClearFinalizer` for a terminating parent,
and `WriteStatus`. `todo` holds the identifiers still to come, `found` the partial results
in the stash. An error of one child (`Stop`) ends the turns, and `Reflect` is called all
the same. Lists are live and watches deliver at once: what lagging caches do to one child
is the matter of `ChildReconciler`, here it is what children do to each other.
`setup.skip` is `SkipOwnerReference` as written, which is what the listing and the watch
go by; `SkipOwner` is what the children's own reconcilers, made later, go by.

**Flow.** `Reconcile` calls `Reconcile`. Each call in progress is a frame of `stack`; a
step runs the code of the innermost call up to the next call or return, whose value is in
`ret`. There is one operator per reconciler type (`Sequence`, `IfThen`, `While`, the parts
of `TryCatch`, `Override`, `Cast`/`CastBack`, `Config`, `Sync`). What the authors' functions
return is a choice among the outcomes the tree lists. An error is the set of causes
`errors.Is` would find in it. `Cast` reads the fields its type has (`Seen`), and `CastBack`
applies what changed of them to the resource as a patch (`Applied`). `TypeAssumption` says
of a tree what the Go compiler makes sure of: authors' functions touch the fields of the
type they are written for, and only a cast changes the type. `SetupSucceeds` is the
walk of `SetupWithManager` and the `validate` methods, including what it does not reach.
`story` is history: what functions returned and raised, and what the resource would be had
no change been lost.

**Requests.** `conf` says which host runs which tree, over which kind of type. `phase` is
the place in the host: `Setup`, `Begin` (the read), `Step` (one of `Flow`), `EndTree`, then
either `WriteStatus`, or `Desire` (the finding of what to do in `Manage`), `SendDelete`, or
`Send` with `Write`. A create or update passes through the webhook, itself a tree of
reconcilers (`phase = "hook"`), before it is stored; other clients' writes do too (`Admission`).
A response carries a patch only if the tree changed more than the defaults (`Mutated`). `memo` is the mutation cache: what was
desired and what admission made of it (`Capture`), applied to what is desired now
(`Patched`). `Forget` ends the request and answers the queue. Resource versions are
abstracted to "nothing was written since I read it" (`read.current`).

**Tracker.** A lease is the time left to it; `None` and `Lapsed` tell "not in the map"
from "in the map, expired", the difference pruning makes. Each operation holds the mutex
and is one step.

**TrackedReads.** Cache first, event later: `ObjectChanges` updates the informer's cache
and queues what the handler will be called with, the old and the new object. `LookUp` and
`Enqueue` are two steps, as the tracker's lock is released in between. A watcher's request
is `Begin`, `Track`, `Read`, in the order `After` gives.

**ConditionSet.** A request initializes the conditions, makes calls, and ends in the write
decision. The calls of the first request are arbitrary and remembered in `script`; as
long as the world does not change, later requests repeat them. A request may fail half
way and its write may be refused. Of a transition time only matters whether it is the
current request's.

**Harness.** The reconciler under test is arbitrary: it makes any calls, through the
recording client, the event recorder and the tracker, and returns anything. What each
config took down is in `log`, with names generated as the fake client does, and calls that
induced failures stopped, or did not, as `react` decides. The `Judge*` operators are the
comparisons of the three kinds of test case; `Asserted` is the log as they get to see it,
with untouched copies in the place of the additional configs. `made` and `right` are
history: the calls the reconciler really made, and, for each config, whether each test did
what its case asks for. They know nothing of copies, or of what is compared.

Definitions named `X_Something` next to a definition `X` are variants of it with a
plausible bug. No specification uses them; they show that a property can fail.

## The runs

| run | properties | shows |
|---|---|---|
| `child_finalizer` | `TypeOK` `NoOrphan` `Honest` `ObservedWanted` `AtMostOne` `ImplementsContract` | live lists, generated names, slow deletes, an edit, a deletion, drift, a failed call, a crash: the finalizer guards the child, there is only one, and the status is honest |
| `child_contention` | `CreateUnderFinalizer` `ForeignKept` `NoFalseConflict` `NoLostWakeup` `Converges` `Terminates` | lagging caches, slow deletes, foreign objects under the child's name: the optimistic lock of `ensureFinalizer` and the update's resource version make old reads safe, a create that ran ahead of the informer is not taken for a conflict, and under fairness all of it converges |
| `child_restarts` | `NoLostWakeup` `SettlesOnOne` | owned children, lagging lists, failed calls, a restart: no work is left when all is quiet, and duplicates made behind the cache are gone or going |
| `childset` | `TypeOK` `Honest` `QuietIsWhole` `ImplementsContract` `Converges` `Terminates` | two children of one parent: a refused, failing or drifting child hides nothing of the other, one finalizer guards both, the status never mixes generations, everything settles, and a terminating parent goes |
| `requests` | `RequestsTypeOK` `RequeueKept` `FailuresSurface` `ChangesKept` `NeverPanics` `FinallyCalled` `OthersKept` `RequestEnds` `SkipIsHarmless` `IdleOnce` `DesiredReached` | nineteen trees under the three hosts: results, errors and changes get through every combinator, validation reaches what it must, no write undoes another client's, the mutation cache neither hides nor repeats an update, and an aggregate becomes what is desired |
| `tracker` | `TypeOK` `ImplementsContract` | two watchers, valid and invalid references, two labels, leases of one tick: the two maps behave like the contract |
| `tracked_reads` | `ReadsTypeOK` `NoStaleView` `Renewed` | one watcher reading by name, labels, or everything everywhere; a resync up to one period late, restarts: nothing goes unnoticed, no lease ends too early |
| `conditions` | `TypeOK` `HappyTracks` `StatusSettles` | two dependents and one other condition, three calls a request, failed requests and writes, an upgrade that added dependents |
| `harness` | `DefaultIsRight` | one test for each sort of expectation, and suites of two with skipped and focused tests, against every reconciler: where a verdict is possible at all (`Judged`), a suite is green exactly if the reconcilers returned, and did through the default config, what its cases expect |
| `child_untracked`, `child_orphan`, `harness_configs` | `ObservedWanted`, `NoOrphan`, `GreenIsRight`: one each, violated | the next section |

### Bounds

*`child_*`.* One parent; one to three child names; one or two desired values (`v1`, `v2`,
one of which may be invalid for the API server). `Budgets` is the set of allowances a
behaviour may start with, and each disturbance happens at most as often as that says. One
disturbance of a kind is what it takes to hit a worker at any of its calls, because TLC
tries every moment; `Contention` takes all the combinations of three that meet in one
piece of code, and two edits, which are needed to take a finalizer away and want it back.
Generated names are never reused: three are enough for a child, its successor and a lost
create. When they run out the model stops at the create, where no property about a quiet
controller speaks.

*`childset`.* Two children are what it takes for one to be before and one behind another;
specs that desire both, the first refused by the API server, only the first, or none. The
setups are the two that work, a finalizer with `SkipOwnerReference`, or neither. Each
budget allows three disturbances.

*`requests`.* An object has two fields, so that one can be changed by the request and the
other by somebody else, and one of them may be missing from a duck type; three values a
field, one of them "unset". The trees of `MCRequests` nest every combinator in another and give
every function all the outcomes that matter (with and without a requeue time, errors,
`ErrHaltSubReconcilers`); loops run up to twice. Some trees and
configurations are there to be refused by the setup: an `If` that was not given, both forms
of `Sync`, an aggregate `Request` without a name. Of each disturbance one, but two changes of
what is desired: the second is what meets a memory of the first.

*`harness`.* Two calls a test: an order has two elements, and a generated name of the
second differs from that of the first. Suites have one or two tests, some of them
expecting something of an additional config or of a status update of an unstructured
object, and reconcilers use both: `DefaultIsRight` leaves such suites out, not such
reconcilers. `harness_configs` has no unstructured objects (`Untyped`), so that nothing
but the additional configs can make a verdict wrong.

*Others.* The tracker's leases last one tick, so that they lapse between any two steps;
two labels let a selector match one object and not another.

`NoLostWakeup` names what a quiet controller may wait for: a foreign object in the way
(nobody retries a conflict), another finalizer, a terminating child, a spec the API
server refuses. It is checked for owned children with failures and crashes, and for
tracked ones without: a tracked child whose create lost its answer, or that was tracked
before a restart, is noticed only by the next resync, which the models leave out.
`QuietIsWhole` and `Converges` of `ChildSet` leave out children that changed between being
listed and being tracked (`unseen`) for the same reason.

`StatusSettles` says that the third request in an unchanged world writes nothing. The
second may: `MarkUnknown B; MarkTrue A` starting from two false dependents gives a false
happy condition first and an unknown one after.

`RequeueKept`, `FailuresSurface` and `ChangesKept` except what the next sections describe: a
`Catch` that replaces an outcome, `ErrHaltSubReconcilers` on the way, and a `CastResource`
whose own patch fails. `SkipIsHarmless` and `IdleOnce` speak of aggregates with a
`DesiredResource`, and `IdleOnce` of types without generations.

`CHECK_DEADLOCK FALSE` stands where the system may come to rest with all disturbances
spent, or a suite of tests may end: in all configurations except those of `tracker`,
`tracked_reads` and `conditions`.

## Where code and documentation disagree

Each is a run that violates one property.

* `child_untracked`: `init()` (`child.go:182`) copies `SkipOwnerReference` into the
  resource manager's `TrackDesired` before `validate()` lets a `Finalizer` imply it. With
  only `Finalizer` set the child gets no owner reference and is not tracked either, so its
  changes go unnoticed. The other runs with a finalizer set both fields.
* `child_orphan`: `Manage` clears the finalizer when the list shows no child
  (`resourcemanager.go:123`). Listed from an informer that has not seen the create, the
  parent goes away and the child stays for good. `NoOrphan` therefore holds, and is
  proved, for live lists.
* `harness_configs`: `AdditionalConfigs` holds values, of which the reconciler is given
  copies (`testing/reconciler.go:192-197`); those asserted are others, which have observed
  nothing (`219-221`; the same in `subreconciler.go`). "AdditionalConfigs holds ExceptConfigs
  that are available to the test case and will have their expectations checked again the
  observed config interactions" (`82-84`), but a suite is green whatever is done through one
  that expects nothing, and red if one expects anything. `DefaultIsRight` is what remains
  true.

## What else the models show

No run is kept for these; the properties leave them out and say so.

*Children.*

* A child that waits to be deleted, or that `OnlyReconcileChildStatus` leaves alone, is
  not tracked after a restart (`resourcemanager.go:131`, `child.go:339`): nothing wakes
  the parent when it changes or goes away.
* With generated names and a lagging list a second child is created (`child.go:319`). For
  owned children it is deleted again (`SettlesOnOne`); with tracking in the place of
  ownership a create whose answer was lost can leave two until the next resync.
* If the lookup behind a refused create fails, the error is dropped and a conflict
  reported. `NoFalseConflict` excepts that case.
* That lookup uses the parent's namespace (`child.go:280`). With the child in another, it
  finds nothing, and the reconciler reports a conflict with its own child, which
  `child.go:276-277` means to avoid; the request does not fail, so that only a later change
  of parent or child corrects it. With `SameNamespace = FALSE` and cached lists TLC finds
  `NoFalseConflict` violated; the runs, and `ConflictsAreReal`, have children in their
  parent's namespace.
* A conflict that is reported is not retried: nothing queues the parent when the foreign
  object goes away. `NoLostWakeup`, `Converges` and `QuietIsWhole` except it.

*Sets of children.*

* The lists and the tracking of a `ChildSetReconciler` are set up before `validate()` lets
  a `Finalizer` imply `SkipOwnerReference` (`childset.go:181`). With only a `Finalizer` the
  children, which then have no owner reference, are never found again: creates conflict
  forever, and on termination the finalizer goes while they stay. The setups checked, and
  the assumption `FinalizerSkips` of the proof, have both fields or neither.
* `DesiredChildren` is called for terminating parents too, and its error ends the request:
  the parent keeps its finalizer. `Terminates` excepts specs for which it always fails.
* `reflectStatus` runs after errors as well (`childset.go:297`), even that of a failed
  `AddFinalizer`, with the results so far. `Honest` holds, as a child without a result
  shows nothing; but a status whose generation is already observed may lose, for a while,
  what it said of children that have not changed.
* `WithFinalizer` clears the finalizer when the deletes have been accepted, not when the
  children are gone.

*Flow.*

* When a sub reconciler of a `Sequence` returns `ErrHaltSubReconcilers`, the requeue times
  aggregated before it are dropped (`sequence.go:50`), while the halt itself counts as
  success. `sequence_test.go:58-77` (one minute, then a halt with two) expects one minute;
  the code returns two, and the harness does not compare results when there is an error.
* `While` compares the iterations with `MaxIterations` before it asks its `Condition`
  (`flow.go:250`): a loop that is done after exactly that many still returns
  `ErrMaxIterations`.
* "The Finally reconciler ... cannot prevent an error from being returned"
  (`flow.go:275-278`). If it returns `ErrHaltSubReconcilers` that preempts the error, and
  the request succeeds.
* A halt below a `CastResource` whose patch then fails gives an error that `errors.Is`
  both: the request counts as a success, and the change is lost (`cast.go`).
* `OverrideSetup` hides what is below it from validation; a `SyncReconciler` without a
  `Setup` function is validated nowhere. `NeverPanics` calls both the author's part.

*Aggregates, webhooks, duck types.*

* A mutation patch remembered for an object is applied to whatever is desired later
  (`resourcemanager.go:184`). If the webhook sets a field only when it is unset, a later
  wish for another value of that very field is overwritten by the memory until it expires
  or the process restarts. `MCRequests` lets the webhook derive a field that the author
  leaves alone; for all such webhooks `SkipIsHarmless` and `IdleOnce` hold, and are proved. For types with generations
  and a freshly made desired object the patch never applies, and updates without effect
  are repeated.
* The resource an aggregate's tree changes in place is also taken for its actual state:
  without a `DesiredResource` of the author's nothing is ever written (`aggregate.go:258`).
  Nothing queues the first request of an aggregate that does not exist, except what the
  author watches.
* `AggregateReconciler` accepts duck types (`aggregate.go:158-169`), whose client refuses
  creates and updates (`duck/client.go:117-131`): nothing can be created or updated.
  `DesiredReached` excepts them.
* A webhook's tree is never validated; its `ErrHaltSubReconcilers` refuses the object; the
  defaults of the type reach the API server only along with a change of the tree's.

*Conditions.* The happy condition may be false with no dependent false: `MarkFalse A,
MarkFalse B, MarkUnknown B, MarkTrue A`. And `MarkFalse` of a type that is no dependent
leaves the happy condition alone, though its comment says otherwise
(`conditionset.go:342`).

*The test harness.*

* Of a status update of an unstructured object nothing at all is compared, only that there
  was one: `statusSubresourceOnly` ignores every field whose path does not begin with
  `Status` (`config.go:424-428`), and such an object has none. `DefaultIsRight` leaves out
  suites that expect one.
* Of other status updates only the contents are compared, not the object (`config.go:283-290`);
  of calls to sub resources only status updates and patches are recorded; a suite with
  focused tests runs the first of them and fails; a failing `Prepare` of a webhook test
  does not end it.

## Fairness

`child_contention`, `childset` and `requests` run under fairness. `WF(Worker)`:
controller-runtime's workers take keys off the queue as long as there are any, and a call
to the API server returns. `WF(DeliverParent)`, `WF(DeliverKids)`: informers deliver what
they have watched. `WF(ReleaseHold)`, `WF(Release)`, `WF(Vanish)`, `WF(FinishDelete)`,
`WF(CollectGarbage)`: whoever owns another finalizer will remove it, objects without any
go, and the garbage collector runs. Users, failures and crashes owe nothing, and are
bounded by their budget. Weak fairness is enough: nothing but its own execution disables
any of these for good.

## The proofs

Checked by TLAPS without size limits on names, children, values, trees, outcomes,
watchers, references, leases, condition types and budgets. The assumptions are the named
`ASSUME`s of the modules, which say that sentinels differ from real values, which
constants are numbers or Booleans, and that trees are trees of the right types. Where a
theorem needs more, its statement names it and the table says it. TLC evaluates `AllPolite`,
`AllLook` and `CastsNarrow` for the instances it checks. For what becomes of
children in setups that lack it, see the two sections on what goes wrong above.

| theorem | says |
|---|---|
| `ChildReconcilerProofs!TypeCorrect` | `TypeOK` |
| `CreatesUnderFinalizer` | `CreateUnderFinalizer`, for all caches, fresh or stale |
| `NoOrphans`, `OneChild` | `NoOrphan`, `AtMostOne`, for live lists |
| `ContractImplemented` | `ChildReconciler` implements `FinalizerContract`, for live lists |
| `HonestStatus` | `Honest` |
| `ChildWakeupProofs!VersionsIdentify` | what caches and worker hold of the children is a past version of what is stored, and a version that is still current is the same object (`KidInv`) |
| `ForeignIsKept` | `ForeignKept`, for all caches |
| `ConflictsAreReal` | `NoFalseConflict`, if children are in their parent's namespace (`SameNamespace`) |
| `OwnersAreWoken` | `NoLostWakeup`, if children have owner references (`~SkipOwner`) |
| `SettlesOnOneChild` | `SettlesOnOne`, unless children have no owner references, generated names and lagging lists all at once |
| `ChildrenAreObserved` | `ObservedWanted`, with owner references, or with `SkipOwnerReference` written out and live lists |
| `ChildSetProofs!ChildSetTypeCorrect` | `TypeOK` |
| `ChildSetHonest` | `Honest`, for any number of children, whichever of them fail |
| `ChildSetContract` | `ChildSet` implements `FinalizerContract`, if a finalizer comes with `SkipOwnerReference` (`FinalizerSkips`) |
| `EveryChildSettles` | `QuietIsWhole`, under the same condition |
| `RequestsProofs!RequestsTypeCorrect` | `RequestsTypeOK`, for every tree and configuration |
| `OthersAreKept` | `OthersKept`: a status update or patch changes only what the request changed |
| `FinallyIsCalled` | `FinallyCalled`, in every tree |
| `OutcomeInvariant` | results and errors are always in somebody's hands (`OutcomeInv`) |
| `RequeueIsKept` | `RequeueKept`, in every tree and host |
| `FailuresDoSurface` | `FailuresSurface`, in every tree and host |
| `ChangesAreKept` | `ChangesKept`, if casts lead to types without fields that the resource's type lacks (`CastsNarrow`: a "common portion", `cast.go:29`) |
| `SetupPreventsPanics` | `NeverPanics`, for whatever `SetupWithManager` accepts, if the author completed what the setup does not see |
| `IdleUpdatesHappenOnce` | `IdleOnce`, for webhooks that keep to fields of their own (`AllPolite`) |
| `SkippingIsHarmless` | `SkipIsHarmless`, for such webhooks, trees that only look at the resource (`AllLook`), and `CastsNarrow` |
| `AggregateAlgebra` | `AggregateResults` is commutative and associative with a unit: the order in which combinators put results together does not matter |
| `TrackerProofs!TrackerImplementsContract` | both maps with their pruning implement the flat contract |
| `TrackedReadsProofs!LeasesAreRenewed` | `Renewed` for every sync period and jitter up to one period |
| `NoChangeUnnoticed` | `NoStaleView`, for all watchers, references and objects |
| `ConditionSetProofs!HappyFollows` | `HappyTracks` for all dependents, reasons and scripts |
| `WritesEnd` | `StatusSettles`, for the same and scripts of any length |
| `HarnessProofs!SuitesTellTheTruth` | `DefaultIsRight`: the verdict on what is returned, and done through the default config, is right for every reconciler and any number of calls, in every suite that expects nothing of additional configs and no status update of an unstructured object |

*The finalizer of one child.* `NoOrphan` is not inductive. What carries it is `GuardInv`:

* `Behind`: informers are behind the stored parent, never ahead, and deliver in order.
* `WorkerBehind`: so is the worker; until it patches the parent, what it holds is no newer
  than the cache.
* `StillGuarded`: a version in the cache, or on its way there, that shows the finalizer
  and wants a child implies that the stored parent carries the finalizer *now*. The step
  that could break it is the worker's own removal. That patch is accepted only against the
  current version, which then is the one the worker read and wants no child; the caches are
  no older than what the worker read (`WorkerBehind`) and no newer than the stored parent
  (`Behind`), so they hold that same version.
* `Stages`: what each `pc` implies of what the worker wants and of its finalizer.

It rests on `Cluster` letting nobody but the reconciler touch its finalizer, as Kubernetes
convention has it. For live lists `LiveInv` adds that where the worker believes there is
no child there is none, since only this worker creates any; `NoOrphan`, `AtMostOne` and the
step simulation follow. `HonestStatus` needs `HonestInv`: every version, and the resource
in the worker's hands, is honest about its own generation.

*The versions of children.* `KidInv` has two halves. `KidsBehind`: informers are behind
the stored children and deliver in order, and no name has two objects of the same resource
version. `ListBehind`: what the worker listed is no newer than what is stored, and tells
which child is its own. So an update or delete that the API server accepts meets the object
that was listed (`ForeignKept`). If a create is refused and the live lookup finds no child of
ours, a foreign object really is there (`NoFalseConflict`).

*Wakeups of an owner.* `NoLostWakeup` speaks of a system at rest, and `WakeInv` of all that
leads there. `Latest`: the stored version has been delivered or is on its way. `Awake`: unless
the key is queued, or a version is on its way whose delivery queues it (`Pending`), the
parent in the worker's hands is the one in the cache (`InHand`), the list it acts on shows the
same owned children as the cache (`Accurate`), and with the request over there is nothing
left to do (`Rested`). A step of anyone else that makes one of these untrue makes a version
that will queue the owner. Failed calls queue it too, which covers those that were done
although their answer was lost. `SettlesOnOne` follows: with owner references because two
children are work left; with live lists or fixed names because there never are two.

*Tracked children.* Without owner references the watch goes by what was tracked.
`TrackedInv` says that all of ours are tracked when a request ends well on a wanted child
(`AllTracked`, `Observed`): with live lists each one listed is tracked on the way, and one
that came into being without being tracked failed its request.

*The finalizer of a set.* `GuardInv` of `ChildSetProofs`: the finalizer the worker sees is
on the stored parent; during the turns of a parent that stays, the worker sees it; and
during those of a terminating one, every child of ours that is not being deleted is still
in `todo` and known, so its turn will delete it. `FinalizerSkips` is what makes the list
find all of ours. `LiveStep` says that only a worker whose parent stays adds children, so
the last turn leaves none. An error ends the turns and never reaches the clearing.

*The status of a set.* `HonestInv`: the stored parent and the worker's copy are honest,
the copy is behind the stored parent, and `found` shows only what the copy's spec desires.
The step that needs care is `AddFinalizer`, which takes the stored generation over: the
patch is accepted against the current version only, so the spec is that of the generation.

*Every child of a set.* `QuietIsWhole` needs `WholeInv`: as long as the key is not queued
again, the request works on the stored parent; the children still in `todo` are as they
were listed; those that had their turn are settled, stored and reported as the spec wants;
and at rest all are, with the status written. A turn settles its child or fails, which
queues the key. A change by somebody else (`OthersKids`) wakes the parent, puts the child
among the `unseen`, or concerns no child of ours. The turns go by the smallest identifier,
so every identifier gets one (`LeastFirst`).

*Composition.* The invariant of `RequestsProofs` is `Inv`: the types of the calls in
progress and of the hosts; no calls are in progress outside a run (`StackIdle`); as long as
nothing was written, what was read is what is stored (`ReadCurrent`, from which
`OthersAreKept` follows for updates; for patches it follows from `Applied`); and what
is sent is what was desired (`GoalSent`). `FinallyIsCalled` follows the frames of the
stack: a step changes the innermost one or two, and that of a `TryCatch` with a `Finally`
only goes from the phase of its `Finally`.

*Outcomes.* The properties compare `story`, the record of what the sub reconcilers did, with
the answer to the work queue. In between, results, errors and changes are held by the calls in
progress, whose number has no bound; so the invariants say who holds them. `FlowInv` is
`CallsOK` (each frame is at a place its reconciler has), `ErrorsKnown` and `ErrorsKept`
(nobody returns an error that was not raised; one that was raised, and not suppressed, is
in `ret` or in some frame), and `WishesKept` (the shortest requeue time asked for is the
shortest held). A step passes them from one frame to the next; `AnswerKept` carries them
through the phases of the host. For changes, `ObjectInv`: each call is about the type that
the one around it hands down (`Chain`), the objects have their types, those that casts saved included
(`ObjectsTyped`), and every field has the value it would have had nothing been lost, in the
copy at hand or, where that lacks the field, in what a cast saved (`FieldsKept`).
`CastsNarrow` rules out fields that only the copy has. For panics, `Steady`: the calls in
progress run nodes that the setup has walked, or that the author vouches for
(`AuthorsPart`).

*The mutation cache.* The theorems are of webhooks that keep to fields of their own
(`OwnFields`): they change no other field of what is desired, and what they set depends on the
others only. `MCRequests` has TLC evaluate that this and the other two hypotheses hold of its
webhooks and trees. `CacheInv`: whatever is stored was admitted (`StoredAdmitted`); an update
differs from what is desired in the webhook's fields only (`UpdateSent`), although the patch
that is remembered was applied to it; and so does what is remembered (`MemoTrue`). `HookRuns`
takes that through the run of the webhook. If what is stored agrees with what is desired in
all other fields, it is therefore the one thing that the webhook makes of what is desired,
which is `SkipIsHarmless`; and a remembered update, patched, is what is stored, which is
`IdleOnce`. `LookInv` adds that the tree leaves the resource as it was read, through all its
casts. An aggregate without a `DesiredResource` sends no updates (`NoUpdates`).

*The tracker.* The refinement mapping turns a lease into an age; the invariant is
`TypeOK`. The step that needs care is the lookup: pruning changes the maps but no age.

*Leases.* `LongEnough`: what is left of a resting watcher's lease is at least the lease
less the time since its last resync. A lease of twice the period covers a resync up to one
period late, and `Renewed` follows.

*Stale views.* `NoticeInv`: whoever is not queued has tracked what it wants now
(`RefCurrent`), and has seen only what that covers (`SeenCovered`); if it has not seen what
the cache shows now, the event that says so is still to be handled (`Pending`). That its
lease is live when that happens is `RenewInv`, the invariant behind `Renewed`.

*Conditions.* `HappyTracks` speaks of a request under way. Between requests a stored
status may lack dependents that a newer version of the controller added; `Vouched` is what
still holds of it, and `InitializeConditions` turns `Vouched` into `HappyTracks`.

*The status settles.* After a list of calls, each dependent is what the last call that
touched it made of it, or what was stored if none did (`Shows`); and the happy condition
is what the last call that sums up (`Sums`, `LastSum`) saw. A script is arbitrarily long, but
its calls are steps of the specification, so no induction over it is needed: `Replayed` says
during a request how far the repetition has got, `Repeatable` what is left of it between
requests. The first request settles the dependents, and the second, which starts from those, the
happy condition; the third finds both as it would make them.

*Test suites.* `DefaultIsRight` compares the verdict of the loops that walk recorded and
expected calls with the truth about them, in suites that expect nothing the verdict must get
wrong (`Judged`); what the reconciler does is not restricted. `HarnessInv` says that each stream of the log is
what the reconciler's calls yield for it, in their order (`Recorded`, `Yields`). An
enumeration of the same elements in the same order is unique (`EnumeratesOnce`), so a
comparison by position decides whether what was done is what was asked for (`PassesIsRight`).

Model-checked only:

* `NoLostWakeup` for tracked children, where it depends on the bounds of the run (no
  lost answers, no restarts).
* Liveness under fairness: `Converges`, `Terminates`, `RequestEnds`, `DesiredReached`.

## What is not modelled

* Periodic resyncs, except in `TrackedReads`: they would hide lost wakeups until the next
  one. `ListOptions` and the owner index, `Sanitize`, `HarmonizeImmutableFields`, events
  and logs. `MergeBeforeUpdate` and `ReflectChildStatusOnParent` are taken to copy the
  value. `WithFinalizer` around an author's own reconciler, which is the same code as
  around a set.
* Informers deliver every version, in order; a relist that skips versions is a
  special case of several deliveries at once, except that its notification may show the
  first and last state only. `ChildSet` and `Requests` read live.
* In `Flow`: the default of `MaxIterations` (it is given), errors of `WithConfig`'s function
  at setup.
* `AggregateReconciler` answers requests for other objects with nothing. In `Requests`
  conditions and generations are left out (`ConditionSet`, `ChildReconciler`), the cache's
  key is the stored object, and an explicit `resp.Allowed = false` is the error it amounts to
  for the API server. Webhooks for deletions, and responses that a tree fills in itself.
* Of the duck client: the conversion between typed and unstructured objects, where it keeps
  what a type knows.
* `TrackAndGet` and `TrackAndList` drop the tracker's error: `TrackedReads` reads valid
  references only. `Tracker` does model refused ones.
* Reconcilers that call `SetCondition` directly, mark the happy type themselves, or have
  no dependents at all; the terminating case of the write decision is in `ChildReconciler`.
* Of the test harness: the fake API server behind the recording client, which only answers
  a reconciler that may do anything anyway; `CalledAtMostTimes`, `Verify` functions, `Now`
  and `Metadata`.
* The stash (except that it does not outlive a request), `cmp.go`, `alias.go`: sequential
  helpers; `internal/` and the generated code: fixtures of the repository's own tests.

## The plan

Done, in this order: `Cluster`, `FinalizerContract`, `ChildReconciler` and proofs;
`TrackerContract`, `Tracker` and proofs; `TrackedReads` and proofs; `ConditionSet` and
proofs; `Flow`, `Requests` and proofs; `ChildSet` and proofs; `Harness`; the proofs of wakeups,
outcomes, views, settled sets, settled conditions, test suites and the mutation cache. What
would come next:

1. `NoLostWakeup` for tracked children: under which failures it holds with
   `SkipOwnerReference` and live lists, and a proof of that.
2. `ChildSet` with lists that lag, composing `Cluster`'s informers with the turns.
3. Deletions and filled-in responses of webhooks; conversions of the duck client.
4. `CalledAtMostTimes` and the fake API server of the test harness.
