# A TLA+ model of kubeshark-operator

This directory models the controller of this repository, as it is in
`internal/controller`, together with the parts of Kubernetes it relies on. TLC
checks small instances; TLAPS proves the safety properties and the refinement for
all instances.

## 1. The system

### Components

| Component | Source | State it keeps | Operations |
|---|---|---|---|
| Kubeshark API type | `api/v1beta1/kubeshark_types.go`, CRD | the stored resource: spec, finalizers, deletion timestamp, generation, Ready condition, observed generation | created, edited, deleted by users |
| Reconcile loop | `internal/controller/kubeshark_controller.go` | workqueue; local variables of the pass under way | `Reconcile`, event handlers of `SetupWithManager` |
| Steps hub, rbac, worker, frontend, secret | `hub.go`, `rbac.go`, `worker.go`, `frontend.go`, `secret.go` | none; twelve managed objects in the cluster | `CreateOrUpdate` of each, in a fixed order |
| Finalizer and deletion | `finalizer.go` | the finalizer on the resource | delete ClusterRole and ClusterRoleBinding, remove the finalizer |
| Status | `status.go` | Ready condition, observed generation | merge patch of the status subresource |
| Naming helpers | `helpers.go` | none | names, labels, defaults |
| Manager | `cmd/main.go` | the process: client cache, optional leader lease | start, exit, hand over to another replica |
| API server, garbage collector, informers | external | stored objects, the cache, watch events on their way | write with conflict detection, collect, deliver, relist, resync |
| Superseded helpers | `utils.go` | – | nothing calls them; the file declares some of `worker.go`'s functions again |
| Backups, generated code, manifests, tests | `*.go_bkp*`, `zz_generated.deepcopy.go`, `config/`, `test/` | – | – |

### How they interact

Users write the resource at the API server. Each write reaches the operator's
cache as a watch event; so does each write of a managed object whose kind
`SetupWithManager` owns, which wakes the resource that controls it. ClusterRoles
and ClusterRoleBindings are *not* among those kinds, and carry no owner
reference: they are read through the cache, but their events wake nobody, and
only the finalizer removes them. A pass reads the resource once, from the cache,
and then sends one request after another. Between any two of them users, the
garbage collector, other writers and the cache move on. Updates of the resource
and of managed objects carry the resourceVersion read; creates fail if the object
exists; deletes and the status patch carry no precondition at all. An error puts
the resource back into the queue; after success only an event (or the periodic
resync) does.

### What is hard

* *Stale reads.* Everything a pass decides, it decides from a cache that lags.
* *Interleaving.* Users edit, rename, delete and re-create in the middle of a
  pass, between the deletes of a cleanup and the Update that ends it.
* *Unknown outcomes.* A request that timed out may have taken effect.
* *Partial failure.* A pass stops after any of its requests; the report of the
  failure can fail too and its result is ignored.
* *Crashes.* Queue and progress are in memory only.
* *Hand-over.* The last request of a process that is gone may take effect in the
  middle of its successor's passes.
* *Ownership split.* Ten objects go by garbage collection, two by the finalizer.
* *Names.* Users may choose most names, change them, and share them.

### What makes each component correct

* Reconcile loop: when nothing is queued, under way or on the wire, nothing is
  left to do (`QuietMeansApplied`, and `NothingForgotten`, which says of every
  moment who will see to a resource); it gets there (`Converges`), stops there
  (`Settles`), and what it writes over and over changes nothing (`RestIsKept`).
* Finalizer: no cluster-scoped object outlives the protection of its resource
  (`NoOrphanedRBAC`, `CleanedBeforeRelease`, `GuardedLife`); deletions finish
  (`DeletionCompletes`); writing the finalizer undoes no edit (`NoLostEdit`); a
  cleanup takes nothing from the living (`LivingRBACKept`), not even one whose
  process took over from another (`SuccessionInv`, `LivingRBACOutlivesHandover`).
* Steps: nobody's object is taken over (`NotTakenOver`); nothing is left of a
  resource that is gone (`LeavesNothing`); the two unwatched kinds are repaired at
  the next resync (`RBACConverges`), and a binding that cannot be repaired is
  reported (`RefusalIsReported`).
* Status: what is reported is true of the resource it is reported on
  (`Reported` in the properties above; `ObservedOnSuccess`, `ObservedExists`,
  which the code does not keep, see section 4).

`PROJECT.json` lists the hazards one by one, each at its line.

## 2. The modules

| Module | Models |
|---|---|
| `KubesharkNames` | `helpers.go`: names as sequences of dash-separated segments, so that `+ "-" +` is concatenation and collisions of names are visible |
| `KubesharkObjects` | which objects a pass asks for, in which order, under which identity, with which owner and content; what `CreateOrUpdate` overwrites and what it keeps; what schema defaulting and a typed Update do to a spec; the fields of a spec that the controller reads (`SpecFields`) |
| `ApiMachinery` | external: store, cache, watch events; `Put`, `Receive`, `Relist` |
| `KubesharkReconciler` | workqueue and pass: `Reconcile`, `reconcileDelete`, `setReadyCondition`, event handlers, crash and restart |
| `GuardedLifecycle` | abstract: what the finalizer promises, without cache, passes, events or faults |
| `KubesharkOperator` | the composition with users, other writers and the garbage collector; the properties; the inductive invariant; the refinement mapping to `GuardedLifecycle` |
| `KubesharkHandover` | `KubesharkOperator` with leader election: a process that goes in the middle of a request, and the request that takes effect, or does not, at any later time |
| `MCOperator`, `MCHandover` | small resources, specs and plans for TLC |
| `KubesharkOperatorProofs` | lemmas on types, `TypeCorrect` |
| `RBACProofs` | what a step may do to a resource and to a pass: `ProtectionHolds`, `CleanupBeforeRelease` |
| `StoreProofs` | what a step may do to a managed object and to a spec: `CacheCatchesUp`, `NobodyIsRobbed`, `EditsAreKept`; what a resource reports: `ReportsAreOwn`, `ReportsMoveForward` |
| `LifeProofs` | why a cleanup is due: `LifeHolds`, `LivingRBACIsKept` |
| `LifecycleProofs` | what names a cluster-scoped object: `NoRBACIsOrphaned`; the refinement `ImplementsGuardedLife`; when default names collide, when not, and what follows: `DefaultNamesAreSafe`, `DefaultNamesShareNothing`, `NobodyIsInTheWay`; what takes each object in the end: `NothingEscapes` |
| `GuardedLifecycleProofs` | `RightsProtected`, of the abstract life cycle alone |
| `WakeProofs` | `NobodyIsForgotten`, `QuietIsApplied`; the kinds that are not watched: `QuietIsAppliedToRBAC`; why the operator stops: `RestHolds`, `RestComesToQuiet`, `QuietIsRest` |
| `HandoverProofs` | for `KubesharkHandover`: quiescence, edits, ownership, the finalizer and the refinement |

`KubesharkObjects` extends `KubesharkNames`, `KubesharkReconciler` extends
`KubesharkObjects` and `ApiMachinery`, `KubesharkOperator` extends
`KubesharkReconciler` and instantiates `GuardedLifecycle`, `KubesharkHandover`
extends `KubesharkOperator`. The proof modules extend each other in the order
`KubesharkOperatorProofs`, `RBACProofs`, `StoreProofs`, `LifeProofs`, then `WakeProofs` and
`LifecycleProofs`, then `HandoverProofs`.

### State

* `server`, `cache`, `watch`: for each id (a resource `[namespace, name]` or the
  key of a managed object) the stored version, the cached version and the
  versions in between that are still on their way. Events of one object arrive in
  order, events of different objects in any order. A copy carries the stored
  resourceVersion exactly if it was read while nothing was on its way and
  nothing was stored since (`UpToDate`, `fresh`).
* `queue`: the workqueue as a set; it removes duplicates, and its one worker
  never runs two passes of one resource at a time.
* `pass`: the local state of `Reconcile`: where it is (`guard`, `apply`,
  `cleanup`, `release`, `ready`, `fail`), the copy of the resource it read, the
  index of the next object, the error to report.
* `spent`: how much of each bound a run has used; it is no part of the program,
  except that `spent.uid` also provides fresh uids.
* `late` (`KubesharkHandover`): the one request of a process that is gone: a write
  with what it expects to replace, a delete, or a status patch with the copy it
  was computed against.

### Actions and the code

| Action | Code |
|---|---|
| `StartPass`, `Dispatch` | `Reconcile` up to its first request: Get, not found, deletion, finalizer missing |
| `Guard` | `AddFinalizer` and `Update`; the pass ends, the event of its own write brings the next one |
| `Apply` | one `CreateOrUpdate` of the loop over the steps: nothing to write, written, or refused (exists, controlled by another, conflict, immutable `roleRef`) |
| `Cleanup` | one `Delete` of `reconcileDelete`; not found counts as deleted |
| `Release` | `RemoveFinalizer` and `Update` |
| `Ready`, `Report` | `setReadyCondition` after the last step, or after an error |
| `GuardFault` … `ReportFault` | the same request fails, having taken effect or not |
| `ReceiveEvent` | an informer event and the handlers of `For` and `Owns` |
| `Restart` | the process ends at any point; a new one lists and enqueues everything |
| `Resync` | the cache's periodic resync (`cmd/main.go` leaves its period at the default) |
| `CreateCR`, `EditSpec`, `DeleteCR` | users, with background or foreground deletion |
| `Drift` | someone else touches, overwrites or deletes a managed object |
| `Collect`, `ReleaseHeld` | the garbage collector |
| `HandOver` | the lease changes hands while a request is under way (`InFlight`): the new process lists everything (its informers start once it leads) and has no pass |
| `Land`, `Vanish` | that request takes effect, as far as its preconditions then hold, or is refused or lost |

The content of an object keeps what depends on the resource. Commands, probes,
volumes and environment are the same for every spec, so no step can disagree
about them, and are left out.

*The round trip through the API server.* The mutate functions replace pod templates
and ports as a whole, and leave a Secret's `stringData` where the API server answers
with `data`. An object therefore says whether the API server has completed it
(`defaulted`): what a pass renders never is (`Rendered`), what is stored is, for the kinds
concerned (`DefaultedKinds`, `Completed`, both external). `CreateOrUpdate` compares what
it rendered with what it found, so that it writes these kinds in every pass; whether
such a write changes the store is decided by completing what was rendered (`Want`) and
comparing that with what is there. The one thing taken from outside is that the API
server completes equal requests alike.

## 3. The runs that pass

All runs use module `MCOperator`, `handover` uses `MCHandover`. Deadlock checking is
off: when the users stop and everything is applied, the system rightly has nothing
to do.

| Run | Instance | Shows |
|---|---|---|
| `reconcile` | one resource, two manifests that differ in what ConfigMap and Deployment show, lag 2, an edit, a drift, a fault, a restart, resync | `TypeOK`; `QuietMeansApplied`: no edit, drift, refusal, fault or restart is forgotten; `NothingForgotten`, the invariant of its proof; `RestIsKept`: once all is applied, the passes that still run, or that a resync or a restart brings, write the Deployment again and change nothing |
| `every_step` | one resource, the ten watched objects in their order, lag 1, fair | `QuietMeansApplied` for the long plan; `Settles`: the events of the operator's own writes wake it, and yet it comes to rest, because no two steps share an object (with default names: theorem `DefaultNamesShareNothing`) |
| `rbac_lifecycle` | one name, two lives, ClusterRole and ClusterRoleBinding, lag 2, two deletions, a drift, a fault, a restart | `NoOrphanedRBAC`; `ProtectionInv` and `LifeInv`, the inductive invariants of the proofs; `GuardedLife`, the refinement |
| `rbac_rename` | one resource, a manifest that renames the ClusterRole and has an empty list of rules, lag 2, two edits, a deletion, a fault | `CleanedBeforeRelease` also when the rename falls into the cleanup; `NoLostEdit`: the Updates that add and remove the finalizer write an old copy back, less its empty list, and neither undo an edit nor change what the spec asks for |
| `shared_name` | two resources that name the same ConfigMap and have ClusterRoles of their own, one of them deleted | `NotTakenOver`; `LivingRBACKept` |
| `liveness` | one name, two lives, an edit that renames the ConfigMap and empties its data, a fault | `DeletionCompletes`, `LeavesNothing`, `Converges`; `NoLostEdit`, where the Update drops the empty `hubConfigMapData`, the one change of what is asked for that it allows |
| `resync` | one name, two lives, ClusterRole and ClusterRoleBinding, an edit that renames the ClusterRole, a drift of the binding, resync | `RBACConverges`; `RefusalIsReported`: the binding whose `roleRef` cannot change keeps the resource not Ready, at its present generation |
| `handover` | one name, two lives, ConfigMap and ClusterRole, a manifest with an empty `hubConfigMapData` (which the finalizer's Update drops) applied a second time, a deletion, a hand-over with a late request | `QuietMeansApplied`; `SuccessionInv`, the inductive invariant of the hand-over: no late finalizer write reaches a resource of which the new process knows otherwise; `LivingRBACOutlivesHandover` |

*Bounds.* `MaxUid`, `MaxEdits`, `MaxDeletes`, `MaxDrifts`, `MaxFaults` and
`MaxRestarts` bound what the environment does; `MaxLag` bounds the events of one
object that are on their way. One fault, drift or edit can fall into any request
of any pass, so one of each already meets every other in every order; two lives
of one name are needed for a pass, an event or an object of the first to meet the
second; lag 2 lets the cache hold a version that is neither the oldest nor the
newest. Reaching `MaxLag` delays a writer until an event is delivered. Plans of
one or two objects are used where the interleaving is deep: steps interact only
through shared names and through the pass that stops at the first failure, and
two objects are enough for a failure before, between and after them; `every_step`
covers the rest. No bound appears in the proofs.

*Fairness.* `FairSpec` assumes that watch events are delivered, that the worker
goes on with a pass, that the garbage collector acts, and that no queued resource
waits for ever. That is strong fairness of `StartPass`, because the worker is taken over
and over by the passes of other resources. The workqueue of controller-runtime 0.23 is
a priority queue: first-in first-out within a priority, and only what the list of a start
or a resync adds gets the low one, which an event of the same resource raises; retries
are delayed, and longer each time, so that with the finitely many
resources and the finitely many changes that are assumed anyway the low priority has its
turn. `Resync` is weakly fair only in the run that
has it; the others claim convergence without it. Users, drift, faults and
restarts are never forced; they are finitely many, which is what "once the users
and the faults stop" means. `Converges` asks only for watched kinds; the ClusterRole
needs `resync`. `Settles` needs the same fairness: that every pass ends and every
event arrives is what lets the system come to rest.

## 4. The runs that find a violation

Each checks one statement of the repository that the code does not keep.

* `observed_generation`, `ObservedOnSuccess`. `kubeshark_types.go:79` calls
  `observedGeneration` "the generation of the spec last reconciled successfully";
  `status.go:27` sets it on failed passes as well. Shortest story: create, edit,
  a step fails.
* `recreated_status`, `ObservedExists`. The status patch carries neither uid nor
  resourceVersion. A pass that read generation 2 of a resource which is deleted
  and created again writes 2 into a resource of generation 1.
* `renamed_rbac`, `NoOrphanedRBAC`. `reconcileDelete` deletes the objects the
  *current* spec names; after an edit of `clusterRoleName` the earlier ClusterRole
  is never deleted, although "cluster-scoped RBAC must be deleted explicitly"
  (`finalizer.go:15`).
* `recreated_rbac`, `QuietMeansRBACApplied`. A resource is deleted and created
  again before the cache has seen its ClusterRole go. `CreateOrUpdate` finds the
  role in the cache, writes nothing, and the pass reports "All components
  reconciled"; the removal's event, when it comes, wakes nobody.

## 5. The proofs

Proved for every set of resources and specs, every plan of steps and every bound,
from the named assumptions: `PlanAssumption` (a plan lists steps of the code),
`SpecsAssumption` and `ManifestsAssumption` (specs have the fields `SpecFields` and are
closed under what defaulting and Update do to them), `IdsAssumption` and
`SentinelAssumption` (resources, objects, `Absent` and `Nobody` are told apart),
`BoundsAssumption`.

| Theorem | States | Hypotheses beyond the assumptions |
|---|---|---|
| `TypeCorrect` | `Spec => []TypeOK` | |
| `ProtectionHolds` | `Spec => []ProtectionInv` | |
| `CleanupBeforeRelease` | `Spec => CleanedBeforeRelease` | |
| `NoRBACIsOrphaned` | `Spec => [](NamedByStored /\ NoOrphanedRBAC)` | `[][~RenamesRBAC]_vars` |
| `CacheCatchesUp` | `Spec => []CacheFollows` | |
| `NobodyIsRobbed` | `Spec => NotTakenOver` | |
| `EditsAreKept` | `Spec => NoLostEdit` | |
| `LifeHolds` | `Spec => []LifeInv` | |
| `LivingRBACIsKept` | `Spec => LivingRBACKept` | `RBACKeysApart` |
| `ImplementsGuardedLife` | `Spec => GuardedLife` | `RBACKeysApart`, `[][~RenamesRBAC]_vars` |
| `RightsProtected` | of `GuardedLifecycle`: `Spec => []RightsAreProtected` | |
| `DefaultNamesKeepApart` | `DefaultNames => RBACKeysApart /\ FixedRBACNames` | |
| `DefaultNamesAreSafe` | `Spec => [](NamedByStored /\ NoOrphanedRBAC) /\ GuardedLife` | `DefaultNames` |
| `DefaultNamesCollide` | two resources with the same ClusterRole and binding | |
| `NothingEscapes` | every managed object that exists is named by the stored spec of a guarded resource, or controlled by one that names it for a namespaced step | `[][~RenamesRBAC]_vars` |
| `NobodyIsForgotten` | `Spec => []NothingForgotten` | |
| `QuietIsApplied` | `Spec => []QuietMeansApplied` | |
| `QuietIsAppliedToRBAC` | `Spec => []QuietMeansRBACApplied` | `RBACKeysApart`, `OnlyOperatorsWriteRBAC`, `[][~StaleSkip]_vars` |
| `RestHolds` | `Spec => RestIsKept` | |
| `RestComesToQuiet` | at rest, `WorkLeft` is a natural number, 0 just when all is quiet, and every step of a pass makes it smaller | finitely many resources |
| `QuietIsRest` | `Spec => [](Quiet => AtRest)` | `RBACKeysApart`, `OnlyOperatorsWriteRBAC`, `[][~StaleSkip]_vars` |
| `ReportsAreOwn` | `Spec => []ObservedExists` | `[][~ForeignPatch]_vars` |
| `ReportsMoveForward` | no generation that a resource reports goes back while it lives | `[][~ForeignPatch]_vars` |
| `DefaultNamesShareNothing` | every step of every resource has an object of its own | `AllDefaultNames` |
| `NobodyIsInTheWay` | no pass finds, in a cache however old, an object that another resource controls | `NamespacedKeysApart` |
| `QuietAfterHandover` | `HandoverSpec => []QuietMeansApplied` | |
| `EditsOutliveHandover` | `HandoverSpec => NoLostEdit` | |
| `SuccessionHolds` | `HandoverSpec => []SuccessionInv` | |
| `NobodyIsRobbedAtHandover` | `HandoverSpec => NotTakenOver` | |
| `LivingRBACOutlivesIt` | `HandoverSpec => LivingRBACOutlivesHandover` | `RBACKeysApart` |
| `CleanupBeforeLateRelease` | `HandoverSpec => CleanedBeforeRelease` | `RBACKeysApart`, `[][~LateGrant]_handoverVars` |
| `NoRBACIsOrphanedAtHandover` | `HandoverSpec => [](NamedByStored /\ NoOrphanedRBAC)` | `[][~LateGrant /\ ~RenamesRBAC]_handoverVars` |
| `GuardedLifeOutlivesHandover` | `HandoverSpec => GuardedLife` | `RBACKeysApart`, `[][~LateGrant /\ ~RenamesRBAC]_handoverVars` |

`NoOrphanedRBAC` accepts a guarded resource that *could* name the object, under some spec;
that is the weakest reading, and run `renamed_rbac` refutes even it. `NamedByStored` asks for
one whose *stored* spec names it: what its cleanup will look for.

`RenamesRBAC` (a user changes the name of a cluster-scoped object of a resource that has
its finalizer) has to be excluded: run `renamed_rbac` shows what happens otherwise.
`RBACKeysApart` (different resources name different ones) is needed too:
`DefaultNamesCollide` exhibits `c` in namespace `a-b` and `b-c` in namespace `a`.
`DefaultNames` is a condition on the manifests under which there is nothing to exclude:
specs leave the two names unset, and all namespaces have the same number of
dash-separated segments. `AllDefaultNames` asks in addition that specs leave every other
name unset; `NamespacedKeysApart`, which it implies by `DefaultNamesShareNothing`, only
that two resources have no namespaced object in common.

*The exact gaps.* Three of the four runs of section 4 refute a property; for each a
theorem states what is missing, and that nothing else is.

| The run finds | The gap | Without it |
|---|---|---|
| `renamed_rbac` | `RenamesRBAC`: an edit changes the name of a cluster-scoped object of a guarded resource | `NoRBACIsOrphaned` |
| `recreated_status` | `ForeignPatch`: a status patch changes a resource of another uid than the pass read | `ReportsAreOwn` |
| `recreated_rbac` | `StaleSkip`: a pass finds nothing to change in a cached ClusterRole or binding that is not the stored one any more | `QuietIsAppliedToRBAC` |

These and `LateGrant` say of one step of the model what it does; a theorem with
`[][~A]_vars` speaks of the behaviours without that one step, and of no others. Immutable
names, a status patch with a uid, a watch on the two kinds would make the gaps disappear.
(The fourth, `observed_generation`, is what `status.go` always does on failure.)

*The finalizer* (`RBACProofs`). `NoOrphanedRBAC` speaks of the store; but
a pass creates ClusterRoles from a copy that may be arbitrarily old, so what must
be excluded is that such a copy survives the finalizer. `ProtectionInv` says, of
the stored version, the cached one and every one on its way:

1. `DeletionIsFinal`: if a version is being deleted, so is every later version with
   the same uid.
2. `UidsAreSpent`: all uids in sight have been given out, so that a new resource
   is distinct from every copy.
3. `CopiesAreGuarded`: any copy that would send a pass to its steps (finalizer,
   no deletion), and the copy of a pass that is in its steps, is of the resource
   that is stored now, and that one has its finalizer.
4. `PassHasRead`: a pass in its steps acts on a copy that was not deleted, a cleanup
   on one that was, and then every copy of its uid that is about is deleted, too.
5. `CleanupIsFinal`: what a cleanup has deleted so far is still gone.

The first four (`CopiesInv`) hold across hand-overs, too.

`RBACProofs` first shows what any step may do to the copies of a resource
(`Effect`: deliver, relist, or store a version that is created, kept, dropped
without a finalizer, or released), to the pass (`PassShape`) and to a managed object
(`StepCreates`: only a pass in its steps creates one). From these alone the
invariant is inductive. The interesting case is the release: its Update succeeds
only if the stored resource is the copy the cleanup read, hence deleted; by 1 and
4 no copy with its uid can be acted on, which is 3 after the step. And as only
passes create managed objects and there is one pass at a time, what the cleanup
deleted stays gone until the release, which is `CleanupBeforeRelease`.

*The store* (`StoreProofs`). Every step is, to the store, one write (`PutStep`), one event
received, or a relist (`StepIsStoreStep`); the last version on its way is therefore
always the stored one (`CacheFollows`). So an Update that is accepted replaces the
version that `CreateOrUpdate` compared with, whose controller
`SetControllerReference` has looked at: nobody's object is taken. A write of the
resource changes its spec to `Written` of it, and `Alike` says which specs every
step renders alike: all fields equal, but for the maps and structs that are read
through their emptiness. `Written(spec)` is `Alike` the spec with an empty
`hubConfigMapData` dropped, which is `NoLostEdit`.

*The report* (`StoreProofs`). The status patch has no precondition, so what orders the
reports must be the order of the copies: `ReportInv` says that the copies of one life
come to the cache in the order of their generations, that a pass holds one that is
older than all to come, and that no copy reports, observed or in its condition, a
generation above its own. A patch of a pass that read the same life keeps this; a
`ForeignPatch` is the only step that does not.

*The cleanup* (`LifeProofs`). A cleanup that acts on an old copy would delete, by name,
what a new resource of the same name has been granted. `LifeInv` excludes it: the
finalizer of the new one comes from a pass that held its stored version with nothing
on its way, so that every copy about is of the new one (`GuardIsSeen`), and a cleanup
of an earlier one is over (`CleanupIsDue`).

*The names of cluster-scoped objects* (`LifecycleProofs`). That no spec *can* rename
them would be too much to ask. `NamesInv` says what is needed and kept by any step that is
not a `RenamesRBAC`: each such object is named by the *stored* spec of a guarded resource
(`NamedByStored`), and every copy with a finalizer that is of the stored resource names the
same ones as the stored spec (`CopiesAgree`), so that a pass with an old copy creates what
the cleanup will look for. The edits of a resource without its finalizer are free: when it
gets the finalizer, no copy of it has had one before (`NoEarlierGuard`). `OneOfStep` follows:
of all objects that the specs of a resource could name for one step, one exists at most.

*The refinement* (`LifecycleProofs`). `life` is read off the stored resource and
`granted` off the stored cluster-scoped objects. `LifeStep` and `ResourceWritten` show that
each write of a resource is `Create`, `Protect`, `Release`, `Delete` or `Vanish`, or leaves
`life` alone; `GrantStep` and `ObjectWritten` that each write of an object is `Grant` or
`Revoke` for its one resource: a grant happens while the resource has its finalizer by
`CopiesAreGuarded` (`GrantsAreDue`), and a resource is released only when nothing is granted
because what is left would be named by the resource's stored spec (`OnlyNamed`), whose
objects the cleanup has deleted (`LifeGoesOn`). `RBACKeysApart` makes "its one resource"
true, `OneOfStep` that a right goes with its one object. The lemmas are about any single write of the store, so that the hand-over
uses them for the late one.

*Default names* (`LifecycleProofs`). The kind and the last segment of a default name tell the
step (`SuffixTells`), the rest of it the resource. Whoever owns a copy of an object, stored,
cached or on its way, has a spec that names it (`OwnersName`, inductive because only
`Want` sets an owner); with `NamespacedKeysApart` that is the resource whose pass looks at
it. With `OwnedOrNamed` (only the two cluster-scoped steps make an object that has no
owner) and `NamesInv` it gives `NothingEscapes`: each object that exists is within the
reach of a cleanup or of the garbage collector.

*Nothing is forgotten* (`WakeProofs`). The workqueue is level-triggered only if every
change of something a pass has looked at brings another pass. `NothingForgotten` says
of every stored resource that it is queued, or an event of it is on its way, or a
pass has its stored version in hand and each step up to its position is in step *or
has an event on its way that will wake the resource* (`Coming`), or all of that holds
and is reported. The disjunct is what makes it inductive: a pass that finds nothing
to write has compared with the cache, and if that was old, the events in between are
those of the resource's own objects. When nothing is on its way, the disjunct is
false, and what remains is `QuietMeansApplied`.

*The two kinds that are not watched* (`WakeProofs`). For them nothing is ever `Coming`.
`NoRBACForgotten` therefore says of every stored resource that it is queued, or an event
of the resource itself is on its way, or a pass holds its stored version and each
cluster-scoped object up to its position *is* in step, or all of them are and that is
reported. It survives a step because only passes write these objects
(`OnlyOperatorsWriteRBAC`), those of other resources write others (`RBACKeysApart`), and a
cleanup takes nothing from the living (`LifeInv`). What is left is the pass that
takes a stale object for present, `StaleSkip`.

*Rest* (`WakeProofs`). `CreateOrUpdate` writes Deployments, DaemonSet, Services and Secret
in every pass, and an operator whose writes are seen as changes never sleeps. `RestHolds`
says that this does not happen: when every step is in step with the stored spec, cached
and reported, whatever the next pass renders is, completed, what is stored (`RestWant`), so
that the API server changes nothing and no event follows; only passes that were due already run on.
`RestComesToQuiet` counts them: a queued resource is worth a whole pass, a pass what is left
of it, and each step makes the sum smaller. With `QuietIsRest` and `NothingForgotten` this
is the safety half of `Settles` and `Converges`; that the steps are taken at all is the
fairness that only TLC can use.

*Hand-over* (`HandoverProofs`). A late request is, when it lands, one more write
(`LandIsPut`) of a well-typed version (`LateOK`) while the reconciler rests, so that the
lemmas of `WakeProofs`, `StoreProofs`, `RBACProofs` and `LifecycleProofs` about what one write
does (`Effect`, `Paced`, `ObjectWritten`) apply to it as they stand. What is new is that the
write was decided by another process. `LateIsDue`, in `SuccessionInv`, says what that
process knew and the new one still must know: as long as a late Update that adds the
finalizer can be accepted, every copy about is of that resource, and when one that
removes it is, every copy about is deleted; both because the new process lists after the
old one stopped, and an Update is accepted only over the version it was computed from.
For the promise of the finalizer one more clause is carried (`CleanInv`): what a late
release was sent after is still gone, or another resource's by its stored spec. Only a late Create of a ClusterRole or binding
(`LateGrant`) breaks that, so that it is the one way in which a hand-over orphans an
object; and only a late Delete, which has no precondition, takes one from a living
resource.

*Only model-checked.* `DeletionCompletes`, `LeavesNothing`, `Converges`, `RBACConverges`,
`RefusalIsReported` and `Settles`: liveness under fairness is out of the prover's reach.
Of each there is a half that is not, and is proved: of `Settles`, `RestHolds` and
`RestComesToQuiet`; of `Converges` and `DeletionCompletes`, `NothingForgotten` (whoever is
not done is queued, awaited or in hand); of `RBACConverges`, `QuietIsAppliedToRBAC`; of
`LeavesNothing`, `NothingEscapes`.
Induction over data is, too; no definition of the model needs it.

## 6. What is not modelled

* More than one late request at a time. The one that is modelled may be of any kind;
  a late Create of a ClusterRole that lands after the successor released the
  finalizer does leave a role without an owner, and a late Delete of one does take
  it from a resource that was created again. The code cannot prevent either and no
  document of the repository claims it does; section 5 says what holds
  without the one and the other.
* A late Update whose expected *value* is stored again under another
  resourceVersion would be refused; the model lets it through (it then changes
  nothing that `QuietMeansApplied` or `NoLostEdit` could miss, and what is proved of
  more behaviours holds of fewer).
* Two leaders at once for longer than one request: a process that has lost its
  lease exits.
* Namespaces that terminate, users who remove the finalizer by hand, and removal of
  the operator or of the CRD before its resources.
* Deletion with orphan propagation, which strips the owner references, and others who
  write the resource's metadata (labels, annotations, finalizers of their own). Either
  would be one more event and one more conflict, or one more dependent that stays.
* `lastTransitionTime` of the condition, which `meta.SetStatusCondition` moves when the
  status changes: reports computed from different copies may differ in nothing else,
  which is one more event and one more pass. At rest all copies are one.
* Authorisation. `config/rbac/role.yaml` gives the manager no rights on nodes, pods,
  endpoints, persistentvolumeclaims and namespaces, which the default ClusterRole
  grants (`rbac.go:24`), and neither `escalate` nor `bind`. An API server that
  authorises by RBAC refuses such a ClusterRole as an escalation. That is a write
  refused in every pass: the model takes every request that has its preconditions for
  accepted, or for a fault.
* Rate limits and delays: a retry happens at some time.
* The length of names: a name that a suffix makes longer than 63 characters is one
  more refused write.
* Pods, and therefore the overlap of the selectors, which all carry the same
  three labels.
* `cmd/main.go`'s flags, probes, metrics and webhook servers.
* `utils.go`: nothing calls it, and with it the package does not even compile, since
  it declares functions that `worker.go` declares as well. Backups, generated code
  and static manifests have no control flow of their own.

## 7. Plan

Done, in this order: names and objects; the external store and cache; the
reconciler; the composition with its safety and liveness runs; the abstract life
cycle; types and the finalizer proved; the properties on renames, refusals, shared
names and quiescence; hand-over; every safety property of the passing runs and the
refinement proved; the same for the finalizer under hand-over; the exact gaps behind
the findings, first as conditions on the manifests, then as single steps; the rest that
the operator comes to.

Left:

1. The sticky ingress class has no property, because nothing states that it should
   go.
2. Several late requests, once something says what they must not do.
3. The same ranking for a deletion: a measure that every step of a cleanup, and of the
   passes that its retries bring, makes smaller.
