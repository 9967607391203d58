# Multicluster cloud provider: TLA+ models, checks and proofs

This directory models the controllers of the Karmada multicluster cloud
provider in TLA+, checks them with TLC on small instances, and proves the main
safety results with TLAPS for every instance.

## The system

One process, the controller manager, runs a set of controllers against the
Karmada API server and a cloud provider behind the interface of `cloud.go`.
Every controller has a work queue and one worker. It reads from the manager's
cache, which informers keep up to date with some lag, and writes to the API
server.

| Component | State | Operations | Hard behaviour | Module |
|---|---|---|---|---|
| MultiClusterService (MCS) controller | finalizer and `status.loadBalancer` of the MCS; its load balancer | Reconcile: delete, create, update; handlers of MCS, Service and EndpointSlice events; two event channels | stale cache, conflicts, lost answers, restarts, filtered events | `MCSController` |
| MultiClusterIngress (MCI) controller | finalizer, `status.loadBalancer` and `status.trafficBlockClusters` of the MCI; its load balancer | as above; match of ingress classes; handlers of Secrets and Clusters | as above; a patch without version; two retry loops; a status shared with another controller | `MCIController` |
| MCI service locations controller | `status.serviceLocations` of the MCI | calculate from ResourceBindings one by one, retry loop | computed from one copy, written into another; shares the status with the MCI controller | `MCIServiceLocations`, composed in `MCIStatus` |
| ServiceExport propagation controller | ServiceExport and PropagationPolicy of a Service | ensure or remove both; handlers of Services, MCIs, MCSs, ResourceBindings | two objects, neither watched; four informers; re-created Services and the garbage collector | `ServiceExportPropagation` |
| CRD installation controller | `ClusterNames` of one ClusterPropagationPolicy | add or remove a cluster, create the policy | two informers, a policy that is read stale and not watched for updates | `CRDInstallation` |
| Command, options, provider registry, manager, controller context | flags, map of providers, indexes, controllers set up | the start of the process and all its early ends | failures between steps, the random order of a map, restarts | `Startup`, `ControllerContext` |
| Reference indexes, ingress class utilities | none | pure functions | rules without HTTP part, several default classes | `ReferenceIndexes`; classes and lookups in `MCIController` |
| Provider interface, fake provider | load balancers | get, ensure, update, delete | a call that takes effect and fails | `lb` and the provider actions of both controllers |

What makes each correct:

- MCS and MCI: no load balancer without the object that pays for it; create
  and update of the provider called only where they apply; the right load
  balancer, status and finalizer in the end, whatever happened on the way.
- CRD installation: every joined cluster named, once, and no other.
- Service locations and MCI controller: the locations of an MCI follow the
  ResourceBindings of its backends, and neither controller undoes the other's
  writes.
- ServiceExport propagation: a Service that is needed has a ServiceExport and a
  policy with the clusters it is scheduled to, one that is not needed any more
  has neither.
- Start: the manager runs with everything set up, or not at all.

`PROJECT.json` lists every component, the hazards of the code at their lines
with the properties that watch them, and the source lines of each definition.

## Modelling conventions

The API server, the informers, the work queue of controller-runtime, the users
and the cloud are not code of this repository. They are modelled as the code
uses them, the same way in all modules:

- `store[n]` is the object in the API server, `cache[n]` the informer's copy and
  `watch[n]` the versions in between. `Deliver` takes the next one and calls the
  event handler; `Relist` replaces them all by the newest, as an informer does
  after a broken watch, so that several changes appear as one event. Handler
  and cache update are one step.
- A resource version only matters for being the live one: `fresh[n]`. A write
  that carries a version succeeds if and only if the copy is fresh.
- Each call that leaves the process is one action; `pc` names the next call.
  What the code does between two calls belongs to the first of them.
  `CallFails` lets any call fail without effect; actions with a parameter `ok`
  take effect, and with `ok` false report an error all the same.
- Errors requeue the key. Delays of the rate limiter have no place in the model:
  a queued key may be taken at any time.
- The work queue is a set, and so are the event channels: Adds of a queued key
  merge, and the order of keys is arbitrary. Only one worker runs
  (`MaxConcurrentReconciles` is not set).
- `Restart` is a crash, or a lost lease: caches are listed anew, every object
  comes back as created, copies and queues are lost.
- Names, configurations, statuses and versions are members of small sets.
  Annotations and spec are one value, except for the parts a branch depends on
  (exposure types, ingress class, backends).

## Modules

`LBLifecycle` is the abstract specification both load balancer controllers
implement. It has one variable, the phase of an object (absent, bare, guarded
by the finalizer, provisioned), and says that the finalizer goes on before a
load balancer is made and off after it is gone.

`MCSController` has one action per call of `Reconcile`
(`mcs_controller.go`): `Reconcile`, `AddFinalizer`, `GetMCSLoadBalancer`,
`handleMCSCreate`, `handleMCSUpdate`, `UpdateStatus` and `RetryStatus` (the two
outcomes of an attempt of `updateMCSStatus`), `GetForDelete`,
`EnsureMCSLoadBalancerDeleted`, `RemoveFinalizer`, `UpdateRejected`; and one per
event handler (`eventhandlers.go`): `Enqueued` is the filter of the MCS handler,
`ServiceEvent`, `EndpointSliceEvent`, `ServiceGeneric` and `MCSGeneric` the way of an
event through the two channels.

`MCIController` is built alike for `mci_controller.go`. Its differences are the
code's: `CheckIngressClassMatched` in every handler of the MCI and nowhere in
`Reconcile`; the merge patch of `AddFinalizer`, which no version guards, which
replaces the finalizers of others by the copy's, and after which the reconciler
goes on with a copy of the old version; `ListClusters`, `UpdateBlock` and
`RetryBlock` for `updateMCITrafficBlockClusters`, whose retries work on a local
copy (`retried`) while the caller keeps its own; a nil status that panics;
`SecretEvent` and `ClusterEvent`.

`CRDInstallation` has `Reconcile`, `syncClusterPropagationPolicy`, `ListClusters`,
`CreatePolicy`, `UpdatePolicy`, and the filters of both watches.

`ServiceExportPropagation` has one action per read and per call of its
`Reconcile`, since it decides from five caches that change in between:
`needEnsureServiceExport` is `ListMCIs` and `GetMCS`; then the chain that
creates or updates both objects, or the one that deletes them. The handler of
Services reads other caches, so the update of the cache (`DeliverService`) and
the handler (`ServiceCreate`) are two steps; the other handlers read nothing but
their event. Both outputs have informers with a lag of their own, and carry the
UID of their owner for the garbage collector.

`MCIServiceLocations` reads one ResourceBinding per step and has the retry loop
of `mci_service_locations.go`; writes of everybody else to an MCI are its action
`Others`. `MCIStatus` puts it and `MCIController` on the same objects and the same
informer. There `MCIControllerAlone` and `LocationsAlone` say that the
composition implements each of the two modules, that is, each controller is one
of the writers that the other's module allows for: what is checked of one alone
holds of the two together. For the service locations controller one more event
may wait (`Slack`), which the MCI controller's patch of the finalizer can add.

`Startup` follows `main`, the command, the registry of providers, the manager and
`StartControllers` step by step, with every error return, `klog.Fatal` and
panic, and the restart of the container. `ControllerContext` has
`IsControllerEnabled` with its loop as a recursive function, `ReferenceIndexes` the functions of
`reference_indexer.go`; `MCStartup` checks both against reference definitions.

`MCMCSController`, `MCMCIController`, `MCServiceExport` and `MCLocations` give the
constants values for TLC. `MCSLiveness`, `MCILiveness`, `ExportLiveness` and
`MCCRDInstallation` add fairness and a bound on disturbances.

## Runs

| Run | Shows |
|---|---|
| `mcs` | types, the inductive invariant, `NoOrphanedLB`, `ProviderCallsFit`, `FinalizerLeavesUnwanted`, and that MCSController implements LBLifecycle; `EventuallyProvisioned`, `EventuallyPublished`, `EventuallyReleased`, `EventuallyDeprovisioned`: load balancer, its sources, status and finalizer end up as the objects say |
| `mci_safety` | types, the inductive invariant, `NoOrphanedLB`, `ProviderCallsFit`, `ForeignFinalizersSurvive`, and that MCIController implements LBLifecycle |
| `mci_liveness` | the `Eventually...` properties for an MCI with Service, derived EndpointSlice and Secret, and `EventuallyBlocked`: `trafficBlockClusters` and the load balancer follow TrafficControl |
| `mci_both` | both writers of an MCI's status together: `MCIControllerAlone`, `LocationsAlone`, and, through the conflicts they cause each other, `EventuallyLocated` and `EventuallyPublished` |
| `loc_safety` | `LocationsNotForgotten`: the locations of an MCI are right or work on it is pending |
| `export` | `ExportNotForgotten`, `PolicyNotForgotten`, `WithdrawalNotForgotten`: ServiceExport and policy are right or work is pending; `EventuallyPropagated`, `EventuallyWithdrawn` |
| `crd` | two clusters: only real clusters in the policy, `NoDuplicates`, `KeepsOthers`: no write drops a cluster another write added; `EventuallyInstalled`: every joined cluster ends up in the policy |
| `startup` | every combination of flags, registrations and providers: `NoPartialStart`, `EventuallyRuns`; `FirstChoiceWins` and `IndexesExact` for the pure functions |

Four runs show where the code departs from what its comments say. Each is a
finding in `PROJECT.json`:

| Run | Shows |
|---|---|
| `mcs_deletion_stuck` | an MCS without the LoadBalancer type whose load balancer is already gone keeps the finalizer; its deletion hangs |
| `mci_deletion_stuck` | an MCI moved to a class of another controller keeps load balancer and finalizer; its deletion hangs |
| `crd_gone_cluster` | the reconcile of a cluster that is gone removes the empty name, not the cluster's |
| `crd_stale_policy` | a cluster that leaves and joins again while the cached policy is behind is never named again |

### Bounds

- `MaxDisturbances`: in the runs with liveness this many steps of users,
  backends, faults, broken watches and restarts happen, in any order and at any
  time; after the last of them only the controller moves. Four are enough for an
  object to be created, changed and to meet one conflict and one failure; the
  runs have five to seven, `mci_both` three, since the other controller causes the
  conflicts there. `mci_safety` and `loc_safety` have no such bound; nor have the
  proofs.
- `MaxLag`: how far the cache may fall behind while others write (the
  controller's own writes come on top).
- `RetrySteps` is 2 instead of 5: the loop runs, repeats and gives up.
- One object is followed where objects share only the worker; two clusters or
  two backends where they share an object.
- `OneConcern` in `mci_safety`: classes other than the default or finalizers of
  others, a Service, an EndpointSlice, located or blocked clusters, are there one
  at a time, each with everything users, faults and restarts do. `mci_liveness`
  has Service, slice, Secret and cluster together.
- `MaxUID`: a Service is re-created once. `MaxFaults`, `MaxRegistrations`: two
  failures and two registrations during starts. `MaxFlags`, `MaxRules`,
  `MaxPaths`: inputs of the pure functions, so that a star, a choice and its
  opposite, or a rule without HTTP part between two others, occur.

### Fairness

Fairness is weak fairness of the informers, of each event channel and of the
worker's steps that do not fail: watches deliver, goroutines that drain channels
are scheduled, the worker takes queued keys, and calls return. For `Startup` it
is that of a sequential process and of the restart policy of its Deployment.
Nothing is assumed of users, and faults are not fair.

### Conditions

Where a property does not hold of the code in full, the condition is a constant
of the module, and a hazard in `PROJECT.json` says what happens without it:

- `EventuallyPublished` is checked for providers whose load balancer keeps its
  address (`ProviderStatus`): both controllers compare a new status with a
  cached one, and events of the status are filtered out.
- `EventuallyBlocked` is checked with `Paced`: clusters change, and relocations
  or new MCIs that concern blocked clusters appear, only between reconciles.
- `EventuallyInstalled` is checked with `PatientUsers` in `crd`; `crd_stale_policy`
  is the run without it.
- `IngressClasses` do not change in the liveness runs: nobody watches them.
- `EventuallyDeprovisioned` asks for a Service of the MCS: after a restart an
  MCS without the LoadBalancer type is only noticed through its Service.
- `Assumes` of `ServiceExportPropagation`. Without `outputsCached` (a reconcile
  starts when the cache has the controller's own writes) TLC finds a policy left
  with old clusters: the early return at
  `serviceexport_propagation_controller.go:148` compares with a cached policy.
  Without `garbageCollected` (a re-created Service is reconciled after the old
  one's objects are gone) the old ServiceExport is taken for the new one's at
  :105 and collected later. Without `recreationSeen` a deletion and creation seen
  as one update is ignored at `eventhandlers.go:71`.
- `Assumes` of `MCIServiceLocations`: `ownWritesCached` and `recreationSeen`, for
  the same reasons (`mci_service_locations.go:59` and :132).

Three more observations have no run, since no text of the repository claims the
opposite for the running controllers, or the matter is plain from the text:
`--multicluster-provider` is described with "Empty for no provider"
(`options.go:84`) and an empty one is refused (`validation.go:12`); a backend that
is a resource makes `reference_indexer.go:48` dereference nil; the fake provider's
update (`fake.go:127`) assigns to a copy.

## Proofs

`MCSControllerProofs` proves, for any sets of names, configurations, statuses,
Services and slices, any lag and any number of retries, from
`ConstantsAssumption` only:

| Theorem | Statement |
|---|---|
| `Invariance` | `Spec => []IInv` |
| `TypeCorrect` | `Spec => []TypeOK` |
| `NeverOrphaned` | `Spec => []NoOrphanedLB` |
| `CallsFit` | `Spec => []ProviderCallsFit` |
| `FinalizerDiscipline` | `Spec => FinalizerLeavesUnwanted` |
| `Refinement` | `Spec => ImplementsLifecycle` |

`NoOrphanedLB` is not inductive: a reconciler that holds an old copy with the
finalizer would make a load balancer for an object that has lost it. `IInv` says
why that cannot happen. The newest version is the last one the informer will see
(`Coherent`). While the finalizer is not in the API server, neither the cache
nor any version still to be delivered shows an object with the finalizer that
wants a load balancer (`NoStaleLicence`): the finalizer was removed by an update
at the live version, from a copy that was deleted or without the type, so every
version at or after that copy is harmless. And at each call the reconciler may
rely on what the earlier calls did (`AtStep`), since only it removes the
finalizer, and only one worker reconciles a key. The proof has one lemma per
group of actions: writes of users, the environment, the calls of the
reconciler. The refinement maps each step of `Next` to one step of LBLifecycle or
to none, under the mapping `phase`.

`CRDInstallationProofs` proves, for any finite set of clusters, any lag, and
users who wait or do not, from `ConstantsAssumption` only:

| Theorem | Statement |
|---|---|
| `Invariance` | `Spec => []IInv` |
| `TypeCorrect` | `Spec => []TypeOK`: only real clusters are named |
| `NeverTwice` | `Spec => []NoDuplicates` |
| `OthersKept` | `Spec => KeepsOthers` |

Its `IInv` adds to the types that the informer ends with the version in the API
server (`Coherent`), that no version, no cached copy and no list of the worker
names a cluster twice, that only a cluster the cache has is ensured, and, for
`KeepsOthers`, that while the worker's copy is the live version its list has all
names of the policy but the reconciled one (`Covers`). The lemmas `Appended`,
`Removed` and `Enumeration` say so of the three ways a list is made. That the
removal takes the first of several equal names needs no induction: without
duplicates there is one.

`MCIControllerProofs` proves, for any MCIs, classes, backends, clusters and
statuses, any lag and any number of retries, from `ConstantsAssumption` only:

| Theorem | Statement |
|---|---|
| `Invariance` | `Spec => []IInv` |
| `TypeCorrect` | `Spec => []TypeOK` |
| `NeverOrphaned` | `Spec => []NoOrphanedLB` |
| `CallsFit` | `Spec => []ProviderCallsFit` |
| `OthersFinalizers` | `Spec => ForeignFinalizersSurvive` |
| `Refinement` | `Spec => ImplementsLifecycle` |

The argument is that for `MCSController`; two things are new. The finalizer goes
on by a patch of the live object, from any copy, so a licence to call the provider
is an object with the finalizer that is not deleted, and what the patch leaves in
the API server is guarded whatever the copy was. And
`updateMCITrafficBlockClusters` writes the list into the reconciler's own copy
before its first attempt, then into copies it reads again: `AtStep` says that a
copy with the live version differs from the live object at most in that list, that
the list is the one to be written (`newBlock`), and that a copy read again exists
only while the reconciler's own is outdated. Without the last two parts an
accepted attempt could leave the reconciler with a copy that is neither live nor
known to be old. `FreshCopy` and `AttemptedCopy` draw the consequences; from them
every write of the controller keeps the finalizers of others (`FittingSteps`).

`MCIServiceLocationsProofs` proves, for any MCIs, Services, ResourceBindings and
clusters, any lag and any number of retries:

| Theorem | Hypothesis besides `LocationsAssumption` | Statement |
|---|---|---|
| `TypeCorrect` | none | `Spec => []TypeOK` |
| `LocationsKept` | `InformerInTime` | `Spec => []LocationsNotForgotten` |

`InformerInTime` is that `Assumes` has both of its members, see Conditions. An
MCI's locations are right for the backends it has in the API server only when
the cache shows those; the handlers work with the cache. So `IInv` says of every
MCI for which nothing will come of the cache (`Quiet`: it is known there, not
queued, and no event of a ResourceBinding of its cached backends is under way)
that its locations are right for the cached backends (`Located`), or, while the
worker is busy with it, that what the worker has calculated is right for the
backends it has looked up and that its copy has the locations of the live MCI
(`LocatedSoFar`). The rest of the proof says which steps leave this view alone
(`ViewKeptLocationsOK`).

`ServiceExportPropagationProofs` proves, for any Services, MCIs, exposure types,
clusters and bindings, any lag and any number of re-creations:

| Theorem | Hypotheses besides `ConstantsAssumption` | Statement |
|---|---|---|
| `TypeCorrect` | none | `Spec => []TypeOK` |
| `ExportKept` | `InTimeAssumption`, `OurMCIs` | `Spec => []ExportNotForgotten` |
| `PolicyKept` | `InTimeAssumption`, `OurMCIs` | `Spec => []PolicyNotForgotten` |
| `WithdrawalKept` | `InTimeAssumption`, `OurMCIs` | `Spec => []WithdrawalNotForgotten` |

`InTimeAssumption` is that `Assumes` has all its members, see Conditions; `OurMCIs`
that MCIs are of this provider, since one that moves to its class with the same
backends is ignored (`serviceexportpropagation/eventhandlers.go:124`, a hazard in
`PROJECT.json`). What a reconcile will do depends on five caches read at five
times, so `IInv` follows each Service separately (`ServiceClaims`). `HistoryOK` and
`UnusedOK` say how the incarnations of a Service reach the cache, and that nothing
belongs to one before it was reconciled. `OutputsKnown` says that a reconcile of
the live incarnation sees the true ServiceExport and policy and has done its part
up to the present step. `BranchOK` says that it took the branch that is right for
the MCIs, MCS and binding of now, unless something changed that put the Service
into the channel or the queue again. `ProvidedOK` and `WithdrawnOK` say of a
Service that nobody works on and no event is about that its outputs are right.

Both inductive invariants were found with TLC on the instances of `loc_safety` and
`export` before they were proved. `Channels` has the lemmas about events on their
way to a cache that the two proofs share: what is left when the first event is
delivered, and what there is with one more.

`StartupProofs` proves, for any finite set of controllers, any providers,
registrations and number of failures, for lists of flags of any length and MCIs
with any number of rules, paths and names, from `StartupAssumption` and
`IndexAssumption` only:

| Theorem | Statement |
|---|---|
| `NeverPartial` | `Spec => []NoPartialStart` |
| `ExplicitChoice` | `Spec => []FirstChoiceWins` |
| `IndexesComplete` | `Spec => []IndexesExact` |

The `IInv` behind `NeverPartial` says what each step of the start can rely on: all
registrations made and different, the options checked, the provider chosen from a
registered factory, one index after the other, and in the loop over controllers
that exactly the visited ones are started and each got past its provider. That no
controller is skipped as disabled is the lemma `AllEnabled`, from `FirstChoice`.
`FirstChoice` is about the loop of `IsControllerEnabled`, the recursive function
`Seen`. The library's induction theorems cannot be used for it; instead
`Loop` (the recursive equation has a solution) and `AllTurns` (after i flags the
loop knows the first choice among them, or that there is none and whether there
was a star) consider the least turn at which they would fail (`Least`, from the
well-foundedness of the natural numbers).

`MCIStatusProofs` proves of the two writers of an MCI's status in one process,
for any MCIs, backends, clusters and bindings, any lag and any number of retries
and disturbances:

| Theorem | Hypotheses besides `ConstantsAssumption`, `BothAssumption` | Statement |
|---|---|---|
| `BothInvariance` | none | `BothSpec => []BothInv` |
| `ControllerAlone` | none | `BothSpec => MCIControllerAlone` |
| `WriterAlone` | none | `BothSpec => LocationsAlone` |
| `TogetherNeverOrphaned` | none | `BothSpec => []NoOrphanedLB` |
| `TogetherLocated` | both members of `Assumes` | `BothSpec => []Loc!LocationsNotForgotten` |

`MCIControllerAlone` and `LocationsAlone` are `Spec` of the two modules, which
states no fairness; that the two make progress together is `EventuallyLocated` and
`EventuallyPublished`, for TLC. That each step of one is a step the other's module
allows needs two things. A write from a copy changes nothing that the other one owns: an
accepted copy has the live version, so by `IInv` and `CacheOK` of the two modules
it is the live object but for what is being written. And each module bounds the
events that wait while others write: so `BothInv` adds that a copy with the live
version finds next to none waiting (`CopiesOK`, `LocCopyOK`), and that with the
finalizer on the object one more event may wait than without it (`Room`), since
the patch that sets it is the one write that needs no live copy.
`MCIServiceLocationsProofs` is instantiated as `LP`; its assumption, which speaks
of the type of MCIs it takes as a parameter, is the lemma `LocAssumption`.

`IndexesComplete` rests on two facts shown the same way. Joining lists one by one
keeps their elements (`JoinLoop`, `Flattened`), so that the walk finds every
backend wherever rules without HTTP part stand (`Walked`). And every finite set of
names has a list of each once, in ascending order (`CanBeListed`), as a least set
without one would have a least name to put before the list of the others. That
`sets.String.List` returns this list is what `Sorted` says of the library, with a
CHOOSE; the lemma shows that there is something to choose.

Only model-checked: liveness (`EventuallyProvisioned` and the like), which needs
fairness and is out of the prover's reach. Every invariant, action property and
refinement that a passing run checks is also a theorem.

## Not modelled

- Flags other than provider name, class and file, logging, events of the
  recorder, metrics: no effect on the state the properties are about.
- The fake provider's maps and record of calls: a stub for tests.
- The lag of the caches of Services, Secrets, EndpointSlices, Clusters and
  IngressClasses in `MCSController` and `MCIController`, and of MCIs, MCSs and
  ResourceBindings in `ServiceExportPropagation`: they change together with the
  cache. In `MCIController` `Reconcile` and its handlers see the same.
- Two processes at once: leader election is taken to exclude it, so a provider
  call of the old leader that outlives its lease is out of scope, and so is a
  list after a restart that is older than what the old process saw.
- Users who take off finalizers by hand.
- The generation of names of bindings, exports and policies, and of the contents
  of the two propagation policies but for their clusters.

## Plan

1. Done: all controllers, their compositions where they share objects, the start
   of the process; proofs about each of them.
2. Done: a theorem for each safety property.
3. A composition of `ServiceExportPropagation` with `MCIController` is not planned:
   they share no object either of them writes.
