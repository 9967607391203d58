---------------------------- MODULE MCSController ----------------------------
(***************************************************************************)
(* The MultiClusterService controller: its event handlers, its work queue  *)
(* and Reconcile, one action per call that leaves the process.             *)
(*                                                                         *)
(* The API server and the informer are external.  store[n] is the object   *)
(* in the API server, cache[n] the copy the manager's client reads, and    *)
(* watch[n] the versions committed since, in order.  A resource version is *)
(* only ever compared for equality with the live one, so it is one bit:    *)
(* fresh[n] says that the reconciler's copy carries the live version.      *)
(*                                                                         *)
(* The informer updates its cache and calls the handler in one step: the   *)
(* handlers read nothing but the event, and a later call of them is a      *)
(* later Add to a queue that already merges Adds.                          *)
(***************************************************************************)
EXTENDS Naturals, Sequences

CONSTANTS
  Names,           \* MultiClusterServices; the Service of one has its name
  ExposureTypes,   \* exposure types of an MCS
  LoadBalancer,    \* the one this controller serves
  Cfgs,            \* annotations and spec of an MCS, its types apart
  Held,            \* may a new MCS have finalizers of others?
  Statuses,        \* values of status.loadBalancer
  EmptyStatus,     \* the zero value of status.loadBalancer
  NilStatus,       \* a provider's nil status pointer
  NotFound,        \* in place of an object that does not exist
  NoLB,            \* in place of a load balancer that does not exist
  SvcSpecs,        \* annotations and spec of a Service
  Slices,          \* EndpointSlices
  SliceLabel,      \* SliceLabel[s]: label kubernetes.io/service-name of s
  NoLabel,         \* the label of a slice that has none
  Contents,        \* endpoints of a slice
  ProviderStatus,  \* ProviderStatus[c]: what the provider may answer for c
  RetrySteps,      \* attempts of retry.RetryOnConflict (DefaultRetry: 5)
  MaxLag           \* bound: users do not write n while MaxLag events wait

\* finalizer: this controller's; held: the object has finalizers of others.
MCS == [types : SUBSET ExposureTypes, cfg : Cfgs, deleting : BOOLEAN,
        finalizer : BOOLEAN, held : BOOLEAN, status : Statuses]
Labels == [derived : BOOLEAN, base : Names]
Endpoints == [Slices -> Contents \cup {NotFound}]
LB == [cfg : Cfgs, svc : SvcSpecs \cup {NotFound}, eps : Endpoints,
       status : Statuses \cup {NilStatus}]

ASSUME ConstantsAssumption ==
  /\ LoadBalancer \in ExposureTypes
  /\ NotFound \notin MCS \cup SvcSpecs \cup Contents
  /\ NoLB \notin LB
  /\ Held \subseteq BOOLEAN
  /\ EmptyStatus \in Statuses
  /\ NilStatus \notin Statuses
  /\ NoLabel \notin Labels
  /\ SliceLabel \in [Slices -> Labels \cup {NoLabel}]
  /\ ProviderStatus \in [Cfgs -> SUBSET (Statuses \cup {NilStatus})]
  /\ RetrySteps \in Nat \ {0}
  /\ MaxLag \in Nat \ {0}

VARIABLES
  store,         \* the MCS objects in the API server
  watch,         \* versions the informer has not delivered yet
  cache,         \* the informer's copy, read by Client.Get
  service,       \* the Services, as the manager's cache shows them
  slice,         \* the EndpointSlices, likewise
  svcEventChan,  \* Services on their way through svcEventChan
  mcsEventChan,  \* MCSs on their way through mcsEventChan
  queue,         \* the work queue (a set: Adds of a queued key merge)
  pc,            \* pc[n]: next call of the reconcile of n
  mcs,           \* mcs[n]: the reconciler's copy of n
  fresh,         \* fresh[n]: that copy has the live resource version
  newStatus,     \* newStatus[n]: status updateMCSStatus writes
  tries,         \* tries[n]: attempts it has made
  lb             \* the cloud's load balancers

apiVars == <<store, watch, cache>>
backendVars == <<service, slice>>
chanVars == <<svcEventChan, mcsEventChan>>
workVars == <<pc, mcs, fresh, newStatus, tries>>
vars == <<apiVars, backendVars, chanVars, queue, workVars, lb>>

Steps == {"idle", "addFinalizer", "getLB", "ensure", "update", "status",
          "getForDelete", "ensureDeleted", "removeFinalizer"}

TypeOK ==
  /\ store \in [Names -> MCS \cup {NotFound}]
  /\ watch \in [Names -> Seq(MCS \cup {NotFound})]
  /\ cache \in [Names -> MCS \cup {NotFound}]
  /\ service \in [Names -> SvcSpecs \cup {NotFound}]
  /\ slice \in Endpoints
  /\ svcEventChan \subseteq Names
  /\ mcsEventChan \subseteq Names
  /\ queue \subseteq Names
  /\ pc \in [Names -> Steps]
  /\ mcs \in [Names -> MCS \cup {NotFound}]
  /\ fresh \in [Names -> BOOLEAN]
  /\ newStatus \in [Names -> Statuses]
  /\ tries \in [Names -> 0 .. RetrySteps - 1]
  /\ lb \in [Names -> LB \cup {NoLB}]

Init ==
  /\ store = [n \in Names |-> NotFound]
  /\ watch = [n \in Names |-> <<>>]
  /\ cache = [n \in Names |-> NotFound]
  /\ service = [n \in Names |-> NotFound]
  /\ slice = [s \in Slices |-> NotFound]
  /\ svcEventChan = {} /\ mcsEventChan = {} /\ queue = {}
  /\ pc = [n \in Names |-> "idle"]
  /\ mcs = [n \in Names |-> NotFound]
  /\ fresh = [n \in Names |-> FALSE]
  /\ newStatus = [n \in Names |-> EmptyStatus]
  /\ tries = [n \in Names |-> 0]
  /\ lb = [n \in Names |-> NoLB]
-----------------------------------------------------------------------------
(***************************************************************************)
(* The API server (external), as Client.Update and Status().Update use it. *)
(***************************************************************************)

\* A write that changes the object makes a new version for the watchers.
Commit(n, obj) ==
  /\ store' = [store EXCEPT ![n] = obj]
  /\ watch' = IF obj = store[n] THEN watch
              ELSE [watch EXCEPT ![n] = Append(@, obj)]
  /\ UNCHANGED cache

UserWrites(n, obj) ==
  /\ Len(watch[n]) < MaxLag
  /\ Commit(n, obj)
  /\ fresh' = [fresh EXCEPT ![n] = FALSE]
  /\ UNCHANGED <<backendVars, chanVars, queue, pc, mcs, newStatus, tries, lb>>

CreateMCS(n) ==
  /\ store[n] = NotFound
  /\ \E t \in SUBSET ExposureTypes, c \in Cfgs, h \in Held :
       UserWrites(n, [types |-> t, cfg |-> c, deleting |-> FALSE,
                      finalizer |-> FALSE, held |-> h,
                      status |-> EmptyStatus])

\* An object marked for deletion still accepts changes of its spec.
EditMCS(n) ==
  /\ store[n] # NotFound
  /\ \E t \in SUBSET ExposureTypes, c \in Cfgs :
       /\ <<t, c>> # <<store[n].types, store[n].cfg>>
       /\ UserWrites(n, [store[n] EXCEPT !.types = t, !.cfg = c])

DeleteMCS(n) ==
  /\ store[n] # NotFound
  /\ ~store[n].deleting
  /\ UserWrites(n, IF store[n].finalizer \/ store[n].held
                   THEN [store[n] EXCEPT !.deleting = TRUE]
                   ELSE NotFound)

\* The other controllers take their finalizers off a deleted object.
ReleaseMCS(n) ==
  /\ store[n] # NotFound
  /\ store[n].deleting
  /\ store[n].held
  /\ UserWrites(n, IF store[n].finalizer
                   THEN [store[n] EXCEPT !.held = FALSE]
                   ELSE NotFound)
-----------------------------------------------------------------------------
(***************************************************************************)
(* Event handlers.                                                         *)
(***************************************************************************)

MCSContainLoadBalanceType(m) == LoadBalancer \in m.types

\* multiClusterServiceEventHandler.Create
EnqueuedOnCreate(new) == MCSContainLoadBalanceType(new)

\* Mutants: the handler forgets the deletion timestamp; it asks only the new
\* object for its type.
EnqueuedOnUpdate_NoDeletion(old, new) ==
  /\ MCSContainLoadBalanceType(old) \/ MCSContainLoadBalanceType(new)
  /\ old.cfg # new.cfg \/ old.types # new.types
EnqueuedOnUpdate_NewTypeOnly(old, new) ==
  /\ MCSContainLoadBalanceType(new)
  /\ old.cfg # new.cfg \/ old.types # new.types \/ old.deleting # new.deleting

\* multiClusterServiceEventHandler.Update
EnqueuedOnUpdate(old, new) ==
  /\ MCSContainLoadBalanceType(old) \/ MCSContainLoadBalanceType(new)
  /\ \/ old.cfg # new.cfg
     \/ old.types # new.types
     \/ old.deleting # new.deleting

\* The event of a cache that goes from old to new.  A Delete is ignored.
Enqueued(old, new) ==
  /\ new # NotFound
  /\ IF old = NotFound THEN EnqueuedOnCreate(new)
                       ELSE EnqueuedOnUpdate(old, new)

Observe(n, new) ==
  /\ cache' = [cache EXCEPT ![n] = new]
  /\ queue' = IF Enqueued(cache[n], new) THEN queue \cup {n} ELSE queue
  /\ UNCHANGED <<store, backendVars, chanVars, workVars, lb>>

\* The informer takes the next version of the watch.
Deliver(n) ==
  /\ watch[n] # <<>>
  /\ Observe(n, Head(watch[n]))
  /\ watch' = [watch EXCEPT ![n] = Tail(@)]

\* The watch broke: a new list replaces what was not delivered.
Relist(n) ==
  /\ Len(watch[n]) > 1
  /\ Observe(n, store[n])
  /\ watch' = [watch EXCEPT ![n] = <<>>]

\* serviceEventHandler.enqueueImpactedMCS: the MCS has the Service's name.
enqueueImpactedMCS(n) == mcsEventChan' = mcsEventChan \cup {n}

\* A Service is created, changed or deleted.  An update of neither its
\* annotations nor its spec changes nothing here and is dropped.
ServiceEvent(n) ==
  /\ \E v \in (SvcSpecs \cup {NotFound}) \ {service[n]} :
       service' = [service EXCEPT ![n] = v]
  /\ enqueueImpactedMCS(n)
  /\ UNCHANGED <<apiVars, slice, svcEventChan, queue, workVars, lb>>

\* strings.TrimPrefix(svcName, "derived-"): the label "derived-x", like the
\* label "x", becomes x.
TrimPrefix(label) == label.base

\* Mutant: the prefix stays on, and no MCS has that name.
enqueueImpactedSvc_NoTrim(s) ==
  svcEventChan' = IF SliceLabel[s] = NoLabel \/ SliceLabel[s].derived
                  THEN svcEventChan ELSE svcEventChan \cup {SliceLabel[s].base}

\* endpointSlicesEventHandler.enqueueImpactedSvc
enqueueImpactedSvc(s) ==
  svcEventChan' = IF SliceLabel[s] = NoLabel THEN svcEventChan
                  ELSE svcEventChan \cup {TrimPrefix(SliceLabel[s])}

EndpointSliceEvent(s) ==
  /\ \E v \in (Contents \cup {NotFound}) \ {slice[s]} :
       slice' = [slice EXCEPT ![s] = v]
  /\ enqueueImpactedSvc(s)
  /\ UNCHANGED <<apiVars, service, mcsEventChan, queue, workVars, lb>>

\* serviceEventHandler.Generic, fed by svcEventChan
ServiceGeneric(n) ==
  /\ n \in svcEventChan
  /\ svcEventChan' = svcEventChan \ {n}
  /\ enqueueImpactedMCS(n)
  /\ UNCHANGED <<apiVars, backendVars, queue, workVars, lb>>

\* multiClusterServiceEventHandler.Generic, fed by mcsEventChan: no filter
MCSGeneric(n) ==
  /\ n \in mcsEventChan
  /\ mcsEventChan' = mcsEventChan \ {n}
  /\ queue' = queue \cup {n}
  /\ UNCHANGED <<apiVars, backendVars, svcEventChan, workVars, lb>>
-----------------------------------------------------------------------------
(***************************************************************************)
(* Reconcile.  pc[n] names the call the reconcile of n makes next.         *)
(***************************************************************************)

Goto(n, step) == pc' = [pc EXCEPT ![n] = step]

\* Reconcile returns: the copy is dropped.
Return(n) ==
  /\ Goto(n, "idle")
  /\ mcs' = [mcs EXCEPT ![n] = NotFound]
  /\ fresh' = [fresh EXCEPT ![n] = FALSE]
  /\ newStatus' = [newStatus EXCEPT ![n] = EmptyStatus]
  /\ tries' = [tries EXCEPT ![n] = 0]

Done(n) == Return(n) /\ UNCHANGED queue

\* An error comes back: the key is added again, after some delay.
Requeue(n) == Return(n) /\ queue' = queue \cup {n}

\* The actions below with a parameter ok make a call that takes effect; with
\* ok false its answer is an error all the same.
Answered(n, ok) == IF ok THEN Done(n) ELSE Requeue(n)

\* Mutant: the finalizer goes before the load balancer.
handleMCSDelete_FinalizerFirst(m) == "removeFinalizer"

\* First call of handleMCSDelete
handleMCSDelete(m) ==
  IF MCSContainLoadBalanceType(m) THEN "ensureDeleted" ELSE "getForDelete"

\* Mutant: a load balancer is made without a finalizer.
handleMCSCreateOrUpdate_NoFinalizer(m) == "getLB"

\* First call of handleMCSCreateOrUpdate: AddFinalizer updates only if needed
handleMCSCreateOrUpdate(m) ==
  IF m.finalizer THEN "getLB" ELSE "addFinalizer"

Dispatch(m) ==
  IF m.deleting \/ ~MCSContainLoadBalanceType(m)
  THEN handleMCSDelete(m)
  ELSE handleMCSCreateOrUpdate(m)

\* The one worker takes a key and reads the object from the cache.
Reconcile(n) ==
  /\ n \in queue
  /\ \A m \in Names : pc[m] = "idle"
  /\ queue' = queue \ {n}
  /\ IF cache[n] = NotFound
     THEN UNCHANGED <<pc, mcs, fresh>>
     ELSE /\ Goto(n, Dispatch(cache[n]))
          /\ mcs' = [mcs EXCEPT ![n] = cache[n]]
          /\ fresh' = [fresh EXCEPT ![n] = watch[n] = <<>>]
  /\ UNCHANGED <<apiVars, backendVars, chanVars, newStatus, tries, lb>>

\* A call fails without effect.
CallFails(n) ==
  /\ pc[n] # "idle"
  /\ Requeue(n)
  /\ UNCHANGED <<apiVars, backendVars, chanVars, lb>>

\* Client.Update of an object that is not at the live version: conflict,
\* or not found.
UpdateRejected(n) ==
  /\ pc[n] \in {"addFinalizer", "removeFinalizer"}
  /\ ~fresh[n]
  /\ Requeue(n)
  /\ UNCHANGED <<apiVars, backendVars, chanVars, lb>>

AddFinalizer(n, ok) ==
  /\ pc[n] = "addFinalizer"
  /\ fresh[n]
  /\ LET updated == [mcs[n] EXCEPT !.finalizer = TRUE] IN
       /\ Commit(n, updated)
       /\ IF ok THEN /\ Goto(n, "getLB")
                     /\ mcs' = [mcs EXCEPT ![n] = updated]
                     /\ UNCHANGED <<fresh, newStatus, tries, queue>>
                ELSE Requeue(n)
  /\ UNCHANGED <<backendVars, chanVars, lb>>

\* Mutant: the branches are swapped.
CreateOrUpdateStep_Swapped(exist) == IF exist THEN "ensure" ELSE "update"

\* GetMCSLoadBalancer chooses between handleMCSUpdate and handleMCSCreate.
CreateOrUpdateStep(exist) == IF exist THEN "update" ELSE "ensure"

GetMCSLoadBalancer(n) ==
  /\ pc[n] = "getLB"
  /\ Goto(n, CreateOrUpdateStep(lb[n] # NoLB))
  /\ UNCHANGED <<apiVars, backendVars, chanVars, queue, mcs, fresh,
                 newStatus, tries, lb>>

\* What the provider programs for n: the copy it is handed, and the Service
\* and its EndpointSlices.
Programmed(n, status) ==
  [cfg |-> mcs[n].cfg,
   svc |-> service[n],
   eps |-> [s \in Slices |->
              IF SliceLabel[s] # NoLabel /\ TrimPrefix(SliceLabel[s]) = n
              THEN slice[s] ELSE NotFound],
   status |-> status]

\* updateMCSStatus up to its first attempt: nothing to do for a nil status
\* or one the copy already has.
updateMCSStatus(n, status) ==
  IF status = NilStatus \/ status = mcs[n].status
  THEN Done(n)
  ELSE /\ Goto(n, "status")
       /\ newStatus' = [newStatus EXCEPT ![n] = status]
       /\ UNCHANGED <<mcs, fresh, tries, queue>>

\* EnsureMCSLoadBalancer of handleMCSCreate, UpdateMCSLoadBalancer of
\* handleMCSUpdate
CallProvider(n, step, ok) ==
  /\ pc[n] = step
  /\ \E status \in ProviderStatus[mcs[n].cfg] :
       /\ lb' = [lb EXCEPT ![n] = Programmed(n, status)]
       /\ IF ok THEN updateMCSStatus(n, status) ELSE Requeue(n)
  /\ UNCHANGED <<apiVars, backendVars, chanVars>>

handleMCSCreate(n, ok) == CallProvider(n, "ensure", ok)
handleMCSUpdate(n, ok) == CallProvider(n, "update", ok)

\* One attempt of updateMCSStatus that the API server accepts.
UpdateStatus(n, ok) ==
  /\ pc[n] = "status"
  /\ fresh[n]
  /\ Commit(n, [mcs[n] EXCEPT !.status = newStatus[n]])
  /\ Answered(n, ok)
  /\ UNCHANGED <<backendVars, chanVars, lb>>

\* retry.RetryOnConflict: only a conflict is tried again, RetrySteps times in
\* all.
Retriable_OneMore(n) == store[n] # NotFound /\ tries[n] < RetrySteps
Retriable(n) == store[n] # NotFound /\ tries[n] + 1 < RetrySteps

\* Mutant: the conflict is swallowed.
RetryStatus_Swallowed(n) ==
  /\ pc[n] = "status"
  /\ ~fresh[n]
  /\ Done(n)
  /\ UNCHANGED <<apiVars, backendVars, chanVars, lb>>

\* One attempt it rejects: the copy is read again from the cache.
RetryStatus(n) ==
  /\ pc[n] = "status"
  /\ ~fresh[n]
  /\ IF Retriable(n)
     THEN /\ tries' = [tries EXCEPT ![n] = @ + 1]
          /\ mcs' = IF cache[n] = NotFound THEN mcs
                    ELSE [mcs EXCEPT ![n] = cache[n]]
          /\ fresh' = [fresh EXCEPT
                         ![n] = cache[n] # NotFound /\ watch[n] = <<>>]
          /\ UNCHANGED <<pc, newStatus, queue>>
     ELSE Requeue(n)
  /\ UNCHANGED <<apiVars, backendVars, chanVars, lb>>

\* handleMCSDelete of an MCS without the LoadBalancer type: no load
\* balancer, nothing to do.
GetForDelete(n) ==
  /\ pc[n] = "getForDelete"
  /\ IF lb[n] # NoLB
     THEN /\ Goto(n, "ensureDeleted")
          /\ UNCHANGED <<queue, mcs, fresh, newStatus, tries>>
     ELSE Done(n)
  /\ UNCHANGED <<apiVars, backendVars, chanVars, lb>>

\* RemoveFinalizer updates only if the copy has the finalizer.
AfterDeleted(n) ==
  IF mcs[n].finalizer
  THEN /\ Goto(n, "removeFinalizer")
       /\ UNCHANGED <<queue, mcs, fresh, newStatus, tries>>
  ELSE Done(n)

EnsureMCSLoadBalancerDeleted(n, ok) ==
  /\ pc[n] = "ensureDeleted"
  /\ lb' = [lb EXCEPT ![n] = NoLB]
  /\ IF ok THEN AfterDeleted(n) ELSE Requeue(n)
  /\ UNCHANGED <<apiVars, backendVars, chanVars>>

\* Mutant: the finalizer is taken off by a patch that no version guards.
RemoveFinalizer_Patch(n, ok) ==
  /\ pc[n] = "removeFinalizer"
  /\ store[n] # NotFound
  /\ Commit(n, IF store[n].deleting /\ ~store[n].held THEN NotFound
               ELSE [store[n] EXCEPT !.finalizer = FALSE])
  /\ Answered(n, ok)
  /\ UNCHANGED <<backendVars, chanVars, lb>>

\* An object marked for deletion goes with its last finalizer.
RemoveFinalizer(n, ok) ==
  /\ pc[n] = "removeFinalizer"
  /\ fresh[n]
  /\ Commit(n, IF mcs[n].deleting /\ ~mcs[n].held THEN NotFound
               ELSE [mcs[n] EXCEPT !.finalizer = FALSE])
  /\ Answered(n, ok)
  /\ UNCHANGED <<backendVars, chanVars, lb>>

\* The process dies, or loses its lease and exits, and a new one starts: its
\* informers list every object and report it as created before the worker
\* starts.
Restart ==
  /\ cache' = store
  /\ watch' = [n \in Names |-> <<>>]
  /\ mcsEventChan' = {n \in Names : service[n] # NotFound}
  /\ svcEventChan' = {TrimPrefix(SliceLabel[s]) :
                        s \in {r \in Slices : /\ slice[r] # NotFound
                                              /\ SliceLabel[r] # NoLabel}}
  /\ queue' = {n \in Names : Enqueued(NotFound, store[n])}
  /\ pc' = [n \in Names |-> "idle"]
  /\ mcs' = [n \in Names |-> NotFound]
  /\ fresh' = [n \in Names |-> FALSE]
  /\ newStatus' = [n \in Names |-> EmptyStatus]
  /\ tries' = [n \in Names |-> 0]
  /\ UNCHANGED <<store, backendVars, lb>>

-----------------------------------------------------------------------------
UserStep(n) == CreateMCS(n) \/ EditMCS(n) \/ DeleteMCS(n) \/ ReleaseMCS(n)

BackendStep == (\E n \in Names : ServiceEvent(n))
               \/ (\E s \in Slices : EndpointSliceEvent(s))

HandlerStep(n) == Deliver(n) \/ ServiceGeneric(n) \/ MCSGeneric(n)

\* A step of the reconciler in which no call fails that could succeed.
WorkStep(n) ==
  \/ Reconcile(n)
  \/ UpdateRejected(n)
  \/ AddFinalizer(n, TRUE)
  \/ GetMCSLoadBalancer(n)
  \/ handleMCSCreate(n, TRUE)
  \/ handleMCSUpdate(n, TRUE)
  \/ UpdateStatus(n, TRUE)
  \/ RetryStatus(n)
  \/ GetForDelete(n)
  \/ EnsureMCSLoadBalancerDeleted(n, TRUE)
  \/ RemoveFinalizer(n, TRUE)

\* A call fails, with or without effect, or the informer loses its watch.
FaultStep(n) ==
  \/ CallFails(n)
  \/ AddFinalizer(n, FALSE)
  \/ handleMCSCreate(n, FALSE)
  \/ handleMCSUpdate(n, FALSE)
  \/ UpdateStatus(n, FALSE)
  \/ EnsureMCSLoadBalancerDeleted(n, FALSE)
  \/ RemoveFinalizer(n, FALSE)
  \/ Relist(n)

Next ==
  \/ \E n \in Names : UserStep(n) \/ HandlerStep(n) \/ WorkStep(n)
                      \/ FaultStep(n)
  \/ BackendStep
  \/ Restart

Spec == Init /\ [][Next]_vars

-----------------------------------------------------------------------------
(***************************************************************************)
(* Properties.                                                             *)
(***************************************************************************)

Guarded(n) == store[n] # NotFound /\ store[n].finalizer

Unwanted(m) == m.deleting \/ ~MCSContainLoadBalanceType(m)

\* A load balancer exists only while its MultiClusterService does, with the
\* finalizer on it: "to ensure MCSLoadBalancer is deleted before itself is
\* deleted" (mcs_controller.go:30).  Stale reads, lost answers and restarts
\* included, no load balancer outlives the object that pays for it.
NoOrphanedLB == \A n \in Names : lb[n] # NoLB => Guarded(n)

\* Between GetMCSLoadBalancer and the call it selects nothing changes what
\* exists: create is never called for a load balancer that exists, update
\* never for one that does not (the errors of fake.go:177 and fake.go:201).
ProviderCallsFit ==
  \A n \in Names : /\ pc[n] = "ensure" => lb[n] = NoLB
                   /\ pc[n] = "update" => lb[n] # NoLB

\* The finalizer leaves only an object that, in the API server and not just
\* in the cache, is being deleted or no longer wants a load balancer.
FinalizerLeavesUnwanted ==
  [][\A n \in Names :
       Guarded(n) /\ ~Guarded(n)' =>
         Unwanted(store[n])]_vars

\* A version of an MCS from which Reconcile goes on to the provider without
\* writing a finalizer first.
Licence(m) == m # NotFound /\ m.finalizer /\ ~Unwanted(m)

\* The newest version is the last one the informer will see.
Coherent(n) ==
  store[n] = IF watch[n] = <<>> THEN cache[n] ELSE watch[n][Len(watch[n])]

\* No version that is still to be read licenses a load balancer that the
\* finalizer in the API server no longer guards.
NoStaleLicence(n) ==
  ~Guarded(n) => /\ ~Licence(cache[n])
                 /\ \A i \in 1 .. Len(watch[n]) : ~Licence(watch[n][i])

\* What the reconcile of n may rely on at each of its calls.
AtStep(n) ==
  /\ pc[n] # "idle" => mcs[n] # NotFound
  /\ fresh[n] => pc[n] # "idle" /\ mcs[n] = store[n]
  /\ pc[n] \in {"getLB", "ensure", "update", "status"} => Guarded(n)
  /\ pc[n] \in {"getForDelete", "ensureDeleted", "removeFinalizer"} =>
       Unwanted(mcs[n]) /\ (fresh[n] => watch[n] = <<>>)
  /\ pc[n] = "removeFinalizer" => lb[n] = NoLB

\* The inductive invariant behind the properties above: TypeOK and, for each
\* n, why the finalizer is there when a load balancer is made and not needed
\* when it goes, however old the copy is that the reconciler acts on.
SafeAt(n) ==
  /\ Coherent(n)
  /\ NoStaleLicence(n)
  /\ AtStep(n)
  /\ lb[n] # NoLB => Guarded(n)
  /\ pc[n] = "ensure" => lb[n] = NoLB
  /\ pc[n] = "update" => lb[n] # NoLB

IInv == TypeOK /\ \A n \in Names : SafeAt(n)

\* Object and load balancer seen as in LBLifecycle; "leaked" is no phase of it.
phase ==
  [n \in Names |->
     IF lb[n] # NoLB
     THEN IF Guarded(n) THEN "provisioned" ELSE "leaked"
     ELSE IF store[n] = NotFound THEN "absent"
     ELSE IF Guarded(n) THEN "guarded" ELSE "bare"]

Lifecycle == INSTANCE LBLifecycle WITH phase <- phase

\* The controller keeps the promise of LBLifecycle: the finalizer goes on
\* before a load balancer is made and off after it is gone, step by step.
ImplementsLifecycle == Lifecycle!Spec
=============================================================================
