---------------------------- MODULE MCIController ----------------------------
(***************************************************************************)
(* The MultiClusterIngress controller: its event handlers, the match of    *)
(* ingress classes, its work queue and Reconcile, one action per call that *)
(* leaves the process.  store, watch, cache and fresh are those of         *)
(* MCSController.  What is different here: the handlers ask whether the    *)
(* class of an MCI is served, the finalizer goes on by a merge patch, and  *)
(* each reconcile also writes status.trafficBlockClusters.                 *)
(***************************************************************************)
EXTENDS Naturals, Sequences, FiniteSets

CONSTANTS
  Names,             \* MultiClusterIngresses
  Classes,           \* IngressClasses
  NilClass,          \* spec.ingressClassName of an MCI that has none
  MCIClasses,        \* the ones that MCIs may name, NilClass among them or not
  ProviderClassName, \* the controller name that this provider serves
  OtherController,   \* any other controller name
  InitIngClasses,    \* the IngressClasses there may be at the start
  IngClassChanges,   \* may they change later?
  Cfgs,              \* annotations and spec of an MCI, its class apart
  OthersHold,        \* may others put finalizers on an MCI?
  Services, ServiceRefs,  \* ServiceRefs[c]: backends of configuration c
  Secrets, SecretRefs,    \* SecretRefs[c]: TLS secrets of configuration c
  Versions,          \* annotations and spec or data of Services and Secrets
  Slices, SliceLabel, NoLabel,  \* as in MCSController
  Clusters,          \* member clusters
  Statuses, EmptyStatus, NilStatus,  \* as in MCSController
  NotFound, NoLB,
  ProviderStatus,    \* what the provider may answer
  RetrySteps,        \* attempts of retry.RetryOnConflict (DefaultRetry: 5)
  MaxLag,            \* bound: others do not write n while MaxLag events wait
  Paced              \* do clusters stay, and change between reconciles only,
                     \* and MCIs too when that concerns a blocked cluster?

\* status.serviceLocations: the clusters of each backend that has any binding
Locations == UNION {[S -> SUBSET Clusters] : S \in SUBSET Services}

MCI == [class : MCIClasses, cfg : Cfgs, deleting : BOOLEAN,
        finalizer : BOOLEAN, held : BOOLEAN, locations : Locations,
        block : SUBSET Clusters, status : Statuses]
IngClass == [controller : {ProviderClassName, OtherController},
             default : BOOLEAN]
Labels == [derived : BOOLEAN, base : Services]
LB == [cfg : Cfgs, block : SUBSET Clusters,
       svc : [Services -> Versions \cup {NotFound}],
       sec : [Secrets -> Versions \cup {NotFound}],
       eps : [Slices -> Versions \cup {NotFound}]]

ASSUME ConstantsAssumption ==
  /\ NilClass \notin Classes /\ MCIClasses \subseteq Classes \cup {NilClass}
  /\ ProviderClassName # OtherController
  /\ InitIngClasses \subseteq [Classes -> IngClass \cup {NotFound}]
  /\ IngClassChanges \in BOOLEAN /\ Paced \in BOOLEAN
  /\ OthersHold \in BOOLEAN
  /\ ServiceRefs \in [Cfgs -> SUBSET Services]
  /\ SecretRefs \in [Cfgs -> SUBSET Secrets]
  /\ NoLabel \notin Labels
  /\ SliceLabel \in [Slices -> Labels \cup {NoLabel}]
  /\ NotFound \notin MCI \cup IngClass \cup Versions
  /\ NoLB \notin LB
  /\ EmptyStatus \in Statuses /\ NilStatus \notin Statuses
  /\ ProviderStatus \subseteq Statuses \cup {NilStatus}
  /\ RetrySteps \in Nat \ {0} /\ MaxLag \in Nat \ {0}

VARIABLES
  store, watch, cache,     \* the MCIs in the API server, and the informer
  ingClass,                \* IngressClasses
  service, secret, slice,  \* backends, as the manager's cache shows them
  cluster,                 \* "absent", "clean" or "blocked" by TrafficControl
  svcEventChan,            \* Services on their way through svcEventChan
  mciEventChan,            \* <<MCI, its class when listed>> in mciEventChan
  queue,                   \* the work queue
  pc,                      \* next call of the reconcile of n
  mci, fresh,              \* the reconciler's copy; has it the live version?
  retried, retriedFresh,   \* the copy a retry has read again, or NotFound
  newBlock, newStatus,     \* what the two status updates are to write
  tries,                   \* attempts of the one under way
  lb                       \* the cloud's load balancers

apiVars == <<store, watch, cache>>
backendVars == <<ingClass, service, secret, slice, cluster>>
chanVars == <<svcEventChan, mciEventChan>>
retryVars == <<retried, retriedFresh, newBlock, newStatus, tries>>
workVars == <<pc, mci, fresh, retryVars>>
vars == <<apiVars, backendVars, chanVars, queue, workVars, lb>>

Steps == {"idle", "addFinalizer", "listClusters", "block", "getLB", "ensure",
          "update", "status", "ensureDeleted", "removeFinalizer"}

TypeOK ==
  /\ store \in [Names -> MCI \cup {NotFound}]
  /\ watch \in [Names -> Seq(MCI \cup {NotFound})]
  /\ cache \in [Names -> MCI \cup {NotFound}]
  /\ ingClass \in [Classes -> IngClass \cup {NotFound}]
  /\ service \in [Services -> Versions \cup {NotFound}]
  /\ secret \in [Secrets -> Versions \cup {NotFound}]
  /\ slice \in [Slices -> Versions \cup {NotFound}]
  /\ cluster \in [Clusters -> {"absent", "clean", "blocked"}]
  /\ svcEventChan \subseteq Services
  /\ mciEventChan \subseteq Names \X MCIClasses
  /\ queue \subseteq Names
  /\ pc \in [Names -> Steps]
  /\ mci \in [Names -> MCI \cup {NotFound}] /\ fresh \in [Names -> BOOLEAN]
  /\ retried \in [Names -> MCI \cup {NotFound}]
  /\ retriedFresh \in [Names -> BOOLEAN]
  /\ newBlock \in [Names -> SUBSET Clusters]
  /\ newStatus \in [Names -> Statuses]
  /\ tries \in [Names -> 0 .. RetrySteps - 1]
  /\ lb \in [Names -> LB \cup {NoLB}]

Init ==
  /\ store = [n \in Names |-> NotFound]
  /\ watch = [n \in Names |-> <<>>]
  /\ cache = [n \in Names |-> NotFound]
  /\ ingClass \in InitIngClasses
  /\ service = [s \in Services |-> NotFound]
  /\ secret = [s \in Secrets |-> NotFound]
  /\ slice = [s \in Slices |-> NotFound]
  /\ cluster = [c \in Clusters |-> "clean"]
  /\ svcEventChan = {} /\ mciEventChan = {} /\ queue = {}
  /\ pc = [n \in Names |-> "idle"]
  /\ mci = [n \in Names |-> NotFound] /\ fresh = [n \in Names |-> FALSE]
  /\ retried = [n \in Names |-> NotFound]
  /\ retriedFresh = [n \in Names |-> FALSE]
  /\ newBlock = [n \in Names |-> {}]
  /\ newStatus = [n \in Names |-> EmptyStatus]
  /\ tries = [n \in Names |-> 0]
  /\ lb = [n \in Names |-> NoLB]
-----------------------------------------------------------------------------
(***************************************************************************)
(* The API server (external): users and other controllers write an MCI.    *)
(***************************************************************************)

Commit(n, obj) ==
  /\ store' = [store EXCEPT ![n] = obj]
  /\ watch' = IF obj = store[n] THEN watch
              ELSE [watch EXCEPT ![n] = Append(@, obj)]
  /\ UNCHANGED cache

\* No copy of n has the live version any more.
Outdate(n) ==
  /\ fresh' = [fresh EXCEPT ![n] = FALSE]
  /\ retriedFresh' = [retriedFresh EXCEPT ![n] = FALSE]

OthersWrite(n, obj) ==
  /\ Len(watch[n]) < MaxLag
  /\ Commit(n, obj)
  /\ Outdate(n)
  /\ UNCHANGED <<backendVars, chanVars, queue, pc, mci, retried, newBlock,
                 newStatus, tries, lb>>

\* No reconcile of n is under way, and the cache is up to date.
Quiet(n) == watch[n] = <<>> /\ pc[n] = "idle"

CreateMCI(n) ==
  /\ store[n] = NotFound
  /\ Paced => Quiet(n)
  /\ \E k \in MCIClasses, c \in Cfgs :
       OthersWrite(n, [class |-> k, cfg |-> c, deleting |-> FALSE,
                       finalizer |-> FALSE, held |-> FALSE,
                       locations |-> [s \in {} |-> {}], block |-> {},
                       status |-> EmptyStatus])

EditMCI(n) ==
  /\ store[n] # NotFound
  /\ \E k \in MCIClasses, c \in Cfgs :
       /\ <<k, c>> # <<store[n].class, store[n].cfg>>
       /\ OthersWrite(n, [store[n] EXCEPT !.class = k, !.cfg = c])

DeleteMCI(n) ==
  /\ store[n] # NotFound
  /\ ~store[n].deleting
  /\ OthersWrite(n, IF store[n].finalizer \/ store[n].held
                    THEN [store[n] EXCEPT !.deleting = TRUE]
                    ELSE NotFound)

\* Another controller puts its finalizer on, and takes it off in the end.
HoldMCI(n) ==
  /\ OthersHold
  /\ store[n] # NotFound
  /\ ~store[n].deleting /\ ~store[n].held
  /\ OthersWrite(n, [store[n] EXCEPT !.held = TRUE])

ReleaseMCI(n) ==
  /\ store[n] # NotFound
  /\ store[n].deleting /\ store[n].held
  /\ OthersWrite(n, IF store[n].finalizer
                    THEN [store[n] EXCEPT !.held = FALSE]
                    ELSE NotFound)

Blocked == {c \in Clusters : cluster[c] = "blocked"}

Located(locations) == UNION {locations[s] : s \in DOMAIN locations}

\* The service locations controller writes status.serviceLocations
\* (MCIServiceLocations; MCIStatus composes the two).
LocateServices(n) ==
  /\ store[n] # NotFound
  /\ \E l \in Locations \ {store[n].locations} :
       /\ Paced => Located(l) \cap Blocked
                    = Located(store[n].locations) \cap Blocked
       /\ OthersWrite(n, [store[n] EXCEPT !.locations = l])
-----------------------------------------------------------------------------
(***************************************************************************)
(* Event handlers.                                                         *)
(***************************************************************************)

\* GetDefaultIngressClass: NilClass stands for the empty name it returns when
\* there is no default class, and for the error when there are several.
GetDefaultIngressClass ==
  LET defaults == {k \in Classes : ingClass[k] # NotFound /\ ingClass[k].default}
  IN  IF Cardinality(defaults) = 1 THEN CHOOSE k \in defaults : TRUE
                                   ELSE NilClass

\* CheckIngressClassMatched of an MCI whose ingressClassName is class
CheckIngressClassMatched(class) ==
  LET k == IF class = NilClass THEN GetDefaultIngressClass ELSE class
  IN  /\ k # NilClass
      /\ ingClass[k] # NotFound
      /\ ingClass[k].controller = ProviderClassName

\* Mutant: the handler forgets the deletion timestamp.
EnqueuedOnUpdate_NoDeletion(old, new) ==
  /\ CheckIngressClassMatched(new.class)
  /\ old.cfg # new.cfg \/ old.class # new.class

\* multiClusterIngressEventHandler.Update: only the class of the new object
\* counts.
EnqueuedOnUpdate(old, new) ==
  /\ CheckIngressClassMatched(new.class)
  /\ \/ old.cfg # new.cfg
     \/ old.class # new.class
     \/ old.deleting # new.deleting

\* The event of a cache that goes from old to new.  A Delete is ignored.
Enqueued(old, new) ==
  /\ new # NotFound
  /\ IF old = NotFound THEN CheckIngressClassMatched(new.class)
                       ELSE EnqueuedOnUpdate(old, new)

Observe(n, new) ==
  /\ cache' = [cache EXCEPT ![n] = new]
  /\ queue' = IF Enqueued(cache[n], new) THEN queue \cup {n} ELSE queue
  /\ UNCHANGED <<store, backendVars, chanVars, workVars, lb>>

Deliver(n) ==
  /\ watch[n] # <<>>
  /\ Observe(n, Head(watch[n]))
  /\ watch' = [watch EXCEPT ![n] = Tail(@)]

Relist(n) ==
  /\ Len(watch[n]) > 1
  /\ Observe(n, store[n])
  /\ watch' = [watch EXCEPT ![n] = <<>>]

\* multiClusterIngressEventHandler.Generic, fed by mciEventChan
MCIGeneric(n) ==
  /\ \E e \in mciEventChan :
       /\ e[1] = n
       /\ mciEventChan' = mciEventChan \ {e}
       /\ queue' = IF CheckIngressClassMatched(e[2]) THEN queue \cup {n}
                                                     ELSE queue
  /\ UNCHANGED <<apiVars, backendVars, svcEventChan, workVars, lb>>

\* Sends the listed MCIs into mciEventChan.
Notify(listed) ==
  mciEventChan' = mciEventChan \cup {<<n, cache[n].class>> : n \in listed}

Cached == {n \in Names : cache[n] # NotFound}

\* The index of an MCI by its backends, BuildServiceRefIndexes
ReferTo(s) == {n \in Cached : s \in ServiceRefs[cache[n].cfg]}

\* The index of an MCI by its secrets, BuildSecretRefIndexes
ReferToSecret(s) == {n \in Cached : s \in SecretRefs[cache[n].cfg]}

\* A Service is created, changed or deleted: serviceEventHandler.
ServiceEvent(s) ==
  /\ \E v \in (Versions \cup {NotFound}) \ {service[s]} :
       service' = [service EXCEPT ![s] = v]
  /\ Notify(ReferTo(s))
  /\ UNCHANGED <<apiVars, ingClass, secret, slice, cluster, svcEventChan,
                 queue, workVars, lb>>

\* serviceEventHandler.Generic, fed by svcEventChan
ServiceGeneric(s) ==
  /\ s \in svcEventChan
  /\ svcEventChan' = svcEventChan \ {s}
  /\ Notify(ReferTo(s))
  /\ UNCHANGED <<apiVars, backendVars, queue, workVars, lb>>

SecretEvent(s) ==
  /\ \E v \in (Versions \cup {NotFound}) \ {secret[s]} :
       secret' = [secret EXCEPT ![s] = v]
  /\ Notify(ReferToSecret(s))
  /\ UNCHANGED <<apiVars, ingClass, service, slice, cluster, svcEventChan,
                 queue, workVars, lb>>

\* strings.TrimPrefix(svcName, "derived-")
TrimPrefix(label) == label.base

\* Mutant: the prefix stays on, and no Service has that name.
enqueueImpactedSvc_NoTrim(s) ==
  svcEventChan' = IF SliceLabel[s] = NoLabel \/ SliceLabel[s].derived
                  THEN svcEventChan ELSE svcEventChan \cup {SliceLabel[s].base}

\* endpointSlicesEventHandler.enqueueImpactedSvc
enqueueImpactedSvc(s) ==
  svcEventChan' = IF SliceLabel[s] = NoLabel THEN svcEventChan
                  ELSE svcEventChan \cup {TrimPrefix(SliceLabel[s])}

EndpointSliceEvent(s) ==
  /\ \E v \in (Versions \cup {NotFound}) \ {slice[s]} :
       slice' = [slice EXCEPT ![s] = v]
  /\ enqueueImpactedSvc(s)
  /\ UNCHANGED <<apiVars, ingClass, service, secret, cluster, mciEventChan,
                 queue, workVars, lb>>

mciSvcLocationsContainsCluster(n, c) == c \in Located(cache[n].locations)

\* Mutant: only a new TrafficControl action is looked for.
NotifiedByCluster_OnlyBlocked(old, new) == old = "clean" /\ new = "blocked"

\* clusterEventHandler: Create and Delete are ignored, and so is an Update
\* that leaves the TrafficControl action as it is.
NotifiedByCluster(old, new) ==
  "absent" \notin {old, new} /\ (old = "blocked") # (new = "blocked")

ClusterEvent(c) ==
  /\ \E v \in {"absent", "clean", "blocked"} \ {cluster[c]} :
       /\ Paced => v # "absent" /\ \A n \in Names : Quiet(n)
       /\ cluster' = [cluster EXCEPT ![c] = v]
       /\ Notify(IF NotifiedByCluster(cluster[c], v)
                 THEN {n \in Cached : mciSvcLocationsContainsCluster(n, c)}
                 ELSE {})
  /\ UNCHANGED <<apiVars, ingClass, service, secret, slice, svcEventChan,
                 queue, workVars, lb>>

\* Nobody watches IngressClasses.
IngressClassEvent(k) ==
  /\ IngClassChanges
  /\ \E v \in (IngClass \cup {NotFound}) \ {ingClass[k]} :
       ingClass' = [ingClass EXCEPT ![k] = v]
  /\ UNCHANGED <<apiVars, service, secret, slice, cluster, chanVars, queue,
                 workVars, lb>>
-----------------------------------------------------------------------------
(***************************************************************************)
(* Reconcile.  pc[n] names the call the reconcile of n makes next.         *)
(***************************************************************************)

Goto(n, step) == pc' = [pc EXCEPT ![n] = step]

\* What the two retry loops keep is dropped.
EndRetry(n) ==
  /\ retried' = [retried EXCEPT ![n] = NotFound]
  /\ retriedFresh' = [retriedFresh EXCEPT ![n] = FALSE]
  /\ newBlock' = [newBlock EXCEPT ![n] = {}]
  /\ newStatus' = [newStatus EXCEPT ![n] = EmptyStatus]
  /\ tries' = [tries EXCEPT ![n] = 0]

\* Reconcile returns: the copies are dropped.
Return(n) ==
  /\ Goto(n, "idle")
  /\ mci' = [mci EXCEPT ![n] = NotFound]
  /\ fresh' = [fresh EXCEPT ![n] = FALSE]
  /\ EndRetry(n)

Done(n) == Return(n) /\ UNCHANGED queue

\* An error comes back: the key is added again, after some delay.
Requeue(n) == Return(n) /\ queue' = queue \cup {n}

\* As in MCSController, a call with ok false takes effect and fails.
Answered(n, ok) == IF ok THEN Done(n) ELSE Requeue(n)

\* Mutant: the finalizer goes before the load balancer.
handleMCIDelete_FinalizerFirst(m) == "removeFinalizer"

\* First call of handleMCIDelete
handleMCIDelete(m) == "ensureDeleted"

\* Mutant: a load balancer is made without a finalizer.
handleMCICreateOrUpdate_NoFinalizer(m) == "listClusters"

\* First call of handleMCICreateOrUpdate
handleMCICreateOrUpdate(m) ==
  IF m.finalizer THEN "listClusters" ELSE "addFinalizer"

\* The one worker takes a key and reads the object from the cache.  The class
\* of the MCI is not looked at again.
Reconcile(n) ==
  /\ n \in queue
  /\ \A m \in Names : pc[m] = "idle"
  /\ queue' = queue \ {n}
  /\ IF cache[n] = NotFound
     THEN UNCHANGED <<pc, mci, fresh>>
     ELSE /\ Goto(n, IF cache[n].deleting
                     THEN handleMCIDelete(cache[n])
                     ELSE handleMCICreateOrUpdate(cache[n]))
          /\ mci' = [mci EXCEPT ![n] = cache[n]]
          /\ fresh' = [fresh EXCEPT ![n] = watch[n] = <<>>]
  /\ UNCHANGED <<apiVars, backendVars, chanVars, retryVars, lb>>

\* A call fails without effect.
CallFails(n) ==
  /\ pc[n] # "idle"
  /\ Requeue(n)
  /\ UNCHANGED <<apiVars, backendVars, chanVars, lb>>

\* The merge patch carries the finalizers of the copy and this controller's,
\* as one list that replaces the one in the API server, and no version.  The
\* API server (external) lets an object marked for deletion get no new ones.
PatchAllowed(n) ==
  /\ store[n] # NotFound
  /\ store[n].deleting =>
       store[n].finalizer /\ (mci[n].held => store[n].held)

\* Client.Patch of handleMCICreateOrUpdate.  The patched object is another
\* copy: the reconciler goes on with its own, whose version is now old.
AddFinalizer(n, ok) ==
  /\ pc[n] = "addFinalizer"
  /\ PatchAllowed(n)
  /\ Commit(n, [store[n] EXCEPT !.finalizer = TRUE, !.held = mci[n].held])
  /\ IF ok THEN /\ Goto(n, "listClusters")
                /\ fresh' = [fresh EXCEPT ![n] = FALSE]
                /\ UNCHANGED <<mci, retryVars, queue>>
           ELSE Requeue(n)
  /\ UNCHANGED <<backendVars, chanVars, lb>>

PatchRejected(n) ==
  /\ pc[n] = "addFinalizer"
  /\ ~PatchAllowed(n)
  /\ Requeue(n)
  /\ UNCHANGED <<apiVars, backendVars, chanVars, lb>>

\* updateMCITrafficBlockClusters up to the first attempt of its update, which
\* writes the new list into the reconciler's own copy.
ListClusters(n) ==
  /\ pc[n] = "listClusters"
  /\ LET block == Located(mci[n].locations) \cap Blocked IN
       /\ mci' = [mci EXCEPT ![n].block = block]
       /\ IF block = mci[n].block
          THEN Goto(n, "getLB") /\ UNCHANGED newBlock
          ELSE Goto(n, "block") /\ newBlock' = [newBlock EXCEPT ![n] = block]
  /\ UNCHANGED <<apiVars, backendVars, chanVars, queue, fresh, retried,
                 retriedFresh, newStatus, tries, lb>>

\* Mutant: the copy that is written lacks a version.
AttemptFresh_NoVersion(n) == store[n] # NotFound

\* Has the copy that the next attempt writes the live version?
AttemptFresh(n) == IF retried[n] = NotFound THEN fresh[n] ELSE retriedFresh[n]

AttemptCopy(n) == IF retried[n] = NotFound THEN mci[n] ELSE retried[n]

\* One attempt of updateMCITrafficBlockClusters that the API server accepts.
\* A copy read again for it stays local to the loop.
UpdateBlock(n, ok) ==
  /\ pc[n] = "block"
  /\ AttemptFresh(n)
  /\ Commit(n, [AttemptCopy(n) EXCEPT !.block = newBlock[n]])
  /\ IF ok THEN /\ Goto(n, "getLB")
                /\ EndRetry(n)
                /\ UNCHANGED <<mci, fresh, queue>>
           ELSE Requeue(n)
  /\ UNCHANGED <<backendVars, chanVars, lb>>

\* retry.RetryOnConflict: only a conflict is tried again, RetrySteps times in
\* all.
Retriable_OneMore(n) == store[n] # NotFound /\ tries[n] < RetrySteps
Retriable(n) == store[n] # NotFound /\ tries[n] + 1 < RetrySteps

\* One attempt it rejects.  The loop ends when the cached copy has the new
\* list; also when there is none, since the copy of the attempt has it.
RetryBlock(n) ==
  /\ pc[n] = "block"
  /\ ~AttemptFresh(n)
  /\ IF ~Retriable(n) THEN Requeue(n)
     ELSE IF cache[n] = NotFound
     THEN Goto(n, "getLB") /\ EndRetry(n) /\ UNCHANGED <<mci, fresh, queue>>
     ELSE IF cache[n].block = newBlock[n]
     THEN Goto(n, "getLB") /\ EndRetry(n) /\ UNCHANGED <<mci, fresh, queue>>
     ELSE /\ tries' = [tries EXCEPT ![n] = @ + 1]
          /\ retried' = [retried EXCEPT ![n] = cache[n]]
          /\ retriedFresh' = [retriedFresh EXCEPT ![n] = watch[n] = <<>>]
          /\ UNCHANGED <<pc, mci, fresh, newBlock, newStatus, queue>>
  /\ UNCHANGED <<apiVars, backendVars, chanVars, lb>>

\* Mutant: the branches are swapped.
CreateOrUpdateStep_Swapped(exist) == IF exist THEN "ensure" ELSE "update"

\* GetLoadBalancer chooses between handleMCIUpdate and handleMCICreate.
CreateOrUpdateStep(exist) == IF exist THEN "update" ELSE "ensure"

GetLoadBalancer(n) ==
  /\ pc[n] = "getLB"
  /\ Goto(n, CreateOrUpdateStep(lb[n] # NoLB))
  /\ UNCHANGED <<apiVars, backendVars, chanVars, queue, mci, fresh, retryVars,
                 lb>>

\* What the provider programs for n: the copy it is handed, and the backends
\* and secrets that copy refers to.
Programmed(n) ==
  LET svcs == ServiceRefs[mci[n].cfg]
      secs == SecretRefs[mci[n].cfg]
  IN  [cfg |-> mci[n].cfg,
       block |-> mci[n].block,
       svc |-> [s \in Services |-> IF s \in svcs THEN service[s] ELSE NotFound],
       sec |-> [s \in Secrets |-> IF s \in secs THEN secret[s] ELSE NotFound],
       eps |-> [s \in Slices |->
                  IF SliceLabel[s] = NoLabel THEN NotFound
                  ELSE IF TrimPrefix(SliceLabel[s]) \in svcs THEN slice[s]
                  ELSE NotFound]]

\* updateMCIStatus up to its first attempt.  A nil status is dereferenced; the
\* panic is recovered around Reconcile and comes back as an error.
updateMCIStatus(n, status) ==
  IF status = NilStatus THEN Requeue(n)
  ELSE IF status = mci[n].status THEN Done(n)
  ELSE /\ Goto(n, "status")
       /\ newStatus' = [newStatus EXCEPT ![n] = status]
       /\ UNCHANGED <<mci, fresh, retried, retriedFresh, newBlock, tries,
                      queue>>

\* EnsureLoadBalancer of handleMCICreate, UpdateLoadBalancer of
\* handleMCIUpdate
CallProvider(n, step, ok) ==
  /\ pc[n] = step
  /\ lb' = [lb EXCEPT ![n] = Programmed(n)]
  /\ IF ok THEN \E status \in ProviderStatus : updateMCIStatus(n, status)
           ELSE Requeue(n)
  /\ UNCHANGED <<apiVars, backendVars, chanVars>>

handleMCICreate(n, ok) == CallProvider(n, "ensure", ok)
handleMCIUpdate(n, ok) == CallProvider(n, "update", ok)

\* One attempt of updateMCIStatus that the API server accepts.
UpdateStatus(n, ok) ==
  /\ pc[n] = "status"
  /\ fresh[n]
  /\ Commit(n, [mci[n] EXCEPT !.status = newStatus[n]])
  /\ Answered(n, ok)
  /\ UNCHANGED <<backendVars, chanVars, lb>>

\* Mutant: the conflict is swallowed.
RetryStatus_Swallowed(n) ==
  /\ pc[n] = "status"
  /\ ~fresh[n]
  /\ Done(n)
  /\ UNCHANGED <<apiVars, backendVars, chanVars, lb>>

\* One attempt it rejects: the copy is read again from the cache.
RetryStatus(n) ==
  /\ pc[n] = "status"
  /\ ~fresh[n]
  /\ IF Retriable(n)
     THEN /\ tries' = [tries EXCEPT ![n] = @ + 1]
          /\ mci' = IF cache[n] = NotFound THEN mci
                    ELSE [mci EXCEPT ![n] = cache[n]]
          /\ fresh' = [fresh EXCEPT
                         ![n] = cache[n] # NotFound /\ watch[n] = <<>>]
          /\ UNCHANGED <<pc, retried, retriedFresh, newBlock, newStatus, queue>>
     ELSE Requeue(n)
  /\ UNCHANGED <<apiVars, backendVars, chanVars, lb>>

EnsureLoadBalancerDeleted(n, ok) ==
  /\ pc[n] = "ensureDeleted"
  /\ lb' = [lb EXCEPT ![n] = NoLB]
  /\ IF ~ok THEN Requeue(n)
     ELSE IF mci[n].finalizer
     THEN Goto(n, "removeFinalizer") /\ UNCHANGED <<mci, fresh, retryVars, queue>>
     ELSE Done(n)
  /\ UNCHANGED <<apiVars, backendVars, chanVars>>

\* Mutant: the update carries no version.
RemoveFinalizer_NoVersion(n, ok) ==
  /\ pc[n] = "removeFinalizer" /\ store[n] # NotFound
  /\ Commit(n, IF mci[n].held THEN [mci[n] EXCEPT !.finalizer = FALSE]
                              ELSE NotFound)
  /\ Answered(n, ok)
  /\ UNCHANGED <<backendVars, chanVars, lb>>

\* Client.Update of handleMCIDelete.  The object goes with its last finalizer.
RemoveFinalizer(n, ok) ==
  /\ pc[n] = "removeFinalizer"
  /\ fresh[n]
  /\ Commit(n, IF mci[n].held THEN [mci[n] EXCEPT !.finalizer = FALSE]
                              ELSE NotFound)
  /\ Answered(n, ok)
  /\ UNCHANGED <<backendVars, chanVars, lb>>

UpdateRejected(n) ==
  /\ pc[n] = "removeFinalizer"
  /\ ~fresh[n]
  /\ Requeue(n)
  /\ UNCHANGED <<apiVars, backendVars, chanVars, lb>>

\* The process dies, or loses its lease and exits, and a new one starts: its
\* informers list every object and report it as created.
Restart ==
  /\ cache' = store
  /\ watch' = [n \in Names |-> <<>>]
  /\ mciEventChan' =
       {<<n, store[n].class>> : n \in
          {m \in Names :
             /\ store[m] # NotFound
             /\ \/ \E s \in ServiceRefs[store[m].cfg] : service[s] # NotFound
                \/ \E s \in SecretRefs[store[m].cfg] : secret[s] # NotFound}}
  /\ svcEventChan' = {TrimPrefix(SliceLabel[s]) :
                        s \in {r \in Slices : /\ slice[r] # NotFound
                                              /\ SliceLabel[r] # NoLabel}}
  /\ queue' = {n \in Names : Enqueued(NotFound, store[n])}
  /\ pc' = [n \in Names |-> "idle"]
  /\ mci' = [n \in Names |-> NotFound] /\ fresh' = [n \in Names |-> FALSE]
  /\ retried' = [n \in Names |-> NotFound]
  /\ retriedFresh' = [n \in Names |-> FALSE]
  /\ newBlock' = [n \in Names |-> {}]
  /\ newStatus' = [n \in Names |-> EmptyStatus]
  /\ tries' = [n \in Names |-> 0]
  /\ UNCHANGED <<store, backendVars, lb>>
-----------------------------------------------------------------------------
OthersStep(n) == \/ CreateMCI(n) \/ EditMCI(n) \/ DeleteMCI(n)
                 \/ HoldMCI(n) \/ ReleaseMCI(n) \/ LocateServices(n)

BackendStep ==
  \/ \E s \in Services : ServiceEvent(s)
  \/ \E s \in Secrets : SecretEvent(s)
  \/ \E s \in Slices : EndpointSliceEvent(s)
  \/ \E c \in Clusters : ClusterEvent(c)
  \/ \E k \in Classes : IngressClassEvent(k)

HandlerStep == \/ \E n \in Names : Deliver(n) \/ MCIGeneric(n)
               \/ \E s \in Services : ServiceGeneric(s)

\* A step of the reconciler in which no call fails that could succeed.
WorkStep(n) ==
  \/ Reconcile(n)
  \/ AddFinalizer(n, TRUE)
  \/ PatchRejected(n)
  \/ ListClusters(n)
  \/ UpdateBlock(n, TRUE)
  \/ RetryBlock(n)
  \/ GetLoadBalancer(n)
  \/ handleMCICreate(n, TRUE)
  \/ handleMCIUpdate(n, TRUE)
  \/ UpdateStatus(n, TRUE)
  \/ RetryStatus(n)
  \/ EnsureLoadBalancerDeleted(n, TRUE)
  \/ RemoveFinalizer(n, TRUE)
  \/ UpdateRejected(n)

\* A call fails, with or without effect.
FailedCall(n) ==
  \/ CallFails(n)
  \/ AddFinalizer(n, FALSE)
  \/ UpdateBlock(n, FALSE)
  \/ handleMCICreate(n, FALSE)
  \/ handleMCIUpdate(n, FALSE)
  \/ UpdateStatus(n, FALSE)
  \/ EnsureLoadBalancerDeleted(n, FALSE)
  \/ RemoveFinalizer(n, FALSE)

FaultStep(n) == FailedCall(n) \/ Relist(n)

Next ==
  \/ \E n \in Names : OthersStep(n) \/ WorkStep(n) \/ FaultStep(n)
  \/ HandlerStep
  \/ BackendStep
  \/ Restart

Spec == Init /\ [][Next]_vars
-----------------------------------------------------------------------------
(***************************************************************************)
(* Properties.                                                             *)
(***************************************************************************)

Guarded(n) == store[n] # NotFound /\ store[n].finalizer

\* A load balancer exists only while its MultiClusterIngress does, with the
\* finalizer on it, "to ensure LoadBalancer is deleted before itself is
\* deleted" (mci_controller.go:35): although the finalizer is patched without
\* a version, onto whatever object has the name by then.
NoOrphanedLB == \A n \in Names : lb[n] # NoLB => Guarded(n)

\* Between GetLoadBalancer and the call it selects nothing changes what
\* exists: create is never called for a load balancer that exists, update
\* never for one that does not (the error of fake.go:122).
ProviderCallsFit ==
  \A n \in Names : /\ pc[n] = "ensure" => lb[n] = NoLB
                   /\ pc[n] = "update" => lb[n] # NoLB

Held(m) == m # NotFound /\ m.held

\* A finalizer of another controller, and the object it holds, goes only when
\* that controller releases it; the one exception is the merge patch of
\* mci_controller.go:98, whose list of finalizers comes from a copy that is no
\* longer live.
ForeignFinalizersSurvive ==
  [][\A n \in Names :
       Held(store[n]) /\ ~Held(store'[n]) =>
         ReleaseMCI(n) \/ (pc[n] = "addFinalizer" /\ ~fresh[n])]_vars

\* A version from which Reconcile goes on to the provider without a patch.
Licence(m) == m # NotFound /\ m.finalizer /\ ~m.deleting

Coherent(n) ==
  store[n] = IF watch[n] = <<>> THEN cache[n] ELSE watch[n][Len(watch[n])]

NoStaleLicence(n) ==
  ~Guarded(n) => /\ ~Licence(cache[n])
                 /\ \A i \in 1 .. Len(watch[n]) : ~Licence(watch[n][i])

\* What the reconcile of n may rely on at each of its calls.  At "block" the
\* reconciler's copy already has the list that is still to be written.
AtStep(n) ==
  /\ pc[n] # "idle" => mci[n] # NotFound
  /\ fresh[n] => /\ pc[n] # "idle"
                 /\ store[n] # NotFound
                 /\ mci[n] = [store[n] EXCEPT !.block = mci[n].block]
                 /\ pc[n] # "block" => mci[n].block = store[n].block
  /\ pc[n] = "block" => mci[n].block = newBlock[n]
  /\ retried[n] # NotFound => pc[n] = "block" /\ ~fresh[n]
  /\ retriedFresh[n] => pc[n] = "block" /\ retried[n] = store[n]
  /\ pc[n] \in {"listClusters", "block", "getLB", "ensure", "update",
                "status"} => Guarded(n)
  /\ pc[n] \in {"ensureDeleted", "removeFinalizer"} =>
       mci[n].deleting /\ (fresh[n] => watch[n] = <<>>)
  /\ pc[n] = "removeFinalizer" => lb[n] = NoLB

SafeAt(n) ==
  /\ Coherent(n)
  /\ NoStaleLicence(n)
  /\ AtStep(n)
  /\ lb[n] # NoLB => Guarded(n)
  /\ pc[n] = "ensure" => lb[n] = NoLB
  /\ pc[n] = "update" => lb[n] # NoLB

\* The inductive invariant behind the safety properties.
IInv == TypeOK /\ \A n \in Names : SafeAt(n)

\* Object and load balancer seen as in LBLifecycle; "leaked" is no phase of it.
phase ==
  [n \in Names |->
     IF lb[n] # NoLB
     THEN IF Guarded(n) THEN "provisioned" ELSE "leaked"
     ELSE IF store[n] = NotFound THEN "absent"
     ELSE IF Guarded(n) THEN "guarded" ELSE "bare"]

Lifecycle == INSTANCE LBLifecycle WITH phase <- phase

\* The controller keeps the promise of LBLifecycle: the finalizer goes on
\* before a load balancer is made and off after it is gone, step by step.
ImplementsLifecycle == Lifecycle!Spec
=============================================================================
