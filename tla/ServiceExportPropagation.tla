---------------------- MODULE ServiceExportPropagation ----------------------
(***************************************************************************)
(* The ServiceExport propagation controller: for a Service that an MCI or  *)
(* an MCS with a load balancer needs it keeps a ServiceExport, and a       *)
(* PropagationPolicy with the clusters the Service is scheduled to.  Both  *)
(* belong to the Service, so that the garbage collector takes them when it *)
(* goes, and both are watched by nobody.                                   *)
(*                                                                         *)
(* MCIs, MCSs and ResourceBindings are shown as the manager's cache has    *)
(* them: the controller only reads them, and their handlers read nothing   *)
(* but the event.  The handler of Services reads the other caches, so the  *)
(* update of the cache and the call of that handler are separate steps.    *)
(***************************************************************************)
EXTENDS Naturals, Sequences

CONSTANTS
  Services,       \* names; MCS, ServiceExport and policy have the Service's
  MCIs,           \* MultiClusterIngresses
  MCIServed,      \* may the class of an MCI be ours (TRUE), another's (FALSE)?
  ExposureTypes, LoadBalancer,   \* as in MCSController
  Clusters,       \* member clusters
  Bindings,       \* specs that ResourceBindings of Services may have
  NotFound,       \* in place of an object that does not exist
  MaxUID,         \* bound on the incarnations of a Service
  MaxLag,         \* bound on waiting events of an object
  Assumes         \* what the informers and the garbage collector do in time

UIDs == 1 .. MaxUID
Svc == [uid : UIDs, deleting : BOOLEAN]
MCI == [served : MCIServed, refs : SUBSET Services]
RBSpec == [clusters : SUBSET Clusters, requiredBy : SUBSET Clusters]
Policy == [owner : UIDs, clusters : SUBSET Clusters]

ASSUME ConstantsAssumption ==
  /\ MCIServed \subseteq BOOLEAN
  /\ LoadBalancer \in ExposureTypes
  /\ Bindings \subseteq RBSpec
  /\ NotFound \notin Services \cup Svc \cup MCI \cup RBSpec \cup Policy
                        \cup UIDs
  /\ \A types \in SUBSET ExposureTypes : NotFound # types
  /\ MaxUID \in Nat \ {0} /\ MaxLag \in Nat \ {0}
  /\ Assumes \subseteq {"outputsCached", "garbageCollected",
                        "recreationSeen"}

VARIABLES
  service, svcWatch, svcCache,        \* Services: API server, informer
  incarnations,                       \* UIDs used up so far
  mci, mcs, rb,                       \* as the manager's cache shows them
  export, exportWatch, exportCache,   \* ServiceExports, by the UID of the owner
  policy, policyWatch, policyCache,   \* PropagationPolicies
  svcCreated,     \* Services in the cache whose Create handler is still to run
  svcEventChan,   \* Services on their way through svcEventChan
  queue,          \* the work queue
  pc, key,        \* next call of the one worker, and its Service
  owner,          \* UID of the worker's copy of the Service
  clusters,       \* the scheduled clusters it has read
  fresh           \* its copy of the policy has the live resource version

svcVars == <<service, svcWatch, svcCache, incarnations, svcCreated>>
refVars == <<mci, mcs, rb>>
exportVars == <<export, exportWatch, exportCache>>
policyVars == <<policy, policyWatch, policyCache>>
workVars == <<pc, key, owner, clusters, fresh>>
vars == <<svcVars, refVars, exportVars, policyVars, svcEventChan, queue,
          workVars>>

EnsureSteps == {"getExport", "createExport", "listBindings", "getPolicy",
                "createPolicy", "updatePolicy"}
RemoveSteps == {"getExportToDelete", "deleteExport", "getPolicyToDelete",
                "deletePolicy"}

TypeOK ==
  /\ service \in [Services -> Svc \cup {NotFound}]
  /\ svcWatch \in [Services -> Seq(Svc \cup {NotFound})]
  /\ svcCache \in [Services -> Svc \cup {NotFound}]
  /\ incarnations \in [Services -> 0 .. MaxUID]
  /\ mci \in [MCIs -> MCI \cup {NotFound}]
  /\ mcs \in [Services -> {NotFound} \cup SUBSET ExposureTypes]
  /\ rb \in [Services -> Bindings \cup {NotFound}]
  /\ export \in [Services -> UIDs \cup {NotFound}]
  /\ exportWatch \in [Services -> Seq(UIDs \cup {NotFound})]
  /\ exportCache \in [Services -> UIDs \cup {NotFound}]
  /\ policy \in [Services -> Policy \cup {NotFound}]
  /\ policyWatch \in [Services -> Seq(Policy \cup {NotFound})]
  /\ policyCache \in [Services -> Policy \cup {NotFound}]
  /\ svcCreated \subseteq Services
  /\ svcEventChan \subseteq Services
  /\ queue \subseteq Services
  /\ pc \in {"idle", "listMCIs", "getMCS"} \cup EnsureSteps \cup RemoveSteps
  /\ key \in Services \cup {NotFound}
  /\ owner \in UIDs \cup {NotFound}
  /\ clusters \subseteq Clusters
  /\ fresh \in BOOLEAN
  /\ pc # "idle" => key # NotFound /\ owner # NotFound

Nothing == [s \in Services |-> NotFound]
NoEvents == [s \in Services |-> <<>>]

Init ==
  /\ service = Nothing /\ svcWatch = NoEvents /\ svcCache = Nothing
  /\ incarnations = [s \in Services |-> 0]
  /\ mci = [i \in MCIs |-> NotFound] /\ mcs = Nothing /\ rb = Nothing
  /\ export = Nothing /\ exportWatch = NoEvents /\ exportCache = Nothing
  /\ policy = Nothing /\ policyWatch = NoEvents /\ policyCache = Nothing
  /\ svcCreated = {} /\ svcEventChan = {} /\ queue = {}
  /\ pc = "idle" /\ key = NotFound /\ owner = NotFound
  /\ clusters = {} /\ fresh = FALSE
-----------------------------------------------------------------------------
(***************************************************************************)
(* The API server and the garbage collector (external).                    *)
(***************************************************************************)

ServiceBecomes(s, obj) ==
  /\ Len(svcWatch[s]) < MaxLag
  /\ service' = [service EXCEPT ![s] = obj]
  /\ svcWatch' = [svcWatch EXCEPT ![s] = Append(@, obj)]
  /\ UNCHANGED <<svcCache, svcCreated, refVars, exportVars, policyVars,
                 svcEventChan, queue, workVars>>

CreateService(s) ==
  /\ service[s] = NotFound
  /\ incarnations[s] < MaxUID
  /\ incarnations' = [incarnations EXCEPT ![s] = @ + 1]
  /\ ServiceBecomes(s, [uid |-> incarnations[s] + 1, deleting |-> FALSE])

\* A Service with finalizers is first marked for deletion.
DeleteService(s) ==
  /\ service[s] # NotFound
  /\ \/ ServiceBecomes(s, NotFound)
     \/ /\ ~service[s].deleting
        /\ ServiceBecomes(s, [service[s] EXCEPT !.deleting = TRUE])
  /\ UNCHANGED incarnations

\* A write to a ServiceExport or to a policy.
Commit(s, obj) ==
  /\ Len(exportWatch[s]) < MaxLag
  /\ export' = [export EXCEPT ![s] = obj]
  /\ exportWatch' = [exportWatch EXCEPT ![s] = Append(@, obj)]
  /\ UNCHANGED exportCache

CommitPolicy(s, obj) ==
  /\ Len(policyWatch[s]) < MaxLag
  /\ policy' = [policy EXCEPT ![s] = obj]
  /\ policyWatch' = [policyWatch EXCEPT ![s] = Append(@, obj)]
  /\ UNCHANGED policyCache

Lives(s, uid) == service[s] # NotFound /\ service[s].uid = uid
ExportOrphaned(s) == export[s] # NotFound /\ ~Lives(s, export[s])
PolicyOrphaned(s) == policy[s] # NotFound /\ ~Lives(s, policy[s].owner)

\* The garbage collector takes what belongs to a Service that is gone.
CollectExport(s) ==
  /\ ExportOrphaned(s)
  /\ Commit(s, NotFound)
  /\ UNCHANGED <<svcVars, refVars, policyVars, svcEventChan, queue, workVars>>

CollectPolicy(s) ==
  /\ PolicyOrphaned(s)
  /\ CommitPolicy(s, NotFound)
  /\ fresh' = (fresh /\ key # s)
  /\ UNCHANGED <<svcVars, refVars, exportVars, svcEventChan, queue, pc, key,
                 owner, clusters>>

DeliverExport(s) ==
  /\ exportWatch[s] # <<>>
  /\ exportCache' = [exportCache EXCEPT ![s] = Head(exportWatch[s])]
  /\ exportWatch' = [exportWatch EXCEPT ![s] = Tail(@)]
  /\ UNCHANGED <<export, svcVars, refVars, policyVars, svcEventChan, queue,
                 workVars>>

DeliverPolicy(s) ==
  /\ policyWatch[s] # <<>>
  /\ policyCache' = [policyCache EXCEPT ![s] = Head(policyWatch[s])]
  /\ policyWatch' = [policyWatch EXCEPT ![s] = Tail(@)]
  /\ UNCHANGED <<policy, svcVars, refVars, exportVars, svcEventChan, queue,
                 workVars>>
-----------------------------------------------------------------------------
(***************************************************************************)
(* Event handlers.                                                         *)
(***************************************************************************)

\* The cache of Services goes to new: only a creation calls a handler that
\* does anything, the handlers of updates and deletions are empty.
ObserveService(s, new) ==
  /\ svcCache' = [svcCache EXCEPT ![s] = new]
  /\ svcCreated' = IF svcCache[s] = NotFound /\ new # NotFound
                   THEN svcCreated \cup {s} ELSE svcCreated
  /\ UNCHANGED <<service, incarnations, refVars, exportVars, policyVars,
                 svcEventChan, queue, workVars>>

DeliverService(s) ==
  /\ svcWatch[s] # <<>>
  /\ ObserveService(s, Head(svcWatch[s]))
  /\ svcWatch' = [svcWatch EXCEPT ![s] = Tail(@)]

Recreated(s) ==
  /\ svcCache[s] # NotFound /\ service[s] # NotFound
  /\ svcCache[s].uid # service[s].uid

\* The watch broke: a new list replaces what was not delivered.  A Service
\* that was deleted and created again in between shows up as updated.
RelistService(s) ==
  /\ Len(svcWatch[s]) > 1
  /\ "recreationSeen" \in Assumes => ~Recreated(s)
  /\ ObserveService(s, service[s])
  /\ svcWatch' = [svcWatch EXCEPT ![s] = <<>>]

\* The index of MCIs by their backends
ReferTo(s) == {i \in MCIs : mci[i] # NotFound /\ s \in mci[i].refs}

\* Mutant: only MCIs are looked for.
serviceCreateEnqueues_NoMCS(s) == ReferTo(s) # {}

\* serviceEventHandler.Create: an MCI of any class, an MCS of any type
serviceCreateEnqueues(s) == ReferTo(s) # {} \/ mcs[s] # NotFound

ServiceCreate(s) ==
  /\ s \in svcCreated
  /\ svcCreated' = svcCreated \ {s}
  /\ queue' = IF serviceCreateEnqueues(s) THEN queue \cup {s} ELSE queue
  /\ UNCHANGED <<service, svcWatch, svcCache, incarnations, refVars,
                 exportVars, policyVars, svcEventChan, workVars>>

\* serviceEventHandler.Generic, fed by svcEventChan
ServiceGeneric(s) ==
  /\ s \in svcEventChan
  /\ svcEventChan' = svcEventChan \ {s}
  /\ queue' = queue \cup {s}
  /\ UNCHANGED <<svcVars, refVars, exportVars, policyVars, workVars>>

Refs(m) == IF m = NotFound THEN {} ELSE m.refs

\* Mutant: services that are no longer backends are forgotten.
Impacted_NewOnly(old, new) ==
  IF new # NotFound /\ new.served THEN Refs(new) \ Refs(old) ELSE {}

\* multiClusterIngressEventHandler: the services that a change of an MCI from
\* old to new sends into the channel.  Create and Delete send all backends,
\* Update those that one version has and the other has not.
Impacted(old, new) ==
  LET judged == IF new = NotFound THEN old ELSE new
  IN  IF judged.served
      THEN (Refs(old) \ Refs(new)) \cup (Refs(new) \ Refs(old))
      ELSE {}

MCIEvent(i) ==
  /\ \E new \in (MCI \cup {NotFound}) \ {mci[i]} :
       /\ mci' = [mci EXCEPT ![i] = new]
       /\ svcEventChan' = svcEventChan \cup Impacted(mci[i], new)
  /\ UNCHANGED <<svcVars, mcs, rb, exportVars, policyVars, queue, workVars>>

\* multiClusterServiceEventHandler: any change of an MCS but one that leaves
\* annotations, types and ports as they are
MCSEvent(s) ==
  /\ \E new \in ({NotFound} \cup SUBSET ExposureTypes) \ {mcs[s]} :
       mcs' = [mcs EXCEPT ![s] = new]
  /\ svcEventChan' = svcEventChan \cup {s}
  /\ UNCHANGED <<svcVars, mci, rb, exportVars, policyVars, queue, workVars>>

\* getClusterResults; a binding that is not there has none.
getClusterResults(b) ==
  IF b = NotFound THEN {} ELSE b.clusters \cup b.requiredBy

\* Mutant: a new binding is ignored.
rbNotifies_UpdateOnly(old, new) ==
  /\ new # NotFound /\ old # NotFound
  /\ getClusterResults(old) # getClusterResults(new)

\* resourceBindingEventHandler: a deletion is ignored, and so is an update
\* that schedules the Service to the same clusters.
rbNotifies(old, new) ==
  /\ new # NotFound
  /\ old = NotFound \/ getClusterResults(old) # getClusterResults(new)

ResourceBindingEvent(s) ==
  /\ \E new \in (Bindings \cup {NotFound}) \ {rb[s]} :
       /\ rb' = [rb EXCEPT ![s] = new]
       /\ svcEventChan' = IF rbNotifies(rb[s], new) THEN svcEventChan \cup {s}
                                                    ELSE svcEventChan
  /\ UNCHANGED <<svcVars, mci, mcs, exportVars, policyVars, queue, workVars>>
-----------------------------------------------------------------------------
(***************************************************************************)
(* Reconcile.  Every read of a cache and every call is a step of its own.  *)
(***************************************************************************)

Goto(step) == pc' = step /\ UNCHANGED <<key, owner, queue>>

Return ==
  /\ pc' = "idle" /\ key' = NotFound /\ owner' = NotFound
  /\ clusters' = {} /\ fresh' = FALSE
Done == Return /\ UNCHANGED queue
Requeue == Return /\ queue' = queue \cup {key}

InTime(s) ==
  /\ "outputsCached" \in Assumes =>
       exportWatch[s] = <<>> /\ policyWatch[s] = <<>>
  /\ "garbageCollected" \in Assumes =>
       ~ExportOrphaned(s) /\ ~PolicyOrphaned(s)

\* Mutant: the objects made get no owner.
Reconcile_NoOwner(s) ==
  /\ pc = "idle" /\ s \in queue /\ InTime(s)
  /\ queue' = queue \ {s}
  /\ IF svcCache[s] = NotFound THEN UNCHANGED <<pc, key>>
                               ELSE pc' = "listMCIs" /\ key' = s
  /\ UNCHANGED <<svcVars, refVars, exportVars, policyVars, svcEventChan,
                 owner, clusters, fresh>>

Reconcile(s) ==
  /\ pc = "idle"
  /\ s \in queue
  /\ InTime(s)
  /\ queue' = queue \ {s}
  /\ IF svcCache[s] = NotFound
     THEN UNCHANGED <<pc, key, owner>>
     ELSE IF svcCache[s].deleting
     THEN UNCHANGED <<pc, key, owner>>
     ELSE pc' = "listMCIs" /\ key' = s /\ owner' = svcCache[s].uid
  /\ UNCHANGED <<svcVars, refVars, exportVars, policyVars, svcEventChan,
                 clusters, fresh>>

\* Steps that only read leave the rest alone.
Reads == UNCHANGED <<svcVars, refVars, exportVars, policyVars, svcEventChan>>

\* needEnsureServiceExport: an MCI of any class, or an MCS with a load balancer
ListMCIs ==
  /\ pc = "listMCIs"
  /\ Goto(IF ReferTo(key) # {} THEN "getExport" ELSE "getMCS")
  /\ UNCHANGED <<clusters, fresh>>
  /\ Reads

GetMCS ==
  /\ pc = "getMCS"
  /\ Goto(IF mcs[key] = NotFound THEN "getExportToDelete"
          ELSE IF LoadBalancer \in mcs[key] THEN "getExport"
          ELSE "getExportToDelete")
  /\ UNCHANGED <<clusters, fresh>>
  /\ Reads

createServiceExportTemplate(uid) == uid
createPropagationPolicyTemplate(uid, results) ==
  [owner |-> uid, clusters |-> results]

\* ensureServiceExport
GetExport ==
  /\ pc = "getExport"
  /\ Goto(IF exportCache[key] = NotFound THEN "createExport"
                                         ELSE "listBindings")
  /\ UNCHANGED <<clusters, fresh>>
  /\ Reads

CreateExport(ok) ==
  /\ pc = "createExport"
  /\ export[key] = NotFound
  /\ Commit(key, createServiceExportTemplate(owner))
  /\ IF ok THEN Goto("listBindings") /\ UNCHANGED <<clusters, fresh>>
           ELSE Requeue
  /\ UNCHANGED <<svcVars, refVars, policyVars, svcEventChan>>

getBindingClusterResults(s) == getClusterResults(rb[s])

\* Without clusters nothing is left to do.
ListBindings ==
  /\ pc = "listBindings"
  /\ LET results == getBindingClusterResults(key) IN
       IF results = {} THEN Done
       ELSE Goto("getPolicy") /\ clusters' = results /\ UNCHANGED fresh
  /\ Reads

\* Mutant: an existing policy is taken to be right.
PolicyStep_NoUpdate(p) == IF p = NotFound THEN "createPolicy" ELSE "idle"

PolicyStep(p) ==
  IF p = NotFound THEN "createPolicy"
  ELSE IF p.clusters = clusters THEN "idle" ELSE "updatePolicy"

GetPolicy ==
  /\ pc = "getPolicy"
  /\ LET step == PolicyStep(policyCache[key]) IN
       IF step = "idle" THEN Done
       ELSE Goto(step) /\ fresh' = (policyWatch[key] = <<>>)
            /\ UNCHANGED clusters
  /\ Reads

CreatePolicy(ok) ==
  /\ pc = "createPolicy"
  /\ policy[key] = NotFound
  /\ CommitPolicy(key, createPropagationPolicyTemplate(owner, clusters))
  /\ IF ok THEN Done ELSE Requeue
  /\ UNCHANGED <<svcVars, refVars, exportVars, svcEventChan>>

UpdatePolicy(ok) ==
  /\ pc = "updatePolicy"
  /\ fresh
  /\ CommitPolicy(key, [policy[key] EXCEPT !.clusters = clusters])
  /\ IF ok THEN Done ELSE Requeue
  /\ UNCHANGED <<svcVars, refVars, exportVars, svcEventChan>>

\* Create finds an object, or Update meets a conflict.
Rejected ==
  /\ \/ pc = "createExport" /\ export[key] # NotFound
     \/ pc = "createPolicy" /\ policy[key] # NotFound
     \/ pc = "updatePolicy" /\ ~fresh
  /\ Requeue
  /\ Reads

\* Mutant: the policy stays when the ServiceExport is already gone.
GetExportToDelete_Return ==
  /\ pc = "getExportToDelete"
  /\ IF exportCache[key] = NotFound THEN Done
     ELSE Goto("deleteExport") /\ UNCHANGED <<clusters, fresh>>
  /\ Reads

\* removeServiceExport
GetExportToDelete ==
  /\ pc = "getExportToDelete"
  /\ Goto(IF exportCache[key] = NotFound THEN "getPolicyToDelete"
                                         ELSE "deleteExport")
  /\ UNCHANGED <<clusters, fresh>>
  /\ Reads

\* Delete names no version; an object that is already gone is no error.
DeleteExport(ok) ==
  /\ pc = "deleteExport"
  /\ IF export[key] = NotFound THEN UNCHANGED exportVars
                               ELSE Commit(key, NotFound)
  /\ IF ok THEN Goto("getPolicyToDelete") /\ UNCHANGED <<clusters, fresh>>
           ELSE Requeue
  /\ UNCHANGED <<svcVars, refVars, policyVars, svcEventChan>>

GetPolicyToDelete ==
  /\ pc = "getPolicyToDelete"
  /\ IF policyCache[key] = NotFound THEN Done
     ELSE Goto("deletePolicy") /\ UNCHANGED <<clusters, fresh>>
  /\ Reads

DeletePolicy(ok) ==
  /\ pc = "deletePolicy"
  /\ IF policy[key] = NotFound THEN UNCHANGED policyVars
                               ELSE CommitPolicy(key, NotFound)
  /\ IF ok THEN Done ELSE Requeue
  /\ UNCHANGED <<svcVars, refVars, exportVars, svcEventChan>>

CallFails ==
  /\ pc # "idle"
  /\ Requeue
  /\ Reads

\* A new process lists everything; each object comes back as created.
Restart ==
  /\ svcCache' = service
  /\ svcWatch' = NoEvents
  /\ svcCreated' = {s \in Services : service[s] # NotFound}
  /\ exportCache' = export /\ exportWatch' = NoEvents
  /\ policyCache' = policy /\ policyWatch' = NoEvents
  /\ svcEventChan' =
       {s \in Services : mcs[s] # NotFound \/ rbNotifies(NotFound, rb[s])}
         \cup UNION {Impacted(NotFound, mci[i]) :
                     i \in {j \in MCIs : mci[j] # NotFound}}
  /\ queue' = {}
  /\ Return
  /\ UNCHANGED <<service, incarnations, refVars, export, policy>>
-----------------------------------------------------------------------------
UserStep ==
  \/ \E s \in Services : CreateService(s) \/ DeleteService(s) \/ MCSEvent(s)
                         \/ ResourceBindingEvent(s)
  \/ \E i \in MCIs : MCIEvent(i)

\* Informers, event handlers and the garbage collector
HandlerStep(s) ==
  \/ DeliverService(s) \/ DeliverExport(s) \/ DeliverPolicy(s)
  \/ ServiceCreate(s) \/ ServiceGeneric(s)
  \/ CollectExport(s) \/ CollectPolicy(s)

WorkStep ==
  \/ \E s \in Services : Reconcile(s)
  \/ ListMCIs \/ GetMCS
  \/ GetExport \/ CreateExport(TRUE) \/ ListBindings
  \/ GetPolicy \/ CreatePolicy(TRUE) \/ UpdatePolicy(TRUE)
  \/ Rejected
  \/ GetExportToDelete \/ DeleteExport(TRUE)
  \/ GetPolicyToDelete \/ DeletePolicy(TRUE)

FaultStep ==
  \/ CreateExport(FALSE) \/ CreatePolicy(FALSE) \/ UpdatePolicy(FALSE)
  \/ DeleteExport(FALSE) \/ DeletePolicy(FALSE)
  \/ CallFails
  \/ \E s \in Services : RelistService(s)
  \/ Restart

Next == UserStep \/ (\E s \in Services : HandlerStep(s)) \/ WorkStep
        \/ FaultStep

Spec == Init /\ [][Next]_vars
-----------------------------------------------------------------------------
Live(s) == service[s] # NotFound /\ ~service[s].deleting

HasLoadBalancer(s) == mcs[s] # NotFound /\ LoadBalancer \in mcs[s]

\* What the controller is told of: the export is needed, or nobody needs it.
Needed(s) == (\E i \in ReferTo(s) : mci[i].served) \/ HasLoadBalancer(s)
Unneeded(s) == ReferTo(s) = {} /\ ~HasLoadBalancer(s)

\* Something is under way that ends in a reconcile of s.
Pending(s) ==
  \/ s \in queue \cup svcEventChan \cup svcCreated
  \/ svcWatch[s] # <<>>
  \/ pc # "idle" /\ key = s

Scheduled(s) == IF rb[s] = NotFound THEN {}
                ELSE {c \in Clusters : \/ c \in rb[s].clusters
                                       \/ c \in rb[s].requiredBy}

Right(s) == policy[s] = [owner |-> service[s].uid, clusters |-> Scheduled(s)]

\* "1. make sure serviceExport exist"
\* (serviceexport_propagation_controller.go:96): a Service that needs a
\* ServiceExport has one of its own incarnation, or work is pending that will
\* make it.  No order of events in four informers, a channel, a queue and a
\* reconcile under way loses the last wake-up.
ExportNotForgotten ==
  \A s \in Services :
    Live(s) /\ Needed(s) /\ ~Pending(s) => export[s] = service[s].uid

\* "6. propagationPolicy already exist, just update it"
\* (serviceexport_propagation_controller.go:147): the policy of such a Service
\* names the clusters it is scheduled to now, if there are any, or work is
\* pending.
PolicyNotForgotten ==
  \A s \in Services :
    Live(s) /\ Needed(s) /\ ~Pending(s) =>
      (Scheduled(s) # {} => Right(s))

\* Once nobody needs it, ServiceExport and policy of a Service are gone (what
\* an earlier incarnation left is the garbage collector's), or work is pending;
\* after a restart it is the ResourceBinding that brings the Service back to
\* the queue.
WithdrawalNotForgotten ==
  \A s \in Services :
    Live(s) /\ Unneeded(s) /\ rb[s] # NotFound /\ ~Pending(s) =>
      /\ export[s] = NotFound \/ ExportOrphaned(s)
      /\ policy[s] = NotFound \/ PolicyOrphaned(s)
=============================================================================
