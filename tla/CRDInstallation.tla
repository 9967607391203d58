--------------------------- MODULE CRDInstallation ---------------------------
(***************************************************************************)
(* The CRD installation controller: it keeps the names of all clusters in  *)
(* one ClusterPropagationPolicy, which carries the ServiceExport CRD to    *)
(* them.  Clusters and the policy reach the controller through two         *)
(* informers, each with a lag of its own.                                  *)
(***************************************************************************)
EXTENDS Naturals, Sequences, FiniteSets

CONSTANTS
  Clusters,            \* names of clusters
  NoExistCluster,      \* the fictional cluster of cppHandlerFn
  EmptyName,           \* the name of a zero Cluster object
  NotFound,            \* in place of a policy that does not exist
  PatientUsers,        \* do users wait for the controller (see AtRest)?
  MaxLag               \* bound on waiting events of one object

Keys == Clusters \cup {NoExistCluster}
Names == Clusters \cup {EmptyName, NoExistCluster}
States == {"absent", "live", "deleting"}
Policies == Seq(Clusters) \cup {NotFound}   \* real clusters only

ASSUME ConstantsAssumption ==
  /\ IsFiniteSet(Clusters)
  /\ NoExistCluster \notin Clusters
  /\ EmptyName \notin Clusters
  /\ NotFound \notin Seq(Clusters)
  /\ PatientUsers \in BOOLEAN
  /\ MaxLag \in Nat \ {0}

VARIABLES
  cluster,        \* the Clusters in the API server
  clusterWatch,   \* their states that the informer has not delivered
  clusterCache,   \* the informer's copy
  policy,         \* ClusterNames of the policy in the API server
  policyWatch,    \* its versions that the informer has not delivered
  policyCache,    \* the informer's copy
  queue,          \* the work queue
  pc,             \* next call of the one worker
  key,            \* the key it works on
  target,         \* clusterName and eventType of syncClusterPropagationPolicy
  names,          \* the ClusterNames it is about to write
  fresh           \* its copy of the policy has the live resource version

clusterVars == <<cluster, clusterWatch, clusterCache>>
policyVars == <<policy, policyWatch, policyCache>>
workVars == <<pc, key, target, names, fresh>>
vars == <<clusterVars, policyVars, queue, workVars>>

Targets == [name : Names, t : {"ensure", "remove"}]

TypeOK ==
  /\ cluster \in [Clusters -> States]
  /\ clusterWatch \in [Clusters -> Seq(States)]
  /\ clusterCache \in [Clusters -> States]
  /\ policy \in Policies
  /\ policyWatch \in Seq(Policies)
  /\ policyCache \in Policies
  /\ queue \subseteq Keys
  /\ pc \in {"idle", "getPolicy", "list", "create", "update"}
  /\ key \in Keys
  /\ target \in Targets
  /\ names \in Seq(Clusters)
  /\ fresh \in BOOLEAN

NoTarget == [name |-> EmptyName, t |-> "remove"]

Init ==
  /\ cluster = [c \in Clusters |-> "absent"]
  /\ clusterWatch = [c \in Clusters |-> <<>>]
  /\ clusterCache = [c \in Clusters |-> "absent"]
  /\ policy = NotFound /\ policyWatch = <<>> /\ policyCache = NotFound
  /\ queue = {}
  /\ pc = "idle" /\ key = NoExistCluster /\ target = NoTarget
  /\ names = <<>> /\ fresh = FALSE
-----------------------------------------------------------------------------
(***************************************************************************)
(* The API server and its users (external).                                *)
(***************************************************************************)

ClusterBecomes(c, state) ==
  /\ Len(clusterWatch[c]) < MaxLag
  /\ cluster' = [cluster EXCEPT ![c] = state]
  /\ clusterWatch' = [clusterWatch EXCEPT ![c] = Append(@, state)]
  /\ UNCHANGED <<clusterCache, policyVars, queue, workVars>>

\* No reconcile is under way and the last write to the policy is in the
\* cache; and nothing is left to do for an earlier cluster c.
AtRest == pc = "idle" /\ policyWatch = <<>>
Settled(c) == AtRest /\ clusterWatch[c] = <<>> /\ c \notin queue

Join(c) ==
  /\ cluster[c] = "absent"
  /\ PatientUsers => Settled(c)
  /\ ClusterBecomes(c, "live")
Unjoin(c) == cluster[c] = "live" /\ ClusterBecomes(c, "deleting")
Gone(c) == cluster[c] = "deleting" /\ ClusterBecomes(c, "absent")

\* The policy is replaced by obj.
Commit(obj) ==
  /\ policy' = obj
  /\ policyWatch' = Append(policyWatch, obj)
  /\ UNCHANGED policyCache

DeletePolicy ==
  /\ policy # NotFound
  /\ PatientUsers => AtRest
  /\ Len(policyWatch) < MaxLag
  /\ Commit(NotFound)
  /\ fresh' = FALSE
  /\ UNCHANGED <<clusterVars, queue, pc, key, target, names>>
-----------------------------------------------------------------------------
(***************************************************************************)
(* Events.                                                                 *)
(***************************************************************************)

\* clusterFilter: creations, deletions, and updates of the deletion mark
clusterFilter(old, new) ==
  \/ (old = "absent") # (new = "absent")
  \/ (old = "deleting") # (new = "deleting")

ObserveCluster(c, new) ==
  /\ clusterCache' = [clusterCache EXCEPT ![c] = new]
  /\ queue' = IF clusterFilter(clusterCache[c], new) THEN queue \cup {c}
              ELSE queue
  /\ UNCHANGED <<cluster, policyVars, workVars>>

DeliverCluster(c) ==
  /\ clusterWatch[c] # <<>>
  /\ ObserveCluster(c, Head(clusterWatch[c]))
  /\ clusterWatch' = [clusterWatch EXCEPT ![c] = Tail(@)]

\* The watch broke: a new list replaces what was not delivered.
RelistCluster(c) ==
  /\ Len(clusterWatch[c]) > 1
  /\ ObserveCluster(c, cluster[c])
  /\ clusterWatch' = [clusterWatch EXCEPT ![c] = <<>>]

\* Mutant: nobody watches the policy.
ObservePolicy_Unwatched(new) ==
  /\ policyCache' = new
  /\ UNCHANGED <<clusterVars, policy, queue, workVars>>

\* cppFilter and cppHandlerFn: the deletion of the policy queues a fictional
\* cluster, whose reconcile creates the policy again.
ObservePolicy(new) ==
  /\ policyCache' = new
  /\ queue' = IF policyCache # NotFound /\ new = NotFound
              THEN queue \cup {NoExistCluster} ELSE queue
  /\ UNCHANGED <<clusterVars, policy, workVars>>

DeliverPolicy ==
  /\ policyWatch # <<>>
  /\ ObservePolicy(Head(policyWatch))
  /\ policyWatch' = Tail(policyWatch)

RelistPolicy ==
  /\ Len(policyWatch) > 1
  /\ ObservePolicy(policy)
  /\ policyWatch' = <<>>
-----------------------------------------------------------------------------
(***************************************************************************)
(* Reconcile.                                                              *)
(***************************************************************************)

Return ==
  /\ pc' = "idle" /\ key' = NoExistCluster /\ target' = NoTarget
  /\ names' = <<>> /\ fresh' = FALSE
Done == Return /\ UNCHANGED queue
Requeue == Return /\ queue' = queue \cup {key}

\* Mutant: a cluster that is not found is ensured.
Target_EnsureGone(k) ==
  IF k \notin Clusters \/ clusterCache[k] = "absent"
  THEN [name |-> EmptyName, t |-> "ensure"]
  ELSE [name |-> k,
        t |-> IF clusterCache[k] = "deleting" THEN "remove" ELSE "ensure"]

\* A cluster the cache does not have is removed under the name of the zero
\* object that Get left behind.
Target(k) ==
  IF k \notin Clusters \/ clusterCache[k] = "absent"
  THEN [name |-> EmptyName, t |-> "remove"]
  ELSE [name |-> k,
        t |-> IF clusterCache[k] = "deleting" THEN "remove" ELSE "ensure"]

Reconcile(k) ==
  /\ pc = "idle"
  /\ k \in queue
  /\ queue' = queue \ {k}
  /\ key' = k
  /\ target' = Target(k)
  /\ pc' = "getPolicy"
  /\ UNCHANGED <<clusterVars, policyVars, names, fresh>>

\* The loop of syncClusterPropagationPolicy finds n; the mutant's loop stops
\* one short.
Listed_SkipsLast(ns, n) == \E i \in 1 .. Len(ns) - 1 : ns[i] = n
Listed(ns, n) == \E i \in 1 .. Len(ns) : ns[i] = n

\* append(clusters[:index], clusters[index+1:]...) at the first n
Without(ns, n) ==
  LET index == CHOOSE i \in 1 .. Len(ns) :
                 ns[i] = n /\ \A j \in 1 .. i - 1 : ns[j] # n
  IN  SubSeq(ns, 1, index - 1) \o SubSeq(ns, index + 1, Len(ns))

\* syncClusterPropagationPolicy up to its Update
syncClusterPropagationPolicy ==
  /\ pc = "getPolicy"
  /\ \/ /\ policyCache = NotFound
        /\ pc' = "list"
        /\ UNCHANGED <<queue, key, target, names, fresh>>
     \/ /\ policyCache # NotFound
        /\ (target.t = "ensure") = Listed(policyCache, target.name)
        /\ Done
     \/ /\ policyCache # NotFound
        /\ (target.t = "ensure") # Listed(policyCache, target.name)
        /\ names' = IF target.t = "ensure" THEN Append(policyCache, target.name)
                    ELSE Without(policyCache, target.name)
        /\ fresh' = (policyWatch = <<>>)
        /\ pc' = "update"
        /\ UNCHANGED <<queue, key, target>>
  /\ UNCHANGED <<clusterVars, policyVars>>

\* createClusterPropagationPolicy lists all clusters of the cache, the ones
\* marked for deletion included.
Known == {c \in Clusters : clusterCache[c] # "absent"}

ListClusters ==
  /\ pc = "list"
  /\ \E ns \in [1 .. Cardinality(Known) -> Known] :
       /\ {ns[i] : i \in 1 .. Cardinality(Known)} = Known
       /\ names' = ns
  /\ pc' = "create"
  /\ UNCHANGED <<clusterVars, policyVars, queue, key, target, fresh>>

CreatePolicy(ok) ==
  /\ pc = "create"
  /\ policy = NotFound
  /\ Commit(names)
  /\ IF ok THEN Done ELSE Requeue
  /\ UNCHANGED clusterVars

\* Mutant: a write that no resource version guards.
UpdatePolicy_NoVersion(ok) ==
  /\ pc = "update"
  /\ policy # NotFound
  /\ Commit(names)
  /\ IF ok THEN Done ELSE Requeue
  /\ UNCHANGED clusterVars

UpdatePolicy(ok) ==
  /\ pc = "update"
  /\ fresh
  /\ Commit(names)
  /\ IF ok THEN Done ELSE Requeue
  /\ UNCHANGED clusterVars

\* Create finds a policy, or Update meets a conflict.
Rejected ==
  /\ \/ pc = "create" /\ policy # NotFound
     \/ pc = "update" /\ ~fresh
  /\ Requeue
  /\ UNCHANGED <<clusterVars, policyVars>>

CallFails ==
  /\ pc # "idle"
  /\ Requeue
  /\ UNCHANGED <<clusterVars, policyVars>>

\* A new process lists clusters and policy before its worker starts.
Restart ==
  /\ clusterCache' = cluster
  /\ clusterWatch' = [c \in Clusters |-> <<>>]
  /\ policyCache' = policy
  /\ policyWatch' = <<>>
  /\ queue' = {c \in Clusters : cluster[c] # "absent"}
  /\ Return
  /\ UNCHANGED <<cluster, policy>>
-----------------------------------------------------------------------------
UserStep == DeletePolicy \/ \E c \in Clusters : Join(c) \/ Unjoin(c) \/ Gone(c)

HandlerStep == DeliverPolicy \/ \E c \in Clusters : DeliverCluster(c)

WorkStep ==
  \/ \E k \in Keys : Reconcile(k)
  \/ syncClusterPropagationPolicy
  \/ ListClusters
  \/ CreatePolicy(TRUE)
  \/ UpdatePolicy(TRUE)
  \/ Rejected

FaultStep ==
  \/ CreatePolicy(FALSE)
  \/ UpdatePolicy(FALSE)
  \/ CallFails
  \/ RelistPolicy
  \/ \E c \in Clusters : RelistCluster(c)
  \/ Restart

Next == UserStep \/ HandlerStep \/ WorkStep \/ FaultStep

Spec == Init /\ [][Next]_vars
-----------------------------------------------------------------------------
Distinct(ns) == \A i, j \in 1 .. Len(ns) : ns[i] = ns[j] => i = j
Clean(p) == p # NotFound => Distinct(p)

\* Over any sequence of joins, removals, recreations of the policy and retries
\* no cluster is named twice: a duplicate would survive the removal of its
\* name, which takes off the first one only.
NoDuplicates == Clean(policy)

\* A write takes at most the name of the reconciled cluster off the policy:
\* no update undoes what another one added.
KeepsOthers ==
  [][policy # NotFound /\ policy' # NotFound =>
       \A i \in 1 .. Len(policy) :
         \/ policy[i] = target.name
         \/ \E j \in 1 .. Len(policy') : policy'[j] = policy[i]]_vars
=============================================================================
