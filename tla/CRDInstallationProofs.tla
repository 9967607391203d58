------------------------ MODULE CRDInstallationProofs ------------------------
(***************************************************************************)
(* The policy of CRDInstallation names no cluster twice, and no write to   *)
(* it drops a cluster that another write added, for every finite set of    *)
(* clusters, every lag of the informers, and users who wait for the        *)
(* controller or do not.                                                   *)
(***************************************************************************)
EXTENDS CRDInstallation, SequenceTheorems, FiniteSetTheorems, TLAPS

\* The informer ends with the version that is in the API server.
Coherent ==
  IF policyWatch = <<>> THEN policyCache = policy
                        ELSE policyWatch[Len(policyWatch)] = policy

\* ns has every name of p but n.
Covers(ns, p, n) ==
  \A i \in 1 .. Len(p) : p[i] = n \/ \E j \in 1 .. Len(ns) : ns[j] = p[i]

\* The two informers, the queue and the worker have their types.
ClustersOK ==
  /\ cluster \in [Clusters -> States]
  /\ clusterWatch \in [Clusters -> Seq(States)]
  /\ clusterCache \in [Clusters -> States]

\* No version of the policy names a cluster twice.
PolicyOK ==
  /\ policy \in Policies /\ policyCache \in Policies /\ policyWatch \in Seq(Policies)
  /\ Coherent
  /\ Clean(policy)
  /\ Clean(policyCache)
  /\ \A i \in 1 .. Len(policyWatch) : Clean(policyWatch[i])

\* Nor does the worker's list; while its copy is the live one, that list is the
\* live one but for the cluster it works on.
WorkOK ==
  /\ queue \subseteq Keys /\ key \in Keys
  /\ pc \in {"idle", "getPolicy", "list", "create", "update"}
  /\ target \in Targets /\ (target.t = "ensure" => target.name \in Clusters)
  /\ names \in Seq(Clusters) /\ Distinct(names)
  /\ fresh \in BOOLEAN
  /\ fresh => /\ pc = "update" /\ policy # NotFound
              /\ Covers(names, policy, target.name)

IInv == ClustersOK /\ PolicyOK /\ WorkOK

-----------------------------------------------------------------------------
\* Lists of names.

\* A list as long as the set it enumerates has no repetition.
LEMMA Enumeration ==
  ASSUME NEW S, IsFiniteSet(S),
         NEW ns \in [1 .. Cardinality(S) -> S],
         {ns[i] : i \in 1 .. Cardinality(S)} = S
  PROVE  ns \in Seq(S) /\ Distinct(ns)
<1> DEFINE k == Cardinality(S)
<1>1. k \in Nat
  BY FS_CardinalityType
<1>2. ns \in Seq(S) /\ Len(ns) = k
  BY <1>1
<1>3. IsFiniteSet(1 .. k) /\ Cardinality(1 .. k) = k
  BY <1>1, FS_Interval
<1>4. ns \in Surjection(1 .. k, S)
  BY DEF Surjection
<1>5. ns \in Injection(1 .. k, S)
  BY <1>3, <1>4, FS_SurjSameCardinalityImpliesInj
<1> QED BY <1>2, <1>5 DEF Injection, Distinct, IsInjective

\* Appending a name that is not listed.
LEMMA Appended ==
  ASSUME NEW ns \in Seq(Clusters), NEW n \in Clusters,
         Distinct(ns), ~Listed(ns, n)
  PROVE  /\ Append(ns, n) \in Seq(Clusters)
         /\ Distinct(Append(ns, n))
         /\ Covers(Append(ns, n), ns, n)
  BY AppendProperties, LenProperties DEF Distinct, Listed, Covers

\* Taking a listed name off.
LEMMA Removed ==
  ASSUME NEW ns \in Seq(Clusters), NEW n, Distinct(ns), Listed(ns, n)
  PROVE  /\ Without(ns, n) \in Seq(Clusters)
         /\ Distinct(Without(ns, n))
         /\ Covers(Without(ns, n), ns, n)
<1> DEFINE First(i) == ns[i] = n /\ \A j \in 1 .. i - 1 : ns[j] # n
           at == CHOOSE i \in 1 .. Len(ns) : First(i)
           front == SubSeq(ns, 1, at - 1)
           back == SubSeq(ns, at + 1, Len(ns))
<1>1. Len(ns) \in Nat /\ \A i \in 1 .. Len(ns) : ns[i] \in Clusters
  BY LenProperties, ElementOfSeq
<1>2. \E i \in 1 .. Len(ns) : First(i)
  BY <1>1 DEF Distinct, Listed
<1>3. at \in 1 .. Len(ns)
  BY <1>2
<1> HIDE DEF at
<1>4. /\ front \in Seq(Clusters) /\ Len(front) = at - 1
      /\ \A i \in 1 .. at - 1 : front[i] = ns[i]
  BY <1>1, <1>3, SubSeqProperties
<1>5. /\ back \in Seq(Clusters) /\ Len(back) = Len(ns) - at
      /\ \A i \in 1 .. Len(ns) - at : back[i] = ns[at + i]
  BY <1>1, <1>3, SubSeqProperties
<1> HIDE DEF front, back
<1> DEFINE w == front \o back
<1>6. w \in Seq(Clusters) /\ Len(w) = Len(front) + Len(back)
  BY <1>4, <1>5, ConcatProperties
<1>7. \A i \in 1 .. Len(front) + Len(back) :
        w[i] = IF i <= Len(front) THEN front[i] ELSE back[i - Len(front)]
  BY <1>4, <1>5, ConcatProperties
<1>8. Without(ns, n) = w
  BY DEF Without, at, front, back
<1> HIDE DEF w
<1>9. Len(w) = Len(ns) - 1
  BY <1>1, <1>3, <1>4, <1>5, <1>6
<1>10. \A i \in 1 .. at - 1 : w[i] = ns[i]
  BY <1>1, <1>3, <1>4, <1>5, <1>7
<1>11. \A i \in at .. Len(ns) - 1 : w[i] = ns[i + 1]
  <2> SUFFICES ASSUME NEW i \in at .. Len(ns) - 1
               PROVE  w[i] = ns[i + 1]
    OBVIOUS
  <2>1. w[i] = back[i - (at - 1)]
    <3>1. i \in 1 .. Len(front) + Len(back) /\ ~(i <= Len(front))
      BY <1>1, <1>3, <1>4, <1>5
    <3>2. w[i] = back[i - Len(front)]
      BY <1>7, <3>1
    <3> QED BY <1>4, <3>2
  <2>2. back[i - (at - 1)] = ns[at + (i - (at - 1))]
    <3>1. i - (at - 1) \in 1 .. Len(ns) - at
      BY <1>1, <1>3
    <3> QED BY <1>5, <3>1
  <2>3. at + (i - (at - 1)) = i + 1
    BY <1>1, <1>3
  <2> QED BY <2>1, <2>2, <2>3
<1>12. Distinct(w)
  BY <1>1, <1>3, <1>9, <1>10, <1>11 DEF Distinct
<1>13. ns[at] = n
  BY <1>2 DEF at
<1>14. Covers(w, ns, n)
  <2> SUFFICES ASSUME NEW i \in 1 .. Len(ns), ns[i] # n
               PROVE  \E j \in 1 .. Len(w) : w[j] = ns[i]
    BY DEF Covers
  <2>1. i # at
    BY <1>13
  <2>2. CASE i < at
    BY <1>1, <1>3, <1>9, <1>10, <2>2
  <2>3. CASE i > at
    <3>1. i - 1 \in at .. Len(ns) - 1 /\ i - 1 + 1 = i
      BY <1>1, <1>3, <2>3
    <3>2. w[i - 1] = ns[i]
      BY <1>11, <3>1
    <3> QED BY <1>1, <1>3, <1>9, <3>1, <3>2
  <2> QED BY <1>1, <1>3, <2>1, <2>2, <2>3
<1> QED BY <1>6, <1>8, <1>12, <1>14
-----------------------------------------------------------------------------
\* Steps.

\* What a reconcile leaves behind when it returns.
LEMMA Returned ==
  ASSUME WorkOK, Return, queue' = queue \/ queue' = queue \cup {key}
  PROVE  WorkOK'
<1>1. queue' \subseteq Keys /\ key' \in Keys
  BY DEF WorkOK, Return, Keys
<1>2. target' \in Targets /\ target'.t # "ensure"
  BY DEF Return, NoTarget, Targets, Names
<1>3. names' \in Seq(Clusters) /\ Distinct(names')
  BY EmptySeq DEF Return, Distinct
<1>4. pc' = "idle" /\ fresh' = FALSE
  BY DEF Return
<1> QED BY <1>1, <1>2, <1>3, <1>4 DEF WorkOK

LEMMA Committed ==
  ASSUME PolicyOK, NEW obj \in Policies, Clean(obj), Commit(obj)
  PROVE  PolicyOK'
<1>1. /\ policyWatch' \in Seq(Policies)
      /\ Len(policyWatch') = Len(policyWatch) + 1
      /\ \A i \in 1 .. Len(policyWatch) : policyWatch'[i] = policyWatch[i]
      /\ policyWatch'[Len(policyWatch) + 1] = obj
      /\ policyWatch' # <<>>
  BY AppendProperties DEF PolicyOK, Commit
<1>2. Len(policyWatch) \in Nat
  BY LenProperties DEF PolicyOK
<1>3. Coherent'
  BY <1>1 DEF Coherent, Commit
<1>4. \A i \in 1 .. Len(policyWatch') : Clean(policyWatch'[i])
  BY <1>1, <1>2 DEF PolicyOK
<1> QED BY <1>1, <1>3, <1>4 DEF PolicyOK, Commit, Clean, Distinct

\* The informer of the policy moves on.
LEMMA Observed ==
  ASSUME PolicyOK, WorkOK, DeliverPolicy \/ RelistPolicy
  PROVE  PolicyOK' /\ WorkOK'
<1>1. WorkOK'
  BY DEF WorkOK, DeliverPolicy, RelistPolicy, ObservePolicy, workVars, Keys, Covers,
         Distinct
<1>2. CASE DeliverPolicy
  <2>1. /\ Head(policyWatch) = policyWatch[1]
        /\ Tail(policyWatch) \in Seq(Policies)
        /\ Len(Tail(policyWatch)) = Len(policyWatch) - 1
        /\ \A i \in 1 .. Len(Tail(policyWatch)) : Tail(policyWatch)[i] = policyWatch[i + 1]
        /\ Len(policyWatch) \in Nat \ {0}
    BY <1>2, HeadTailProperties, EmptySeq DEF DeliverPolicy, PolicyOK
  <2>2. /\ policyCache' = policyWatch[1] /\ policyWatch' = Tail(policyWatch)
        /\ policy' = policy
    BY <1>2, <2>1 DEF DeliverPolicy, ObservePolicy
  <2>3. policyCache' \in Policies /\ Clean(policyCache')
    BY <2>1, <2>2, ElementOfSeq DEF PolicyOK
  <2>4. \A i \in 1 .. Len(policyWatch') : Clean(policyWatch'[i])
    BY <2>1, <2>2 DEF PolicyOK
  <2>5. Coherent'
    <3>1. CASE Len(policyWatch) = 1
      <4>1. policyWatch' = <<>>
        BY <2>1, <2>2, <3>1, EmptySeq
      <4> QED BY <2>1, <2>2, <3>1, <4>1, EmptySeq DEF Coherent, PolicyOK
    <3>2. CASE Len(policyWatch) # 1
      <4>1. Len(policyWatch') \in 1 .. Len(Tail(policyWatch))
        BY <2>1, <2>2, <3>2
      <4> policyWatch' # <<>>
        BY <4>1, EmptySeq
      <4>2. policyWatch'[Len(policyWatch')] = policyWatch[Len(policyWatch)]
        BY <2>1, <2>2, <4>1
      <4>3. policyWatch # <<>>
        BY <1>2 DEF DeliverPolicy
      <4> QED BY <2>2, <4>1, <4>2, <4>3 DEF Coherent, PolicyOK
    <3> QED BY <3>1, <3>2
  <2> QED BY <1>1, <2>1, <2>2, <2>3, <2>4, <2>5 DEF PolicyOK, Clean, Distinct
<1>3. CASE RelistPolicy
  BY <1>1, <1>3, EmptySeq DEF RelistPolicy, ObservePolicy, PolicyOK, Coherent, Clean, Distinct
<1> QED BY <1>2, <1>3

\* The first call of syncClusterPropagationPolicy.
LEMMA Synced ==
  ASSUME PolicyOK, WorkOK, syncClusterPropagationPolicy
  PROVE  PolicyOK' /\ WorkOK'
<1>1. PolicyOK'
  BY DEF syncClusterPropagationPolicy, policyVars, PolicyOK, Coherent, Clean, Distinct
<1>2. CASE policyCache = NotFound
  <2>1. pc' = "list" /\ UNCHANGED <<queue, key, target, names, fresh, policy>>
    BY <1>2 DEF syncClusterPropagationPolicy, policyVars
  <2>2. ~fresh
    BY DEF syncClusterPropagationPolicy, WorkOK
  <2> QED BY <1>1, <2>1, <2>2 DEF WorkOK, Distinct
<1>3. CASE policyCache # NotFound
  <2>1. policyCache \in Seq(Clusters) /\ Distinct(policyCache)
    BY <1>3 DEF PolicyOK, Policies, Clean
  <2>2. CASE Done
    BY <1>1, <2>2, Returned DEF Done
  <2>3. CASE ~Done
    <3>1. /\ (target.t = "ensure") # Listed(policyCache, target.name)
          /\ names' = IF target.t = "ensure" THEN Append(policyCache, target.name)
                      ELSE Without(policyCache, target.name)
          /\ fresh' = (policyWatch = <<>>)
          /\ pc' = "update"
          /\ UNCHANGED <<queue, key, target, policy, policyCache>>
      BY <1>3, <2>3 DEF syncClusterPropagationPolicy, policyVars
    <3>2. /\ names' \in Seq(Clusters) /\ Distinct(names')
          /\ Covers(names', policyCache, target.name)
      <4>1. CASE target.t = "ensure"
        BY <2>1, <3>1, <4>1, Appended DEF WorkOK
      <4>2. CASE target.t # "ensure"
        BY <2>1, <3>1, <4>2, Removed DEF Listed
      <4> QED BY <4>1, <4>2
    <3>3. fresh' => policy = policyCache
      BY <3>1 DEF PolicyOK, Coherent
    <3>4. fresh' \in BOOLEAN
      BY <3>1
    <3> QED BY <1>1, <1>3, <3>1, <3>2, <3>3, <3>4 DEF WorkOK
  <2> QED BY <2>2, <2>3
<1> QED BY <1>1, <1>2, <1>3

\* The list for a new policy.
LEMMA ListedClusters ==
  ASSUME ClustersOK, WorkOK, ListClusters
  PROVE  names' \in Seq(Clusters) /\ Distinct(names')
<1>1. IsFiniteSet(Known)
  BY ConstantsAssumption, FS_Subset DEF Known
<1>2. PICK ns \in [1 .. Cardinality(Known) -> Known] :
        {ns[i] : i \in 1 .. Cardinality(Known)} = Known /\ names' = ns
  BY DEF ListClusters
<1>3. ns \in Seq(Known) /\ Distinct(ns)
  BY <1>1, <1>2, Enumeration
<1>4. Known \subseteq Clusters
  BY DEF Known
<1> QED BY <1>2, <1>3, <1>4

\* Nothing that PolicyOK and WorkOK speak of changes.
LEMMA Untouched ==
  ASSUME PolicyOK, UNCHANGED policyVars
  PROVE  /\ PolicyOK'
         /\ WorkOK /\ UNCHANGED workVars /\ queue' \subseteq Keys => WorkOK'
  BY DEF PolicyOK, policyVars, Coherent, Clean, Distinct, WorkOK, workVars, Covers

\* Clusters join and leave, and their informer moves on.
LEMMA ClusterStep ==
  ASSUME IInv, NEW c \in Clusters,
         Join(c) \/ Unjoin(c) \/ Gone(c) \/ DeliverCluster(c) \/ RelistCluster(c)
  PROVE  IInv'
<1>1. UNCHANGED policyVars /\ UNCHANGED workVars /\ queue' \subseteq Keys
  BY DEF Join, Unjoin, Gone, ClusterBecomes, DeliverCluster, RelistCluster,
         ObserveCluster, IInv, WorkOK, Keys
<1>2. ASSUME NEW state \in States, ClusterBecomes(c, state) PROVE ClustersOK'
  BY <1>2, AppendProperties DEF ClusterBecomes, IInv, ClustersOK
<1>3. ASSUME NEW rest \in Seq(States), NEW new \in States, ObserveCluster(c, new),
             clusterWatch' = [clusterWatch EXCEPT ![c] = rest]
      PROVE  ClustersOK'
  BY <1>3 DEF ObserveCluster, IInv, ClustersOK
<1>4. ClustersOK'
  <2>1. CASE Join(c) \/ Unjoin(c) \/ Gone(c)
    BY <1>2, <2>1 DEF Join, Unjoin, Gone, States
  <2>2. CASE DeliverCluster(c)
    <3>1. clusterWatch[c] \in Seq(States) /\ clusterWatch[c] # <<>>
      BY <2>2 DEF DeliverCluster, IInv, ClustersOK
    <3>2. Head(clusterWatch[c]) \in States /\ Tail(clusterWatch[c]) \in Seq(States)
      BY <3>1, HeadTailProperties
    <3> QED BY <1>3, <2>2, <3>2 DEF DeliverCluster
  <2>3. CASE RelistCluster(c)
    <3>1. cluster[c] \in States /\ <<>> \in Seq(States)
      BY EmptySeq DEF IInv, ClustersOK
    <3> QED BY <1>3, <2>3, <3>1 DEF RelistCluster
  <2> QED BY <2>1, <2>2, <2>3
<1> QED BY <1>1, <1>4, Untouched DEF IInv

\* A reconcile gets a key and reads the cluster.
LEMMA Started ==
  ASSUME IInv, NEW k \in Keys, Reconcile(k)
  PROVE  IInv'
<1>1. target' = Target(k) /\ key' = k /\ pc' = "getPolicy"
      /\ UNCHANGED <<clusterVars, policyVars, names, fresh>> /\ queue' \subseteq Keys
  BY DEF Reconcile, IInv, WorkOK
<1>2. target' \in Targets /\ (target'.t = "ensure" => target'.name \in Clusters)
  BY <1>1 DEF Target, Targets, Names
<1>3. ~fresh /\ ~fresh'
  BY <1>1 DEF Reconcile, IInv, WorkOK
<1>4. WorkOK'
  BY <1>1, <1>2, <1>3 DEF IInv, WorkOK, Distinct
<1>5. ClustersOK'
  BY <1>1 DEF IInv, ClustersOK, clusterVars
<1> QED BY <1>1, <1>4, <1>5, Untouched DEF IInv

\* A write to the policy by the worker, which then returns.
LEMMA Written ==
  ASSUME IInv, Commit(names), Return, queue' = queue \/ queue' = queue \cup {key},
         UNCHANGED clusterVars
  PROVE  IInv'
<1>1. names \in Policies /\ Clean(names)
  BY DEF IInv, WorkOK, Policies, Clean
<1>2. PolicyOK' /\ WorkOK'
  BY <1>1, Committed, Returned DEF IInv
<1> QED BY <1>2 DEF IInv, ClustersOK, clusterVars

\* A call that leaves the policy alone, after which the key is queued again.
LEMMA Failed ==
  ASSUME IInv, Requeue, UNCHANGED <<clusterVars, policyVars>>
  PROVE  IInv'
<1>1. WorkOK'
  BY Returned DEF IInv, Requeue
<1> QED BY <1>1, Untouched DEF IInv, ClustersOK, clusterVars

\* Initially the invariant holds.
LEMMA Initially ==
  ASSUME Init
  PROVE  IInv
<1>1. ClustersOK
  BY EmptySeq DEF Init, ClustersOK, States
<1>2. PolicyOK
  BY EmptySeq DEF Init, PolicyOK, Policies, Coherent, Clean
<1>3. WorkOK
  <2>1. target \in Targets /\ target.t # "ensure"
    BY DEF Init, NoTarget, Targets, Names
  <2>2. names \in Seq(Clusters) /\ Distinct(names)
    BY EmptySeq DEF Init, Distinct
  <2> QED BY <2>1, <2>2 DEF Init, WorkOK, Keys
<1> QED BY <1>1, <1>2, <1>3 DEF IInv

\* Every step keeps it.
LEMMA Inductive ==
  ASSUME IInv, [Next]_vars
  PROVE  IInv'
<1>1. CASE UNCHANGED vars
  BY <1>1, Untouched
     DEF vars, clusterVars, IInv, ClustersOK, WorkOK, workVars
<1>2. ASSUME NEW c \in Clusters,
             Join(c) \/ Unjoin(c) \/ Gone(c) \/ DeliverCluster(c) \/ RelistCluster(c)
      PROVE  IInv'
  BY <1>2, ClusterStep
<1>3. CASE DeletePolicy
  <2>1. PolicyOK'
    BY <1>3, Committed DEF DeletePolicy, IInv, Policies, Clean
  <2>2. WorkOK'
    BY <1>3 DEF DeletePolicy, IInv, WorkOK, Distinct
  <2> QED BY <1>3, <2>1, <2>2 DEF DeletePolicy, IInv, ClustersOK, clusterVars
<1>4. CASE DeliverPolicy \/ RelistPolicy
  <2>1. UNCHANGED clusterVars
    BY <1>4 DEF DeliverPolicy, RelistPolicy, ObservePolicy
  <2> QED BY <1>4, <2>1, Observed DEF IInv, ClustersOK, clusterVars
<1>5. ASSUME NEW k \in Keys, Reconcile(k) PROVE IInv'
  BY <1>5, Started
<1>6. CASE syncClusterPropagationPolicy
  BY <1>6, Synced DEF syncClusterPropagationPolicy, IInv, ClustersOK, clusterVars
<1>7. CASE ListClusters
  <2>1. /\ pc' = "create" /\ ~fresh
        /\ UNCHANGED <<clusterVars, policyVars, queue, key, target, fresh>>
    BY <1>7 DEF ListClusters, IInv, WorkOK
  <2>2. WorkOK'
    BY <1>7, <2>1, ListedClusters DEF IInv, WorkOK
  <2> QED BY <2>1, <2>2, Untouched DEF IInv, ClustersOK, clusterVars
<1>8. ASSUME NEW ok \in BOOLEAN, CreatePolicy(ok) \/ UpdatePolicy(ok) PROVE IInv'
  BY <1>8, Written DEF CreatePolicy, UpdatePolicy, Done, Requeue
<1>9. CASE Rejected \/ CallFails
  BY <1>9, Failed DEF Rejected, CallFails
<1>10. CASE Restart
  <2>1. ClustersOK'
    BY <1>10, EmptySeq DEF Restart, IInv, ClustersOK
  <2>2. PolicyOK'
    BY <1>10, EmptySeq DEF Restart, IInv, PolicyOK, Coherent, Clean, Distinct
  <2>3. queue' \subseteq Keys /\ key' \in Keys
    BY <1>10 DEF Restart, Return, Keys
  <2>4. target' \in Targets /\ target'.t # "ensure"
    BY <1>10 DEF Restart, Return, NoTarget, Targets, Names
  <2>5. names' \in Seq(Clusters) /\ Distinct(names')
    BY <1>10, EmptySeq DEF Restart, Return, Distinct
  <2>6. WorkOK'
    BY <1>10, <2>3, <2>4, <2>5 DEF Restart, Return, WorkOK
  <2> QED BY <2>1, <2>2, <2>6 DEF IInv
<1> QED BY <1>1, <1>2, <1>3, <1>4, <1>5, <1>6, <1>7, <1>8, <1>9, <1>10
        DEF Next, UserStep, HandlerStep, WorkStep, FaultStep

-----------------------------------------------------------------------------
\* The controller keeps to the invariant through any interleaving with users,
\* informers, failing calls and restarts.
THEOREM Invariance == Spec => []IInv
  BY Initially, Inductive, PTL DEF Spec

\* Only names of real clusters get into the policy, although a cluster that is
\* not found is reconciled under the empty name.
THEOREM TypeCorrect == Spec => []TypeOK
<1>1. IInv => TypeOK
  BY DEF IInv, ClustersOK, PolicyOK, WorkOK, TypeOK
<1> QED BY <1>1, Invariance, PTL

\* The policy never names a cluster twice.
THEOREM NeverTwice == Spec => []NoDuplicates
<1>1. IInv => NoDuplicates
  BY DEF IInv, PolicyOK, NoDuplicates
<1> QED BY <1>1, Invariance, PTL

\* No write of the policy drops a cluster other than the one reconciled.
THEOREM OthersKept == Spec => KeepsOthers
<1> DEFINE Keeps == policy # NotFound /\ policy' # NotFound =>
                      \A i \in 1 .. Len(policy) :
                        \/ policy[i] = target.name
                        \/ \E j \in 1 .. Len(policy') : policy'[j] = policy[i]
<1>1. ASSUME IInv, [Next]_vars PROVE [Keeps]_vars
  <2>1. CASE policy' = policy
    BY <2>1
  <2>2. CASE policy' # policy
    <3>1. policy' = NotFound \/ policy = NotFound \/ (fresh /\ policy' = names)
      BY <1>1, <2>2
         DEF Next, UserStep, HandlerStep, WorkStep, FaultStep, vars, policyVars,
             DeletePolicy, Commit, Join, Unjoin, Gone, ClusterBecomes, DeliverCluster,
             RelistCluster, ObserveCluster, DeliverPolicy, RelistPolicy, ObservePolicy,
             Reconcile, syncClusterPropagationPolicy, ListClusters, CreatePolicy,
             UpdatePolicy, Rejected, CallFails, Restart
    <3> QED BY <1>1, <3>1 DEF IInv, WorkOK, Covers
  <2> QED BY <2>1, <2>2
<1>2. IInv /\ [Next]_vars => [Keeps]_vars
  BY <1>1
<1> QED BY <1>2, Invariance, PTL DEF Spec, KeepsOthers
=============================================================================
