------------------------- MODULE MCIControllerProofs -------------------------
(***************************************************************************)
(* MCIController is safe for every set of MultiClusterIngresses, every     *)
(* provider and every lag of the informer: the proof of its inductive      *)
(* invariant IInv, and what follows from it.  The argument is the one of   *)
(* MCSControllerProofs; new are the patch without a version and the copy   *)
(* that the first status update reads again.                               *)
(***************************************************************************)
EXTENDS MCIController, SequenceTheorems, TLAPS

\* A step of the reconcile of n, of the informer on n or of a writer of n
\* leaves every other object, and all that is known of it, alone.
OnlyAbout(n) ==
  \A m \in Names \ {n} :
    /\ store'[m] = store[m] /\ watch'[m] = watch[m] /\ cache'[m] = cache[m]
    /\ pc'[m] = pc[m] /\ mci'[m] = mci[m] /\ fresh'[m] = fresh[m]
    /\ retried'[m] = retried[m] /\ retriedFresh'[m] = retriedFresh[m]
    /\ newBlock'[m] = newBlock[m] /\ lb'[m] = lb[m]

\* The invariant of m speaks of nothing but m.
LEMMA Frame ==
  ASSUME NEW n \in Names, OnlyAbout(n), \A m \in Names : SafeAt(m)
  PROVE  \A m \in Names \ {n} : SafeAt(m)'
  BY DEF OnlyAbout, SafeAt, Coherent, NoStaleLicence, AtStep, Guarded

\* Versions and copies of an MCI that the actions write are MCIs.
LEMMA RecordTypes ==
  ASSUME NEW m \in MCI
  PROVE  /\ \A k \in MCIClasses, c \in Cfgs :
              [m EXCEPT !.class = k, !.cfg = c] \in MCI
         /\ [m EXCEPT !.deleting = TRUE] \in MCI
         /\ \A h \in BOOLEAN : [m EXCEPT !.held = h] \in MCI
         /\ \A h \in BOOLEAN :
              [m EXCEPT !.finalizer = TRUE, !.held = h] \in MCI
         /\ \A f \in BOOLEAN : [m EXCEPT !.finalizer = f] \in MCI
         /\ \A l \in Locations : [m EXCEPT !.locations = l] \in MCI
         /\ \A b \in SUBSET Clusters : [m EXCEPT !.block = b] \in MCI
         /\ \A s \in Statuses : [m EXCEPT !.status = s] \in MCI
  BY DEF MCI

\* What a retry loop leaves behind when it ends.
LEMMA EndRetryType ==
  ASSUME TypeOK, NEW n \in Names, EndRetry(n)
  PROVE  /\ retried' \in [Names -> MCI \cup {NotFound}]
         /\ retriedFresh' \in [Names -> BOOLEAN]
         /\ newBlock' \in [Names -> SUBSET Clusters]
         /\ newStatus' \in [Names -> Statuses]
         /\ tries' \in [Names -> 0 .. RetrySteps - 1]
  BY ConstantsAssumption DEF TypeOK, EndRetry

\* What Reconcile leaves behind when it returns.
LEMMA ReturnType ==
  ASSUME TypeOK, NEW n \in Names, Return(n)
  PROVE  /\ pc' \in [Names -> Steps]
         /\ mci' \in [Names -> MCI \cup {NotFound}]
         /\ fresh' \in [Names -> BOOLEAN]
         /\ retried' \in [Names -> MCI \cup {NotFound}]
         /\ retriedFresh' \in [Names -> BOOLEAN]
         /\ newBlock' \in [Names -> SUBSET Clusters]
         /\ newStatus' \in [Names -> Statuses]
         /\ tries' \in [Names -> 0 .. RetrySteps - 1]
<1>1. /\ pc' \in [Names -> Steps]
      /\ mci' \in [Names -> MCI \cup {NotFound}]
      /\ fresh' \in [Names -> BOOLEAN]
  BY DEF TypeOK, Return, Goto, Steps
<1> QED BY <1>1, EndRetryType DEF Return

\* So do writes to the API server.
LEMMA CommitType ==
  ASSUME TypeOK, NEW n \in Names, NEW obj \in MCI \cup {NotFound},
         Commit(n, obj)
  PROVE  /\ store' \in [Names -> MCI \cup {NotFound}]
         /\ watch' \in [Names -> Seq(MCI \cup {NotFound})]
         /\ cache' \in [Names -> MCI \cup {NotFound}]
  BY DEF TypeOK, Commit

\* A step that leaves the backends and the channels alone keeps the types when
\* it keeps those of the objects, the reconciler and the load balancers.
ApiTypeOK ==
  /\ store \in [Names -> MCI \cup {NotFound}]
  /\ watch \in [Names -> Seq(MCI \cup {NotFound})]
  /\ cache \in [Names -> MCI \cup {NotFound}]

WorkTypeOK ==
  /\ pc \in [Names -> Steps]
  /\ mci \in [Names -> MCI \cup {NotFound}] /\ fresh \in [Names -> BOOLEAN]
  /\ retried \in [Names -> MCI \cup {NotFound}]
  /\ retriedFresh \in [Names -> BOOLEAN]
  /\ newBlock \in [Names -> SUBSET Clusters]
  /\ newStatus \in [Names -> Statuses]
  /\ tries \in [Names -> 0 .. RetrySteps - 1]

LEMMA TypesAssembled ==
  ASSUME TypeOK, ApiTypeOK', WorkTypeOK', lb' \in [Names -> LB \cup {NoLB}],
         queue' \subseteq Names, UNCHANGED <<backendVars, chanVars>>
  PROVE  TypeOK'
<1>1. UNCHANGED <<ingClass, service, secret, slice, cluster, svcEventChan,
                  mciEventChan>>
  BY DEF backendVars, chanVars
<1> QED BY <1>1 DEF TypeOK, ApiTypeOK, WorkTypeOK

\* The objects of MCIs keep their types when Reconcile returns, after a write
\* to the API server or after none.
LEMMA ReturnKeepsTypes ==
  ASSUME TypeOK, NEW n \in Names, Return(n), ApiTypeOK',
         queue' = queue \/ queue' = queue \cup {n},
         lb' \in [Names -> LB \cup {NoLB}], UNCHANGED <<backendVars, chanVars>>
  PROVE  TypeOK'
<1>1. queue' \subseteq Names
  BY DEF TypeOK
<1>2. WorkTypeOK'
  BY ReturnType DEF WorkTypeOK
<1> QED BY <1>1, <1>2, TypesAssembled

\* An update of fresh with a truth value keeps its type.
LEMMA BooleanUpdate ==
  ASSUME NEW f \in [Names -> BOOLEAN], NEW n \in Names, NEW b \in BOOLEAN
  PROVE  [f EXCEPT ![n] = b] \in [Names -> BOOLEAN]
  OBVIOUS

\* Events that list cached MCIs are events of MCIs.
LEMMA NotifyType ==
  ASSUME TypeOK, NEW listed \in SUBSET Cached, Notify(listed)
  PROVE  mciEventChan' \subseteq Names \X MCIClasses
<1>1. ASSUME NEW n \in listed PROVE n \in Names /\ cache[n].class \in MCIClasses
  BY DEF Cached, TypeOK, MCI
<1> QED BY <1>1 DEF Notify, TypeOK

HasFinalizer(m) == m # NotFound /\ m.finalizer

\* A copy that has the live version is the live object, but for the list that
\* is about to be written.
LEMMA FreshCopy ==
  ASSUME TypeOK, NEW n \in Names, AtStep(n), fresh[n]
  PROVE  /\ mci[n] \in MCI /\ store[n] \in MCI
         /\ mci[n].finalizer = store[n].finalizer
         /\ mci[n].held = store[n].held
         /\ mci[n].deleting = store[n].deleting
         /\ pc[n] # "block" => mci[n] = store[n]
<1>1. mci[n] \in MCI /\ store[n] \in MCI
  BY DEF TypeOK, AtStep
<1>2. mci[n] = [store[n] EXCEPT !.block = mci[n].block]
  BY DEF AtStep
<1>3. /\ mci[n].finalizer = store[n].finalizer
      /\ mci[n].held = store[n].held
      /\ mci[n].deleting = store[n].deleting
  BY <1>1, <1>2 DEF MCI
<1>4. ASSUME pc[n] # "block" PROVE mci[n] = store[n]
  <2>1. mci[n].block = store[n].block
    BY <1>4 DEF AtStep
  <2> QED BY <1>1, <1>2, <2>1 DEF MCI
<1> QED BY <1>1, <1>3, <1>4

\* So is the copy of an attempt that the API server accepts.
LEMMA AttemptedCopy ==
  ASSUME TypeOK, NEW n \in Names, AtStep(n), pc[n] = "block", AttemptFresh(n)
  PROVE  /\ AttemptCopy(n) \in MCI /\ store[n] \in MCI
         /\ AttemptCopy(n).finalizer = store[n].finalizer
         /\ AttemptCopy(n).held = store[n].held
         /\ fresh[n] => AttemptCopy(n) = mci[n]
<1>1. CASE retried[n] = NotFound
  BY <1>1, FreshCopy DEF AttemptFresh, AttemptCopy
<1>2. CASE retried[n] # NotFound
  BY <1>2 DEF AttemptFresh, AttemptCopy, AtStep, TypeOK
<1> QED BY <1>1, <1>2

\* Users and other controllers write MCIs and never touch the finalizer, and
\* they take one of their own off only by releasing it.
LEMMA OthersObjects ==
  ASSUME TypeOK, NEW n \in Names, OthersStep(n)
  PROVE  \E obj \in MCI \cup {NotFound} :
           /\ OthersWrite(n, obj)
           /\ HasFinalizer(obj) <=> Guarded(n)
           /\ Held(store[n]) /\ ~Held(obj) => ReleaseMCI(n)
<1> USE ConstantsAssumption
<1>1. ASSUME store[n] # NotFound PROVE store[n] \in MCI
  BY <1>1 DEF TypeOK
<1>2. CASE CreateMCI(n)
  <2> DEFINE new(k, c) ==
        [class |-> k, cfg |-> c, deleting |-> FALSE, finalizer |-> FALSE,
         held |-> FALSE, locations |-> [s \in {} |-> {}], block |-> {},
         status |-> EmptyStatus]
  <2>1. PICK k \in MCIClasses, c \in Cfgs : OthersWrite(n, new(k, c))
    BY <1>2 DEF CreateMCI
  <2>2. [s \in {} |-> {}] \in Locations
    <3>1. [s \in {} |-> {}] \in [{} -> SUBSET Clusters]
      OBVIOUS
    <3>2. {} \in SUBSET Services
      OBVIOUS
    <3> QED BY <3>1, <3>2 DEF Locations
  <2>3. new(k, c) \in MCI /\ ~new(k, c).finalizer
    BY <2>2 DEF MCI
  <2>4. store[n] = NotFound
    BY <1>2 DEF CreateMCI
  <2> HIDE DEF new
  <2> QED BY <2>1, <2>3, <2>4 DEF HasFinalizer, Guarded, Held
<1>3. CASE EditMCI(n)
  <2>1. PICK k \in MCIClasses, c \in Cfgs :
          OthersWrite(n, [store[n] EXCEPT !.class = k, !.cfg = c])
    BY <1>3 DEF EditMCI
  <2> DEFINE obj == [store[n] EXCEPT !.class = k, !.cfg = c]
  <2>2. obj \in MCI /\ store[n] # NotFound
    BY <1>1, <1>3, RecordTypes DEF EditMCI
  <2>3. obj.finalizer = store[n].finalizer /\ obj.held = store[n].held
    BY <1>1, <1>3 DEF EditMCI, MCI
  <2> HIDE DEF obj
  <2>4. /\ HasFinalizer(obj) <=> Guarded(n)
        /\ Held(store[n]) => Held(obj)
    BY <2>2, <2>3 DEF HasFinalizer, Guarded, Held
  <2> QED BY <2>1, <2>2, <2>4 DEF obj
<1>4. CASE DeleteMCI(n)
  <2> DEFINE obj == IF store[n].finalizer \/ store[n].held
                    THEN [store[n] EXCEPT !.deleting = TRUE] ELSE NotFound
  <2>1. OthersWrite(n, obj)
    BY <1>4 DEF DeleteMCI
  <2>2. obj \in MCI \cup {NotFound}
    BY <1>1, <1>4, RecordTypes DEF DeleteMCI
  <2>3. /\ HasFinalizer(obj) <=> Guarded(n)
        /\ Held(store[n]) => Held(obj)
    <3>1. store[n] \in MCI /\ store[n] # NotFound
      BY <1>1, <1>4 DEF DeleteMCI
    <3>2. CASE store[n].finalizer \/ store[n].held
      <4>1. obj = [store[n] EXCEPT !.deleting = TRUE]
        BY <3>2
      <4>2. obj \in MCI /\ obj # NotFound
        <5>1. obj \in MCI
          <6> HIDE DEF obj
          <6> QED BY <3>1, <4>1, RecordTypes
        <5>2. NotFound \notin MCI
          BY ConstantsAssumption
        <5> QED BY <5>1, <5>2
      <4>3. obj.finalizer = store[n].finalizer /\ obj.held = store[n].held
        BY <3>1, <4>1 DEF MCI
      <4> HIDE DEF obj
      <4> QED BY <3>1, <4>2, <4>3 DEF HasFinalizer, Guarded, Held
    <3>3. CASE ~(store[n].finalizer \/ store[n].held)
      BY <3>1, <3>3, Zenon DEF HasFinalizer, Guarded, Held
    <3> QED BY <3>2, <3>3
  <2> HIDE DEF obj
  <2> QED BY <2>1, <2>2, <2>3
<1>5. CASE HoldMCI(n)
  <2> DEFINE obj == [store[n] EXCEPT !.held = TRUE]
  <2>1. OthersWrite(n, obj)
    BY <1>5 DEF HoldMCI
  <2>2. obj \in MCI
    BY <1>1, <1>5, RecordTypes DEF HoldMCI
  <2>3. /\ HasFinalizer(obj) <=> Guarded(n)
        /\ Held(store[n]) => Held(obj)
    BY <1>1, <1>5 DEF HoldMCI, HasFinalizer, Guarded, Held, MCI
  <2> HIDE DEF obj
  <2> QED BY <2>1, <2>2, <2>3
<1>6. CASE ReleaseMCI(n)
  <2> DEFINE obj == IF store[n].finalizer
                    THEN [store[n] EXCEPT !.held = FALSE] ELSE NotFound
  <2>1. OthersWrite(n, obj)
    BY <1>6 DEF ReleaseMCI
  <2>2. obj \in MCI \cup {NotFound}
    BY <1>1, <1>6, RecordTypes DEF ReleaseMCI
  <2>3. HasFinalizer(obj) <=> Guarded(n)
    <3>1. store[n] \in MCI /\ store[n] # NotFound
      BY <1>1, <1>6 DEF ReleaseMCI
    <3>2. CASE store[n].finalizer
      <4>1. obj = [store[n] EXCEPT !.held = FALSE]
        BY <3>2
      <4>2. obj \in MCI /\ obj # NotFound
        <5>1. obj \in MCI
          <6> HIDE DEF obj
          <6> QED BY <3>1, <4>1, RecordTypes
        <5>2. NotFound \notin MCI
          BY ConstantsAssumption
        <5> QED BY <5>1, <5>2
      <4>3. obj.finalizer = store[n].finalizer
        BY <3>1, <4>1 DEF MCI
      <4> HIDE DEF obj
      <4> QED BY <3>1, <4>2, <4>3 DEF HasFinalizer, Guarded
    <3>3. CASE ~store[n].finalizer
      BY <3>1, <3>3, Zenon DEF HasFinalizer, Guarded
    <3> QED BY <3>2, <3>3
  <2> HIDE DEF obj
  <2> QED BY <1>6, <2>1, <2>2, <2>3
<1>7. CASE LocateServices(n)
  <2>1. PICK l \in Locations : OthersWrite(n, [store[n] EXCEPT !.locations = l])
    BY <1>7 DEF LocateServices
  <2> DEFINE obj == [store[n] EXCEPT !.locations = l]
  <2>2. obj \in MCI /\ store[n] # NotFound
    BY <1>1, <1>7, RecordTypes DEF LocateServices
  <2>3. obj.finalizer = store[n].finalizer /\ obj.held = store[n].held
    BY <1>1, <1>7 DEF LocateServices, MCI
  <2> HIDE DEF obj
  <2>4. /\ HasFinalizer(obj) <=> Guarded(n)
        /\ Held(store[n]) => Held(obj)
    BY <2>2, <2>3 DEF HasFinalizer, Guarded, Held
  <2> QED BY <2>1, <2>2, <2>4 DEF obj
<1> QED BY <1>2, <1>3, <1>4, <1>5, <1>6, <1>7 DEF OthersStep

-----------------------------------------------------------------------------
\* Users, other controllers, the informer and the handlers keep the types.
LEMMA EnvironmentType ==
  ASSUME TypeOK,
         \/ \E n \in Names : OthersStep(n) \/ Relist(n)
         \/ HandlerStep \/ BackendStep \/ Restart
  PROVE  TypeOK'
<1> USE ConstantsAssumption
<1>1. ASSUME NEW n \in Names, OthersStep(n) PROVE TypeOK'
  <2>1. PICK obj \in MCI \cup {NotFound} : OthersWrite(n, obj)
    BY <1>1, OthersObjects
  <2>2. /\ Commit(n, obj) /\ Outdate(n)
        /\ UNCHANGED <<backendVars, chanVars, queue, pc, mci, retried,
                       newBlock, newStatus, tries, lb>>
    BY <2>1 DEF OthersWrite
  <2>3. ApiTypeOK'
    BY <2>2, CommitType DEF ApiTypeOK
  <2>4. WorkTypeOK'
    BY <2>2 DEF WorkTypeOK, TypeOK, Outdate
  <2> QED BY <2>2, <2>3, <2>4, TypesAssembled DEF TypeOK
<1>2. ASSUME NEW n \in Names, NEW new \in MCI \cup {NotFound}, Observe(n, new),
             watch' \in [Names -> Seq(MCI \cup {NotFound})]
      PROVE  TypeOK'
  BY <1>2 DEF Observe, TypeOK, backendVars, chanVars, workVars, retryVars
<1>3. ASSUME NEW n \in Names, Deliver(n) PROVE TypeOK'
  <2>1. watch[n] \in Seq(MCI \cup {NotFound}) /\ watch[n] # <<>>
    BY <1>3 DEF Deliver, TypeOK
  <2>2. /\ Head(watch[n]) \in MCI \cup {NotFound}
        /\ Tail(watch[n]) \in Seq(MCI \cup {NotFound})
    BY <2>1, HeadTailProperties
  <2>3. watch' \in [Names -> Seq(MCI \cup {NotFound})]
    BY <1>3, <2>2 DEF Deliver, TypeOK
  <2> QED BY <1>2, <1>3, <2>2, <2>3 DEF Deliver
<1>4. ASSUME NEW n \in Names, Relist(n) PROVE TypeOK'
  <2>1. watch' \in [Names -> Seq(MCI \cup {NotFound})]
    BY <1>4, EmptySeq DEF Relist, TypeOK
  <2>2. store[n] \in MCI \cup {NotFound}
    BY DEF TypeOK
  <2> QED BY <1>2, <1>4, <2>1, <2>2 DEF Relist
<1>5. ASSUME NEW n \in Names, MCIGeneric(n) PROVE TypeOK'
  BY <1>5 DEF MCIGeneric, TypeOK, apiVars, backendVars, workVars, retryVars
\* The events of Services, Secrets, EndpointSlices and clusters
<1>6. ASSUME mciEventChan' \subseteq Names \X MCIClasses,
             svcEventChan' \subseteq Services,
             service' \in [Services -> Versions \cup {NotFound}],
             secret' \in [Secrets -> Versions \cup {NotFound}],
             slice' \in [Slices -> Versions \cup {NotFound}],
             cluster' \in [Clusters -> {"absent", "clean", "blocked"}],
             UNCHANGED <<apiVars, ingClass, queue, workVars, lb>>
      PROVE  TypeOK'
  BY <1>6 DEF TypeOK, apiVars, workVars, retryVars
<1>7. ASSUME NEW s \in Services, ServiceGeneric(s) PROVE TypeOK'
  <2>1. mciEventChan' \subseteq Names \X MCIClasses
    BY <1>7, NotifyType DEF ServiceGeneric, ReferTo
  <2>2. svcEventChan' \subseteq Services
    BY <1>7 DEF ServiceGeneric, TypeOK
  <2> QED
    BY <1>6, <1>7, <2>1, <2>2 DEF ServiceGeneric, TypeOK, backendVars
<1>8. ASSUME NEW s \in Services, ServiceEvent(s) PROVE TypeOK'
  <2>1. mciEventChan' \subseteq Names \X MCIClasses
    BY <1>8, NotifyType DEF ServiceEvent, ReferTo
  <2>2. service' \in [Services -> Versions \cup {NotFound}]
    BY <1>8 DEF ServiceEvent, TypeOK
  <2> QED BY <1>6, <1>8, <2>1, <2>2 DEF ServiceEvent, TypeOK
<1>9. ASSUME NEW s \in Secrets, SecretEvent(s) PROVE TypeOK'
  <2>1. mciEventChan' \subseteq Names \X MCIClasses
    BY <1>9, NotifyType DEF SecretEvent, ReferToSecret
  <2>2. secret' \in [Secrets -> Versions \cup {NotFound}]
    BY <1>9 DEF SecretEvent, TypeOK
  <2> QED BY <1>6, <1>9, <2>1, <2>2 DEF SecretEvent, TypeOK
<1>10. ASSUME NEW s \in Slices, EndpointSliceEvent(s) PROVE TypeOK'
  <2>1. svcEventChan' \subseteq Services
    BY <1>10
    DEF EndpointSliceEvent, enqueueImpactedSvc, TrimPrefix, TypeOK, Labels
  <2>2. slice' \in [Slices -> Versions \cup {NotFound}]
    BY <1>10 DEF EndpointSliceEvent, TypeOK
  <2> QED BY <1>6, <1>10, <2>1, <2>2 DEF EndpointSliceEvent, TypeOK
<1>11. ASSUME NEW c \in Clusters, ClusterEvent(c) PROVE TypeOK'
  <2>1. PICK v \in {"absent", "clean", "blocked"} :
          /\ cluster' = [cluster EXCEPT ![c] = v]
          /\ Notify(IF NotifiedByCluster(cluster[c], v)
                    THEN {n \in Cached : mciSvcLocationsContainsCluster(n, c)}
                    ELSE {})
    BY <1>11 DEF ClusterEvent
  <2>2. mciEventChan' \subseteq Names \X MCIClasses
    BY <2>1, NotifyType
  <2>3. cluster' \in [Clusters -> {"absent", "clean", "blocked"}]
    BY <2>1 DEF TypeOK
  <2> QED BY <1>6, <1>11, <2>2, <2>3 DEF ClusterEvent, TypeOK
<1>12. ASSUME NEW k \in Classes, IngressClassEvent(k) PROVE TypeOK'
  BY <1>12
  DEF IngressClassEvent, TypeOK, apiVars, chanVars, workVars, retryVars
<1>13. CASE Restart
  <2>1. ASSUME NEW n \in Names, store[n] # NotFound
        PROVE  store[n].class \in MCIClasses
    BY <2>1 DEF TypeOK, MCI
  <2>2. mciEventChan' \subseteq Names \X MCIClasses
    BY <1>13, <2>1 DEF Restart
  <2>3. svcEventChan' \subseteq Services
    BY <1>13 DEF Restart, TrimPrefix, Labels
  <2>4. ApiTypeOK' /\ WorkTypeOK' /\ queue' \subseteq Names
    BY <1>13, EmptySeq DEF Restart, ApiTypeOK, WorkTypeOK, Steps, TypeOK
  <2>5. UNCHANGED <<ingClass, service, secret, slice, cluster, lb>>
    BY <1>13 DEF Restart, backendVars
  <2> QED
    BY <2>2, <2>3, <2>4, <2>5 DEF TypeOK, ApiTypeOK, WorkTypeOK
<1> QED
  BY <1>1, <1>3, <1>4, <1>5, <1>7, <1>8, <1>9, <1>10, <1>11, <1>12, <1>13
  DEF HandlerStep, BackendStep

\* The steps of the reconciler keep the types, given that it has a copy.
LEMMA WorkType ==
  ASSUME TypeOK, NEW n \in Names, AtStep(n), WorkStep(n) \/ FailedCall(n)
  PROVE  TypeOK'
<1> USE ConstantsAssumption
<1>1. ASSUME pc[n] # "idle" PROVE mci[n] \in MCI
  BY <1>1 DEF TypeOK, AtStep
<1>2. ASSUME UNCHANGED apiVars PROVE ApiTypeOK'
  BY <1>2 DEF apiVars, ApiTypeOK, TypeOK
<1>3. ASSUME UNCHANGED lb PROVE lb' \in [Names -> LB \cup {NoLB}]
  BY <1>3 DEF TypeOK
\* A step of the reconciler that goes on without a return
<1>4. ASSUME ApiTypeOK', NEW step \in Steps, Goto(n, step), queue' = queue,
             lb' \in [Names -> LB \cup {NoLB}],
             mci' \in [Names -> MCI \cup {NotFound}],
             fresh' \in [Names -> BOOLEAN],
             retried' \in [Names -> MCI \cup {NotFound}],
             retriedFresh' \in [Names -> BOOLEAN],
             newBlock' \in [Names -> SUBSET Clusters],
             newStatus' \in [Names -> Statuses],
             tries' \in [Names -> 0 .. RetrySteps - 1],
             UNCHANGED <<backendVars, chanVars>>
      PROVE  TypeOK'
  <2>1. pc' \in [Names -> Steps] /\ queue' \subseteq Names
    BY <1>4 DEF Goto, TypeOK
  <2> QED BY <1>4, <2>1, TypesAssembled DEF WorkTypeOK
<1>5. CASE CallFails(n) \/ PatchRejected(n) \/ UpdateRejected(n)
  <2>1. /\ Return(n) /\ queue' = queue \cup {n}
        /\ UNCHANGED <<apiVars, backendVars, chanVars, lb>>
    BY <1>5 DEF CallFails, PatchRejected, UpdateRejected, Requeue
  <2> QED BY <1>2, <1>3, <2>1, ReturnKeepsTypes
<1>6. CASE Reconcile(n)
  <2>1. /\ queue' = queue \ {n}
        /\ UNCHANGED <<apiVars, backendVars, chanVars, retried, retriedFresh,
                       newBlock, newStatus, tries, lb>>
    BY <1>6 DEF Reconcile, retryVars
  <2>2. fresh' \in [Names -> BOOLEAN]
    <3>1. (watch[n] = <<>>) \in BOOLEAN
      OBVIOUS
    <3>2. fresh \in [Names -> BOOLEAN]
      BY DEF TypeOK
    <3>3. \/ fresh' = fresh
          \/ fresh' = [fresh EXCEPT ![n] = (watch[n] = <<>>)]
      BY <1>6, Zenon DEF Reconcile
    <3> QED BY <3>1, <3>2, <3>3, BooleanUpdate, Zenon
  <2>3. pc' \in [Names -> Steps] /\ mci' \in [Names -> MCI \cup {NotFound}]
    <3> DEFINE step == IF cache[n].deleting THEN handleMCIDelete(cache[n])
                       ELSE handleMCICreateOrUpdate(cache[n])
    <3>1. step \in Steps
      BY DEF handleMCIDelete, handleMCICreateOrUpdate, Steps
    <3>2. pc' = pc \/ pc' = [pc EXCEPT ![n] = step]
      BY <1>6, Zenon DEF Reconcile, Goto
    <3>3. mci' = mci \/ mci' = [mci EXCEPT ![n] = cache[n]]
      BY <1>6, Zenon DEF Reconcile
    <3> HIDE DEF step
    <3>4. pc' \in [Names -> Steps]
      BY <3>1, <3>2 DEF TypeOK
    <3>5. [mci EXCEPT ![n] = cache[n]] \in [Names -> MCI \cup {NotFound}]
      BY DEF TypeOK
    <3>6. mci' \in [Names -> MCI \cup {NotFound}]
      BY <3>3, <3>5, Zenon DEF TypeOK
    <3> QED BY <3>4, <3>6
  <2> QED
    BY <1>2, <1>3, <2>1, <2>2, <2>3, TypesAssembled DEF WorkTypeOK, TypeOK
<1>7. ASSUME NEW ok \in BOOLEAN, AddFinalizer(n, ok) PROVE TypeOK'
  <2> DEFINE obj == [store[n] EXCEPT !.finalizer = TRUE, !.held = mci[n].held]
  <2>1. obj \in MCI
    <3>1. mci[n] \in MCI /\ store[n] \in MCI
      BY <1>1, <1>7 DEF AddFinalizer, PatchAllowed, TypeOK
    <3>2. mci[n].held \in BOOLEAN
      BY <3>1 DEF MCI
    <3> QED BY <3>1, <3>2, RecordTypes
  <2>2. Commit(n, obj) /\ UNCHANGED <<backendVars, chanVars, lb>>
    BY <1>7 DEF AddFinalizer
  <2> HIDE DEF obj
  <2>3. ApiTypeOK'
    BY <2>1, <2>2, CommitType DEF ApiTypeOK
  <2>4. CASE ok
    <3>1. /\ Goto(n, "listClusters") /\ fresh' = [fresh EXCEPT ![n] = FALSE]
          /\ UNCHANGED <<mci, retried, retriedFresh, newBlock, newStatus,
                         tries, queue>>
      BY <1>7, <2>4 DEF AddFinalizer, retryVars
    <3> QED BY <1>3, <1>4, <2>2, <2>3, <3>1 DEF Steps, TypeOK
  <2>5. CASE ~ok
    <3>1. Return(n) /\ queue' = queue \cup {n}
      BY <1>7, <2>5 DEF AddFinalizer, Requeue
    <3> QED BY <1>3, <2>2, <2>3, <3>1, ReturnKeepsTypes
  <2> QED BY <2>4, <2>5
<1>8. CASE ListClusters(n)
  <2> DEFINE block == Located(mci[n].locations) \cap Blocked
  <2>1. block \in SUBSET Clusters
    BY DEF Blocked
  <2>2. [mci[n] EXCEPT !.block = block] \in MCI
    BY <1>1, <1>8, <2>1, RecordTypes DEF ListClusters
  <2>3. PICK step \in {"getLB", "block"} :
          /\ Goto(n, step)
          /\ mci' = [mci EXCEPT ![n] = [mci[n] EXCEPT !.block = block]]
          /\ newBlock' = newBlock \/ newBlock' = [newBlock EXCEPT ![n] = block]
          /\ UNCHANGED <<apiVars, backendVars, chanVars, queue, fresh, retried,
                         retriedFresh, newStatus, tries, lb>>
    BY <1>8 DEF ListClusters
  <2> HIDE DEF block
  <2>4. /\ mci' \in [Names -> MCI \cup {NotFound}]
        /\ newBlock' \in [Names -> SUBSET Clusters]
    BY <2>1, <2>2, <2>3 DEF TypeOK
  <2> QED BY <1>2, <1>3, <1>4, <2>3, <2>4 DEF Steps, TypeOK
<1>9. ASSUME NEW ok \in BOOLEAN, UpdateBlock(n, ok) PROVE TypeOK'
  <2> DEFINE obj == [AttemptCopy(n) EXCEPT !.block = newBlock[n]]
  <2>1. obj \in MCI
    <3>1. AttemptCopy(n) \in MCI /\ newBlock[n] \in SUBSET Clusters
      BY <1>9, AttemptedCopy DEF UpdateBlock, TypeOK
    <3> QED BY <3>1, RecordTypes
  <2>2. Commit(n, obj) /\ UNCHANGED <<backendVars, chanVars, lb>>
    BY <1>9 DEF UpdateBlock
  <2> HIDE DEF obj
  <2>3. ApiTypeOK'
    BY <2>1, <2>2, CommitType DEF ApiTypeOK
  <2>4. CASE ok
    <3>1. Goto(n, "getLB") /\ EndRetry(n) /\ UNCHANGED <<mci, fresh, queue>>
      BY <1>9, <2>4 DEF UpdateBlock
    <3> QED BY <1>3, <1>4, <2>2, <2>3, <3>1, EndRetryType DEF Steps, TypeOK
  <2>5. CASE ~ok
    <3>1. Return(n) /\ queue' = queue \cup {n}
      BY <1>9, <2>5 DEF UpdateBlock, Requeue
    <3> QED BY <1>3, <2>2, <2>3, <3>1, ReturnKeepsTypes
  <2> QED BY <2>4, <2>5
<1>10. CASE RetryBlock(n)
  <2>1. UNCHANGED <<apiVars, backendVars, chanVars, lb>>
    BY <1>10 DEF RetryBlock
  <2>2. CASE Requeue(n)
    BY <1>2, <1>3, <2>1, <2>2, ReturnKeepsTypes DEF Requeue
  <2>3. CASE Goto(n, "getLB") /\ EndRetry(n) /\ UNCHANGED <<mci, fresh, queue>>
    BY <1>2, <1>3, <1>4, <2>1, <2>3, EndRetryType DEF Steps, TypeOK
  <2>4. CASE /\ Retriable(n) /\ tries' = [tries EXCEPT ![n] = @ + 1]
             /\ retried' = [retried EXCEPT ![n] = cache[n]]
             /\ retriedFresh' = [retriedFresh EXCEPT ![n] = watch[n] = <<>>]
             /\ UNCHANGED <<pc, mci, fresh, newBlock, newStatus, queue>>
    <3>1. retriedFresh' \in [Names -> BOOLEAN]
      <4>1. (watch[n] = <<>>) \in BOOLEAN
        OBVIOUS
      <4>2. retriedFresh \in [Names -> BOOLEAN]
        BY DEF TypeOK
      <4> QED BY <2>4, <4>1, <4>2, BooleanUpdate, Zenon
    <3>2. /\ tries' \in [Names -> 0 .. RetrySteps - 1]
          /\ retried' \in [Names -> MCI \cup {NotFound}]
      BY <2>4 DEF Retriable, TypeOK
    <3> QED
      BY <1>2, <1>3, <2>1, <2>4, <3>1, <3>2, TypesAssembled
      DEF WorkTypeOK, TypeOK
  <2> QED BY <1>10, <2>2, <2>3, <2>4 DEF RetryBlock
<1>11. CASE GetLoadBalancer(n)
  <2>1. PICK step \in {"ensure", "update"} :
          /\ Goto(n, step)
          /\ UNCHANGED <<apiVars, backendVars, chanVars, queue, mci, fresh,
                         retried, retriedFresh, newBlock, newStatus, tries, lb>>
    BY <1>11 DEF GetLoadBalancer, CreateOrUpdateStep, retryVars
  <2> QED BY <1>2, <1>3, <1>4, <2>1 DEF Steps, TypeOK
<1>12. ASSUME NEW ok \in BOOLEAN,
              handleMCICreate(n, ok) \/ handleMCIUpdate(n, ok)
       PROVE  TypeOK'
  <2>1. PICK step \in {"ensure", "update"} : CallProvider(n, step, ok)
    BY <1>12 DEF handleMCICreate, handleMCIUpdate
  <2>2. mci[n] \in MCI
    BY <1>1, <2>1 DEF CallProvider
  <2>3. Programmed(n) \in LB
    BY <2>2 DEF Programmed, LB, MCI, TypeOK
  <2>4. /\ lb' \in [Names -> LB \cup {NoLB}]
        /\ UNCHANGED <<apiVars, backendVars, chanVars>>
    BY <2>1, <2>3 DEF CallProvider, TypeOK
  <2>5. CASE Done(n) \/ Requeue(n)
    BY <1>2, <2>4, <2>5, ReturnKeepsTypes DEF Done, Requeue
  <2>6. CASE ~(Done(n) \/ Requeue(n))
    <3>1. PICK status \in ProviderStatus :
            /\ status # NilStatus
            /\ Goto(n, "status")
            /\ newStatus' = [newStatus EXCEPT ![n] = status]
            /\ UNCHANGED <<mci, fresh, retried, retriedFresh, newBlock, tries,
                           queue>>
      BY <2>1, <2>6 DEF CallProvider, updateMCIStatus
    <3>2. newStatus' \in [Names -> Statuses]
      BY <3>1 DEF TypeOK
    <3> QED BY <1>2, <1>4, <2>4, <3>1, <3>2 DEF Steps, TypeOK
  <2> QED BY <2>5, <2>6
<1>13. ASSUME NEW ok \in BOOLEAN, UpdateStatus(n, ok) PROVE TypeOK'
  <2> DEFINE obj == [mci[n] EXCEPT !.status = newStatus[n]]
  <2>1. obj \in MCI
    <3>1. mci[n] \in MCI /\ newStatus[n] \in Statuses
      BY <1>1, <1>13 DEF UpdateStatus, TypeOK
    <3> QED BY <3>1, RecordTypes
  <2>2. /\ Commit(n, obj) /\ Return(n)
        /\ queue' = queue \/ queue' = queue \cup {n}
        /\ UNCHANGED <<backendVars, chanVars, lb>>
    BY <1>13 DEF UpdateStatus, Answered, Done, Requeue
  <2> HIDE DEF obj
  <2>3. ApiTypeOK'
    BY <2>1, <2>2, CommitType DEF ApiTypeOK
  <2> QED BY <1>3, <2>2, <2>3, ReturnKeepsTypes
<1>14. CASE RetryStatus(n)
  <2>1. UNCHANGED <<apiVars, backendVars, chanVars, lb>>
    BY <1>14 DEF RetryStatus
  <2>2. CASE Requeue(n)
    BY <1>2, <1>3, <2>1, <2>2, ReturnKeepsTypes DEF Requeue
  <2>3. CASE ~Requeue(n)
    <3>1. /\ Retriable(n) /\ tries' = [tries EXCEPT ![n] = @ + 1]
          /\ mci' = IF cache[n] = NotFound THEN mci
                    ELSE [mci EXCEPT ![n] = cache[n]]
          /\ UNCHANGED <<pc, retried, retriedFresh, newBlock, newStatus, queue>>
      BY <1>14, <2>3 DEF RetryStatus
    <3>2. fresh' \in [Names -> BOOLEAN]
      <4>1. (cache[n] # NotFound /\ watch[n] = <<>>) \in BOOLEAN
        OBVIOUS
      <4>2. fresh \in [Names -> BOOLEAN]
        BY DEF TypeOK
      <4>3. fresh' = [fresh EXCEPT
                        ![n] = (cache[n] # NotFound /\ watch[n] = <<>>)]
        BY <1>14, <2>3, Zenon DEF RetryStatus
      <4> QED BY <4>1, <4>2, <4>3, BooleanUpdate, Zenon
    <3>3. /\ tries' \in [Names -> 0 .. RetrySteps - 1]
          /\ mci' \in [Names -> MCI \cup {NotFound}]
      BY <3>1 DEF Retriable, TypeOK
    <3> QED
      BY <1>2, <1>3, <2>1, <3>1, <3>2, <3>3, TypesAssembled
      DEF WorkTypeOK, TypeOK
  <2> QED BY <2>2, <2>3
<1>15. ASSUME NEW ok \in BOOLEAN, EnsureLoadBalancerDeleted(n, ok)
       PROVE  TypeOK'
  <2>1. /\ lb' \in [Names -> LB \cup {NoLB}]
        /\ UNCHANGED <<apiVars, backendVars, chanVars>>
    BY <1>15 DEF EnsureLoadBalancerDeleted, TypeOK
  <2>2. CASE Done(n) \/ Requeue(n)
    BY <1>2, <2>1, <2>2, ReturnKeepsTypes DEF Done, Requeue
  <2>3. CASE ~(Done(n) \/ Requeue(n))
    <3>1. /\ Goto(n, "removeFinalizer")
          /\ UNCHANGED <<mci, fresh, retried, retriedFresh, newBlock,
                         newStatus, tries, queue>>
      BY <1>15, <2>3 DEF EnsureLoadBalancerDeleted, retryVars
    <3> QED BY <1>2, <1>4, <2>1, <3>1 DEF Steps, TypeOK
  <2> QED BY <2>2, <2>3
<1>16. ASSUME NEW ok \in BOOLEAN, RemoveFinalizer(n, ok) PROVE TypeOK'
  <2> DEFINE obj == IF mci[n].held THEN [mci[n] EXCEPT !.finalizer = FALSE]
                                   ELSE NotFound
  <2>1. obj \in MCI \cup {NotFound}
    BY <1>1, <1>16, RecordTypes DEF RemoveFinalizer
  <2>2. /\ Commit(n, obj) /\ Return(n)
        /\ queue' = queue \/ queue' = queue \cup {n}
        /\ UNCHANGED <<backendVars, chanVars, lb>>
    BY <1>16 DEF RemoveFinalizer, Answered, Done, Requeue
  <2> HIDE DEF obj
  <2>3. ApiTypeOK'
    BY <2>1, <2>2, CommitType DEF ApiTypeOK
  <2> QED BY <1>3, <2>2, <2>3, ReturnKeepsTypes
<1> QED
  BY <1>5, <1>6, <1>7, <1>8, <1>9, <1>10, <1>11, <1>12, <1>13, <1>14, <1>15,
     <1>16
  DEF WorkStep, FailedCall

-----------------------------------------------------------------------------
\* A committed version is the newest one, and licenses nothing unless it has
\* the finalizer.
LEMMA CommitSafe ==
  ASSUME TypeOK, NEW n \in Names, NEW obj \in MCI \cup {NotFound},
         Commit(n, obj), Coherent(n), NoStaleLicence(n),
         HasFinalizer(obj) \/ ~Guarded(n)
  PROVE  /\ Coherent(n)'
         /\ NoStaleLicence(n)'
         /\ Guarded(n)' <=> HasFinalizer(obj)
         /\ store'[n] = obj
<1>1. store'[n] = obj /\ cache' = cache
  BY DEF Commit, TypeOK
<1>2. watch'[n] = IF obj = store[n] THEN watch[n] ELSE Append(watch[n], obj)
  BY DEF Commit, TypeOK
<1>3. watch[n] \in Seq(MCI \cup {NotFound})
  BY DEF TypeOK
<1>4. Coherent(n)'
  <2>1. CASE obj = store[n]
    BY <1>1, <1>2, <2>1 DEF Coherent
  <2>2. CASE obj # store[n]
    BY <1>1, <1>2, <1>3, <2>2, AppendProperties DEF Coherent
  <2> QED BY <2>1, <2>2
<1>5. Guarded(n)' <=> HasFinalizer(obj)
  BY <1>1 DEF Guarded, HasFinalizer
<1>6. ASSUME ~HasFinalizer(obj) PROVE NoStaleLicence(n)'
  <2>1. ~Licence(obj) /\ ~Licence(cache'[n])
    BY <1>1, <1>6 DEF Licence, HasFinalizer, NoStaleLicence
  <2>2. \A i \in 1 .. Len(watch[n]) : ~Licence(watch[n][i])
    BY <1>6 DEF NoStaleLicence
  <2>3. \A i \in 1 .. Len(watch'[n]) : ~Licence(watch'[n][i])
    <3>1. CASE obj = store[n]
      BY <1>2, <2>2, <3>1
    <3>2. CASE obj # store[n]
      <4>1. /\ watch'[n] = Append(watch[n], obj)
            /\ Len(watch'[n]) = Len(watch[n]) + 1
            /\ watch'[n][Len(watch[n]) + 1] = obj
            /\ \A i \in 1 .. Len(watch[n]) : watch'[n][i] = watch[n][i]
        BY <1>2, <1>3, <3>2, AppendProperties
      <4>2. Len(watch[n]) \in Nat
        BY <1>3, LenProperties
      <4>3. \A i \in 1 .. Len(watch'[n]) :
              i \in 1 .. Len(watch[n]) \/ i = Len(watch[n]) + 1
        BY <4>1, <4>2
      <4> QED BY <2>1, <2>2, <4>1, <4>3, Zenon
    <3> QED BY <3>1, <3>2
  <2> QED BY <2>1, <2>3 DEF NoStaleLicence
<1> QED BY <1>1, <1>4, <1>5, <1>6 DEF NoStaleLicence

\* A write of others keeps the invariant as long as it does not touch the
\* controller's finalizer.
LEMMA OthersWriteSafe ==
  ASSUME TypeOK, NEW n \in Names, NEW obj \in MCI \cup {NotFound},
         OthersWrite(n, obj), \A m \in Names : SafeAt(m),
         HasFinalizer(obj) <=> Guarded(n)
  PROVE  \A m \in Names : SafeAt(m)'
<1>1. /\ Commit(n, obj) /\ Outdate(n)
      /\ UNCHANGED <<pc, mci, retried, newBlock, lb>>
  BY DEF OthersWrite
<1>2. OnlyAbout(n)
  BY <1>1 DEF OnlyAbout, Commit, Outdate, TypeOK
<1>3. /\ Coherent(n)' /\ NoStaleLicence(n)'
      /\ Guarded(n)' <=> Guarded(n)
  BY <1>1, CommitSafe DEF SafeAt
<1>4. ~fresh'[n] /\ ~retriedFresh'[n]
  BY <1>1 DEF Outdate, TypeOK
<1>5. SafeAt(n)'
  BY <1>1, <1>3, <1>4 DEF SafeAt, AtStep
<1> QED BY <1>2, <1>5, Frame

\* A reconcile may return wherever a load balancer has its finalizer.
LEMMA ReturnSafe ==
  ASSUME TypeOK, NEW n \in Names, Return(n), Coherent(n)', NoStaleLicence(n)',
         lb'[n] # NoLB => Guarded(n)'
  PROVE  SafeAt(n)'
<1>1. /\ pc'[n] = "idle" /\ ~fresh'[n]
      /\ retried'[n] = NotFound /\ ~retriedFresh'[n]
  BY DEF Return, Goto, EndRetry, TypeOK
<1> QED BY <1>1 DEF SafeAt, AtStep

\* Users, other controllers, the informer, the handlers and a restart.
LEMMA EnvironmentSafe ==
  ASSUME TypeOK, \A m \in Names : SafeAt(m),
         \/ \E n \in Names : OthersStep(n) \/ Relist(n)
         \/ HandlerStep \/ BackendStep \/ Restart
  PROVE  \A m \in Names : SafeAt(m)'
<1>1. ASSUME NEW n \in Names, OthersStep(n) PROVE \A m \in Names : SafeAt(m)'
  BY <1>1, OthersObjects, OthersWriteSafe
<1>2. ASSUME NEW n \in Names, Deliver(n) PROVE \A m \in Names : SafeAt(m)'
  <2>1. /\ watch[n] # <<>>
        /\ watch' = [watch EXCEPT ![n] = Tail(watch[n])]
        /\ cache' = [cache EXCEPT ![n] = Head(watch[n])]
        /\ UNCHANGED <<store, pc, mci, fresh, retried, retriedFresh, newBlock,
                       lb>>
    BY <1>2 DEF Deliver, Observe, workVars, retryVars
  <2>2. watch[n] \in Seq(MCI \cup {NotFound})
    BY DEF TypeOK
  <2>3. /\ watch'[n] = Tail(watch[n]) /\ cache'[n] = watch[n][1]
        /\ Len(watch[n]) \in Nat \ {0}
        /\ Len(watch'[n]) = Len(watch[n]) - 1
        /\ \A i \in 1 .. Len(watch'[n]) : watch'[n][i] = watch[n][i + 1]
    BY <2>1, <2>2, HeadTailProperties, EmptySeq DEF TypeOK
  <2>4. OnlyAbout(n)
    BY <2>1 DEF OnlyAbout, TypeOK
  <2>5. Coherent(n)'
    <3>1. CASE Len(watch[n]) = 1
      BY <2>1, <2>2, <2>3, <3>1, EmptySeq DEF Coherent, SafeAt
    <3>2. CASE Len(watch[n]) # 1
      <4>1. store[n] = watch[n][Len(watch[n])]
        BY <2>1 DEF Coherent, SafeAt
      <4>2. Len(watch'[n]) \in 1 .. Len(watch'[n]) /\ watch'[n] # <<>>
        <5>1. Len(watch'[n]) \in Nat \ {0}
          BY <2>3, <3>2
        <5>2. watch'[n] # <<>>
          BY <5>1, Len(<<>>) = 0
        <5> QED BY <5>1, <5>2
      <4>3. watch'[n][Len(watch'[n])] = watch[n][Len(watch[n])]
        BY <2>3, <4>2
      <4> QED BY <2>1, <4>1, <4>2, <4>3 DEF Coherent
    <3> QED BY <3>1, <3>2
  <2>6. NoStaleLicence(n)'
    BY <2>1, <2>3 DEF NoStaleLicence, SafeAt, Guarded
  <2>7. AtStep(n)'
    BY <2>1 DEF AtStep, SafeAt, Guarded
  <2>8. SafeAt(n)'
    BY <2>1, <2>5, <2>6, <2>7 DEF SafeAt, Guarded
  <2> QED BY <2>4, <2>8, Frame
<1>3. ASSUME NEW n \in Names, Relist(n) PROVE \A m \in Names : SafeAt(m)'
  <2>1. /\ watch' = [watch EXCEPT ![n] = <<>>]
        /\ cache' = [cache EXCEPT ![n] = store[n]]
        /\ UNCHANGED <<store, pc, mci, fresh, retried, retriedFresh, newBlock,
                       lb>>
    BY <1>3 DEF Relist, Observe, workVars, retryVars
  <2>2. watch'[n] = <<>> /\ cache'[n] = store[n] /\ Len(watch'[n]) = 0
    BY <2>1, EmptySeq DEF TypeOK
  <2>3. OnlyAbout(n)
    BY <2>1 DEF OnlyAbout, TypeOK
  <2>4. Coherent(n)' /\ NoStaleLicence(n)'
    BY <2>1, <2>2 DEF Coherent, NoStaleLicence, Licence, Guarded
  <2>5. SafeAt(n)'
    BY <2>1, <2>2, <2>4 DEF SafeAt, AtStep, Guarded
  <2> QED BY <2>3, <2>5, Frame
<1>4. CASE UNCHANGED <<store, watch, cache, pc, mci, fresh, retried,
                       retriedFresh, newBlock, lb>>
  BY <1>4 DEF SafeAt, Coherent, NoStaleLicence, AtStep, Guarded
<1>5. ASSUME \/ BackendStep
             \/ \E n \in Names : MCIGeneric(n)
             \/ \E s \in Services : ServiceGeneric(s)
      PROVE  \A m \in Names : SafeAt(m)'
  BY <1>4, <1>5 DEF BackendStep, ServiceEvent, SecretEvent, EndpointSliceEvent,
                    ClusterEvent, IngressClassEvent, ServiceGeneric,
                    MCIGeneric, apiVars, workVars, retryVars
<1>6. ASSUME Restart PROVE \A m \in Names : SafeAt(m)'
  <2> TAKE n \in Names
  <2>1. /\ cache'[n] = store[n] /\ store' = store /\ lb' = lb
        /\ watch'[n] = <<>> /\ Len(watch'[n]) = 0
        /\ pc'[n] = "idle" /\ fresh'[n] = FALSE
        /\ retried'[n] = NotFound /\ retriedFresh'[n] = FALSE
    BY <1>6, EmptySeq DEF Restart
  <2>2. SafeAt(n)
    OBVIOUS
  <2>3. Coherent(n)' /\ NoStaleLicence(n)'
    BY <2>1, <2>2 DEF SafeAt, Coherent, NoStaleLicence, Licence, Guarded
  <2>4. AtStep(n)'
    BY <2>1 DEF AtStep
  <2> QED BY <2>1, <2>2, <2>3, <2>4 DEF SafeAt, Guarded
<1> QED BY <1>1, <1>2, <1>3, <1>5, <1>6 DEF HandlerStep

\* The steps of the reconciler.
LEMMA WorkSafe ==
  ASSUME TypeOK, \A m \in Names : SafeAt(m),
         NEW n \in Names, WorkStep(n) \/ FailedCall(n)
  PROVE  \A m \in Names : SafeAt(m)'
<1> USE ConstantsAssumption
<1>1. SafeAt(n) /\ AtStep(n)
  BY DEF SafeAt
<1>2. ASSUME pc[n] # "idle" PROVE mci[n] \in MCI
  BY <1>1, <1>2 DEF TypeOK, AtStep
\* Outside the loop of updateMCITrafficBlockClusters there is no second copy.
<1>3. ASSUME pc[n] # "block" PROVE retried[n] = NotFound /\ ~retriedFresh[n]
  BY <1>1, <1>3 DEF AtStep
\* A return that leaves API server and provider alone
<1>4. ASSUME Return(n), UNCHANGED <<apiVars, lb>>
      PROVE  \A m \in Names : SafeAt(m)'
  <2>1. OnlyAbout(n)
    BY <1>4 DEF OnlyAbout, Return, Goto, EndRetry, TypeOK, apiVars
  <2>2. Coherent(n)' /\ NoStaleLicence(n)' /\ (lb'[n] # NoLB => Guarded(n)')
    BY <1>1, <1>4 DEF SafeAt, Coherent, NoStaleLicence, Guarded, apiVars
  <2> QED BY <1>4, <2>1, <2>2, ReturnSafe, Frame
\* A step that changes nothing but pc[n]
<1>5. ASSUME NEW step \in Steps, Goto(n, step), AtStep(n)',
             step = "ensure" => lb[n] = NoLB,
             step = "update" => lb[n] # NoLB,
             UNCHANGED <<apiVars, lb, mci, fresh, retryVars>>
      PROVE  \A m \in Names : SafeAt(m)'
  <2>1. OnlyAbout(n)
    BY <1>5 DEF OnlyAbout, Goto, TypeOK, apiVars, retryVars
  <2>2. pc'[n] = step
    BY <1>5 DEF Goto, TypeOK
  <2>3. SafeAt(n)'
    BY <1>1, <1>5, <2>2
    DEF SafeAt, Coherent, NoStaleLicence, Guarded, apiVars
  <2> QED BY <2>1, <2>3, Frame
\* A return after a write to the API server
<1>6. ASSUME NEW obj \in MCI \cup {NotFound}, Commit(n, obj), Return(n), lb' = lb,
             Coherent(n)', NoStaleLicence(n)', lb[n] # NoLB => Guarded(n)'
      PROVE  \A m \in Names : SafeAt(m)'
  <2>1. OnlyAbout(n)
    BY <1>6 DEF OnlyAbout, Commit, Return, Goto, EndRetry, TypeOK
  <2> QED BY <1>6, <2>1, ReturnSafe, Frame
<1>7. CASE Reconcile(n)
  <2>1. /\ UNCHANGED <<apiVars, lb, retried, retriedFresh, newBlock>>
        /\ pc[n] = "idle"
    BY <1>7 DEF Reconcile, retryVars
  <2>2. CASE cache[n] = NotFound
    <3>1. UNCHANGED <<pc, mci, fresh>>
      BY <1>7, <2>2 DEF Reconcile
    <3> QED
      BY <2>1, <3>1 DEF SafeAt, Coherent, NoStaleLicence, AtStep, Guarded, apiVars
  <2>3. CASE cache[n] # NotFound
    <3> DEFINE step == IF cache[n].deleting THEN handleMCIDelete(cache[n])
                       ELSE handleMCICreateOrUpdate(cache[n])
    <3>1. /\ pc' = [pc EXCEPT ![n] = step]
          /\ mci' = [mci EXCEPT ![n] = cache[n]]
          /\ fresh' = [fresh EXCEPT ![n] = (watch[n] = <<>>)]
      BY <1>7, <2>3, Zenon DEF Reconcile, Goto
    <3>2. step = IF cache[n].deleting THEN "ensureDeleted"
                 ELSE IF cache[n].finalizer THEN "listClusters"
                 ELSE "addFinalizer"
      BY DEF handleMCIDelete, handleMCICreateOrUpdate
    <3> HIDE DEF step
    <3>3. pc'[n] = step /\ mci'[n] = cache[n]
      BY <3>1 DEF TypeOK
    <3>4. fresh'[n] <=> watch[n] = <<>>
      BY <3>1, Zenon DEF TypeOK
    <3>5. OnlyAbout(n)
      BY <2>1, <3>1 DEF OnlyAbout, TypeOK, apiVars
    <3>6. cache[n] \in MCI
      BY <2>3 DEF TypeOK
    <3>7. fresh'[n] => cache[n] = store[n]
      BY <1>1, <3>4 DEF SafeAt, Coherent
    <3>8. store' = store /\ watch' = watch /\ lb' = lb /\ cache' = cache
      BY <2>1 DEF apiVars
    <3>9. retried'[n] = NotFound /\ ~retriedFresh'[n]
      BY <1>3, <2>1
    <3>10. /\ pc'[n] # "idle"
           /\ pc'[n] \in {"ensureDeleted", "listClusters", "addFinalizer"}
           /\ pc'[n] = "ensureDeleted" => mci'[n].deleting
           /\ pc'[n] = "listClusters" => Guarded(n)
      <4>1. cache[n].finalizer /\ ~cache[n].deleting => Guarded(n)
        BY <1>1, <2>3 DEF SafeAt, NoStaleLicence, Licence
      <4> QED BY <3>2, <3>3, <4>1
    <3>11. fresh'[n] => /\ store'[n] # NotFound
                        /\ mci'[n] = [store'[n] EXCEPT !.block = mci'[n].block]
                        /\ mci'[n].block = store'[n].block
      BY <2>3, <3>3, <3>6, <3>7, <3>8 DEF MCI
    <3>12. AtStep(n)'
      BY <2>3, <3>3, <3>4, <3>8, <3>9, <3>10, <3>11 DEF AtStep, Guarded
    <3>13. SafeAt(n)'
      BY <1>1, <3>8, <3>10, <3>12
      DEF SafeAt, Coherent, NoStaleLicence, Guarded
    <3> QED BY <3>5, <3>13, Frame
  <2> QED BY <2>2, <2>3
<1>8. CASE CallFails(n) \/ PatchRejected(n) \/ UpdateRejected(n)
  BY <1>4, <1>8 DEF CallFails, PatchRejected, UpdateRejected, Requeue
<1>9. ASSUME NEW ok \in BOOLEAN, AddFinalizer(n, ok)
      PROVE  \A m \in Names : SafeAt(m)'
  <2> DEFINE patched ==
        [store[n] EXCEPT !.finalizer = TRUE, !.held = mci[n].held]
  <2>1. mci[n] \in MCI /\ store[n] \in MCI
    BY <1>2, <1>9 DEF AddFinalizer, PatchAllowed, TypeOK
  <2>2. patched \in MCI /\ patched.finalizer
    <3>1. mci[n].held \in BOOLEAN
      BY <2>1 DEF MCI
    <3>2. patched \in MCI
      BY <2>1, <3>1, RecordTypes
    <3>3. patched.finalizer
      BY <2>1 DEF MCI
    <3> QED BY <3>2, <3>3
  <2>3. Commit(n, patched) /\ lb' = lb
    BY <1>9 DEF AddFinalizer
  <2> HIDE DEF patched
  <2>4. HasFinalizer(patched)
    BY <2>2 DEF HasFinalizer
  <2>5. Coherent(n)' /\ NoStaleLicence(n)' /\ Guarded(n)'
    BY <1>1, <2>2, <2>3, <2>4, CommitSafe DEF SafeAt
  <2>6. CASE ~ok
    <3>1. Return(n)
      BY <1>9, <2>6 DEF AddFinalizer, Requeue
    <3> QED BY <1>6, <2>2, <2>3, <2>5, <3>1
  <2>7. CASE ok
    <3>1. /\ pc' = [pc EXCEPT ![n] = "listClusters"]
          /\ fresh' = [fresh EXCEPT ![n] = FALSE]
          /\ UNCHANGED <<mci, retried, retriedFresh, newBlock>>
      BY <1>9, <2>7 DEF AddFinalizer, Goto, retryVars
    <3>2. OnlyAbout(n)
      BY <2>3, <3>1 DEF OnlyAbout, Commit, TypeOK
    <3>3. pc'[n] = "listClusters" /\ ~fresh'[n] /\ mci'[n] # NotFound
      BY <2>1, <3>1 DEF TypeOK
    <3>4. retried'[n] = NotFound /\ ~retriedFresh'[n]
      BY <1>3, <1>9, <3>1 DEF AddFinalizer
    <3>5. SafeAt(n)'
      BY <2>5, <3>3, <3>4 DEF SafeAt, AtStep
    <3> QED BY <3>2, <3>5, Frame
  <2> QED BY <2>6, <2>7
<1>10. CASE ListClusters(n)
  <2> DEFINE block == Located(mci[n].locations) \cap Blocked
             copy == [mci[n] EXCEPT !.block = block]
  <2>1. pc[n] = "listClusters" /\ UNCHANGED <<apiVars, lb, fresh, retried,
                                              retriedFresh>>
    BY <1>10 DEF ListClusters
  <2>2. mci[n] \in MCI
    BY <1>2, <2>1
  <2>3. copy \in MCI /\ copy.block = block
    <3>1. block \in SUBSET Clusters
      BY DEF Blocked
    <3>2. copy \in MCI
      BY <2>2, <3>1, RecordTypes
    <3>3. copy.block = block
      BY <2>2 DEF MCI
    <3> QED BY <3>2, <3>3
  <2>4. fresh[n] => /\ mci[n] = store[n]
                    /\ copy = [store[n] EXCEPT !.block = copy.block]
    <3>1. ASSUME fresh[n] PROVE mci[n] = store[n]
      BY <1>1, <2>1, <3>1, FreshCopy
    <3> QED BY <2>3, <3>1
  <2>5. PICK step \in {"getLB", "block"} :
          /\ Goto(n, step)
          /\ mci' = [mci EXCEPT ![n] = copy]
          /\ step = "getLB" => block = mci[n].block /\ newBlock' = newBlock
          /\ step = "block" => newBlock' = [newBlock EXCEPT ![n] = block]
    BY <1>10 DEF ListClusters
  <2> HIDE DEF block, copy
  <2>6. /\ pc'[n] = step /\ mci'[n] = copy
        /\ step = "block" => newBlock'[n] = block
    BY <2>5 DEF Goto, TypeOK
  <2>7. OnlyAbout(n)
    BY <2>1, <2>5 DEF OnlyAbout, Goto, TypeOK, apiVars
  <2>8. retried'[n] = NotFound /\ ~retriedFresh'[n]
    BY <1>3, <2>1
  <2>9. Guarded(n) /\ Guarded(n)'
    BY <1>1, <2>1 DEF AtStep, Guarded, apiVars
  <2>10. fresh'[n] => /\ store'[n] # NotFound
                      /\ mci'[n] = [store'[n] EXCEPT !.block = mci'[n].block]
                      /\ pc'[n] # "block" => mci'[n].block = store'[n].block
    BY <2>1, <2>3, <2>4, <2>5, <2>6, <2>9 DEF Guarded, apiVars
  <2>11. AtStep(n)'
    BY <2>3, <2>5, <2>6, <2>8, <2>9, <2>10 DEF AtStep
  <2>12. Coherent(n)' /\ NoStaleLicence(n)'
    BY <1>1, <2>1 DEF SafeAt, Coherent, NoStaleLicence, Guarded, apiVars
  <2>13. SafeAt(n)'
    BY <2>5, <2>6, <2>9, <2>11, <2>12 DEF SafeAt
  <2> QED BY <2>7, <2>13, Frame
<1>11. ASSUME NEW ok \in BOOLEAN, UpdateBlock(n, ok)
       PROVE  \A m \in Names : SafeAt(m)'
  <2> DEFINE obj == [AttemptCopy(n) EXCEPT !.block = newBlock[n]]
  <2>1. pc[n] = "block" /\ AttemptFresh(n) /\ Commit(n, obj) /\ lb' = lb
    BY <1>11 DEF UpdateBlock
  <2>2. /\ AttemptCopy(n) \in MCI
        /\ AttemptCopy(n).finalizer = store[n].finalizer
        /\ fresh[n] => AttemptCopy(n) = mci[n]
    BY <1>1, <2>1, AttemptedCopy
  <2>3. /\ obj \in MCI /\ obj.finalizer = store[n].finalizer
        /\ obj.block = newBlock[n]
    <3>1. newBlock[n] \in SUBSET Clusters
      BY DEF TypeOK
    <3>2. obj \in MCI
      BY <2>2, <3>1, RecordTypes
    <3>3. obj.finalizer = AttemptCopy(n).finalizer /\ obj.block = newBlock[n]
      BY <2>2 DEF MCI
    <3> QED BY <2>2, <3>2, <3>3
  \* The reconciler's own copy, when it is live, is what has been written.
  <2>4. fresh[n] => obj = mci[n]
    <3>1. mci[n] \in MCI /\ mci[n].block = newBlock[n]
      BY <1>1, <1>2, <2>1 DEF AtStep
    <3>2. [mci[n] EXCEPT !.block = mci[n].block] = mci[n]
      BY <3>1 DEF MCI
    <3> QED BY <2>2, <3>1, <3>2
  <2> HIDE DEF obj
  <2>5. HasFinalizer(obj)
    BY <1>1, <2>1, <2>3 DEF AtStep, Guarded, HasFinalizer
  <2>6. Coherent(n)' /\ NoStaleLicence(n)' /\ Guarded(n)' /\ store'[n] = obj
    BY <1>1, <2>1, <2>3, <2>5, CommitSafe DEF SafeAt
  <2>7. CASE ~ok
    <3>1. Return(n)
      BY <1>11, <2>7 DEF UpdateBlock, Requeue
    <3> QED BY <1>6, <2>1, <2>3, <2>6, <3>1
  <2>8. CASE ok
    <3>1. Goto(n, "getLB") /\ EndRetry(n) /\ UNCHANGED <<mci, fresh>>
      BY <1>11, <2>8 DEF UpdateBlock
    <3>2. OnlyAbout(n)
      BY <2>1, <3>1 DEF OnlyAbout, Commit, Goto, EndRetry, TypeOK
    <3>3. /\ pc'[n] = "getLB" /\ retried'[n] = NotFound
          /\ ~retriedFresh'[n]
      BY <3>1 DEF Goto, EndRetry, TypeOK
    <3>4. fresh'[n] => /\ store'[n] # NotFound
                       /\ mci'[n] = [store'[n] EXCEPT !.block = mci'[n].block]
                       /\ mci'[n].block = store'[n].block
      BY <2>3, <2>4, <2>6, <3>1 DEF MCI
    <3>5. mci'[n] # NotFound
      BY <1>2, <2>1, <3>1
    <3>6. AtStep(n)'
      BY <2>6, <3>3, <3>4, <3>5 DEF AtStep
    <3>7. SafeAt(n)'
      BY <2>6, <3>3, <3>6 DEF SafeAt
    <3> QED BY <3>2, <3>7, Frame
  <2> QED BY <2>7, <2>8
<1>12. CASE RetryBlock(n)
  <2>1. /\ UNCHANGED <<apiVars, lb>> /\ pc[n] = "block" /\ ~AttemptFresh(n)
    BY <1>12 DEF RetryBlock
  <2>2. ~fresh[n]
    BY <1>1, <2>1 DEF AttemptFresh, AtStep
  <2>3. Coherent(n)' /\ NoStaleLicence(n)' /\ Guarded(n)'
    BY <1>1, <2>1
    DEF SafeAt, AtStep, Coherent, NoStaleLicence, Guarded, apiVars
  <2>4. CASE Requeue(n)
    BY <1>4, <2>1, <2>4 DEF Requeue
  <2>5. CASE Goto(n, "getLB") /\ EndRetry(n) /\ UNCHANGED <<mci, fresh, queue>>
    <3>1. OnlyAbout(n)
      BY <2>1, <2>5 DEF OnlyAbout, Goto, EndRetry, TypeOK, apiVars
    <3>2. /\ pc'[n] = "getLB" /\ retried'[n] = NotFound
          /\ ~retriedFresh'[n] /\ ~fresh'[n] /\ mci'[n] # NotFound
      BY <1>2, <2>1, <2>2, <2>5 DEF Goto, EndRetry, TypeOK
    <3>3. SafeAt(n)'
      BY <2>3, <3>2 DEF SafeAt, AtStep
    <3> QED BY <3>1, <3>3, Frame
  <2>6. CASE /\ cache[n] # NotFound
             /\ retried' = [retried EXCEPT ![n] = cache[n]]
             /\ retriedFresh' = [retriedFresh EXCEPT ![n] = watch[n] = <<>>]
             /\ UNCHANGED <<pc, mci, fresh, newBlock, newStatus, queue>>
    <3>1. OnlyAbout(n)
      BY <2>1, <2>6 DEF OnlyAbout, TypeOK, apiVars
    <3>2. retried'[n] = cache[n]
      BY <2>6 DEF TypeOK
    <3>3. retriedFresh'[n] <=> watch[n] = <<>>
      BY <2>6, Zenon DEF TypeOK
    <3>4. retriedFresh'[n] => retried'[n] = store'[n]
      BY <1>1, <2>1, <3>2, <3>3 DEF SafeAt, Coherent, apiVars
    <3>5. AtStep(n)'
      BY <1>1, <2>1, <2>2, <2>3, <2>6, <3>4 DEF AtStep
    <3>6. SafeAt(n)'
      BY <2>1, <2>3, <2>6, <3>5 DEF SafeAt
    <3> QED BY <3>1, <3>6, Frame
  <2> QED BY <1>12, <2>4, <2>5, <2>6 DEF RetryBlock
<1>13. CASE GetLoadBalancer(n)
  <2>1. PICK step \in {"ensure", "update"} :
          /\ pc[n] = "getLB" /\ Goto(n, step)
          /\ step = "ensure" => lb[n] = NoLB
          /\ step = "update" => lb[n] # NoLB
          /\ UNCHANGED <<apiVars, lb, mci, fresh, retryVars>>
    BY <1>13 DEF GetLoadBalancer, CreateOrUpdateStep
  <2>2. pc'[n] = step
    BY <2>1 DEF Goto, TypeOK
  <2>3. AtStep(n)'
    BY <1>1, <2>1, <2>2 DEF AtStep, Guarded, apiVars, retryVars
  <2> QED BY <1>5, <2>1, <2>3 DEF Steps
<1>14. ASSUME NEW ok \in BOOLEAN,
              handleMCICreate(n, ok) \/ handleMCIUpdate(n, ok)
       PROVE  \A m \in Names : SafeAt(m)'
  <2>1. PICK step \in {"ensure", "update"} : CallProvider(n, step, ok)
    BY <1>14 DEF handleMCICreate, handleMCIUpdate
  <2>2. /\ lb' = [lb EXCEPT ![n] = Programmed(n)]
        /\ UNCHANGED apiVars /\ pc[n] = step
    BY <2>1 DEF CallProvider
  <2>3. Guarded(n) /\ Guarded(n)'
    BY <1>1, <2>2 DEF AtStep, Guarded, apiVars
  <2>4. Coherent(n)' /\ NoStaleLicence(n)'
    BY <1>1, <2>2 DEF SafeAt, Coherent, NoStaleLicence, Guarded, apiVars
  <2>5. CASE Return(n)
    <3>1. OnlyAbout(n)
      BY <2>2, <2>5 DEF OnlyAbout, Return, Goto, EndRetry, TypeOK, apiVars
    <3> QED BY <2>3, <2>4, <2>5, <3>1, ReturnSafe, Frame
  <2>6. CASE ~Return(n)
    <3>1. /\ pc' = [pc EXCEPT ![n] = "status"]
          /\ UNCHANGED <<mci, fresh, retried, retriedFresh, newBlock>>
      BY <2>1, <2>6 DEF CallProvider, updateMCIStatus, Done, Requeue, Goto
    <3>2. OnlyAbout(n)
      BY <2>2, <3>1 DEF OnlyAbout, TypeOK, apiVars
    <3>3. pc'[n] = "status"
      BY <3>1 DEF TypeOK
    <3>4. AtStep(n)'
      BY <1>1, <2>2, <2>3, <3>1, <3>3 DEF AtStep, apiVars
    <3>5. SafeAt(n)'
      BY <2>3, <2>4, <3>3, <3>4 DEF SafeAt
    <3> QED BY <3>2, <3>5, Frame
  <2> QED BY <2>5, <2>6
<1>15. ASSUME NEW ok \in BOOLEAN, UpdateStatus(n, ok)
       PROVE  \A m \in Names : SafeAt(m)'
  <2> DEFINE obj == [mci[n] EXCEPT !.status = newStatus[n]]
  <2>1. Commit(n, obj) /\ Return(n) /\ lb' = lb
    BY <1>15 DEF UpdateStatus, Answered, Done, Requeue
  <2>2. mci[n] \in MCI /\ mci[n] = store[n]
    BY <1>1, <1>15, FreshCopy DEF UpdateStatus
  <2>3. obj \in MCI /\ obj.finalizer = store[n].finalizer
    <3>1. newStatus[n] \in Statuses
      BY DEF TypeOK
    <3>2. obj \in MCI
      BY <2>2, <3>1, RecordTypes
    <3>3. obj.finalizer = store[n].finalizer
      BY <2>2 DEF MCI
    <3> QED BY <3>2, <3>3
  <2> HIDE DEF obj
  <2>4. HasFinalizer(obj)
    BY <1>1, <1>15, <2>3 DEF UpdateStatus, AtStep, Guarded, HasFinalizer
  <2>5. Coherent(n)' /\ NoStaleLicence(n)' /\ Guarded(n)'
    BY <1>1, <2>1, <2>3, <2>4, CommitSafe DEF SafeAt
  <2> QED BY <1>6, <2>1, <2>3, <2>5
<1>16. CASE RetryStatus(n)
  <2>1. UNCHANGED <<apiVars, lb>> /\ pc[n] = "status"
    BY <1>16 DEF RetryStatus
  <2>2. CASE Requeue(n)
    BY <1>4, <2>1, <2>2 DEF Requeue
  <2>3. CASE ~Requeue(n)
    <3>1. /\ mci' = IF cache[n] = NotFound THEN mci
                    ELSE [mci EXCEPT ![n] = cache[n]]
          /\ fresh' = [fresh EXCEPT
                         ![n] = cache[n] # NotFound /\ watch[n] = <<>>]
          /\ UNCHANGED <<pc, retried, retriedFresh, newBlock>>
      BY <1>16, <2>3 DEF RetryStatus
    <3>2. fresh'[n] <=> cache[n] # NotFound /\ watch[n] = <<>>
      BY <3>1, Zenon DEF TypeOK
    <3>3. mci'[n] = IF cache[n] = NotFound THEN mci[n] ELSE cache[n]
      BY <3>1 DEF TypeOK
    <3>4. OnlyAbout(n)
      BY <2>1, <3>1 DEF OnlyAbout, TypeOK, apiVars
    <3>5. fresh'[n] => /\ store'[n] # NotFound
                       /\ mci'[n] = [store'[n] EXCEPT !.block = mci'[n].block]
                       /\ mci'[n].block = store'[n].block
      <4>1. SUFFICES ASSUME fresh'[n]
                     PROVE  /\ store'[n] \in MCI
                            /\ mci'[n] = store'[n]
        BY DEF MCI
      <4> QED
        BY <1>1, <2>1, <3>2, <3>3, <4>1 DEF SafeAt, Coherent, TypeOK, apiVars
    <3>6. mci'[n] # NotFound
      BY <1>2, <2>1, <3>3
    <3>7. Guarded(n) /\ Guarded(n)'
      BY <1>1, <2>1 DEF AtStep, Guarded, apiVars
    <3>8. AtStep(n)'
      BY <1>3, <2>1, <3>1, <3>5, <3>6, <3>7 DEF AtStep
    <3>9. SafeAt(n)'
      BY <1>1, <2>1, <3>1, <3>7, <3>8
      DEF SafeAt, Coherent, NoStaleLicence, apiVars
    <3> QED BY <3>4, <3>9, Frame
  <2> QED BY <2>2, <2>3
<1>17. ASSUME NEW ok \in BOOLEAN, EnsureLoadBalancerDeleted(n, ok)
       PROVE  \A m \in Names : SafeAt(m)'
  <2>1. /\ pc[n] = "ensureDeleted" /\ lb' = [lb EXCEPT ![n] = NoLB]
        /\ UNCHANGED apiVars
    BY <1>17 DEF EnsureLoadBalancerDeleted
  <2>2. lb'[n] = NoLB
    BY <2>1 DEF TypeOK
  <2>3. Coherent(n)' /\ NoStaleLicence(n)'
    BY <1>1, <2>1 DEF SafeAt, Coherent, NoStaleLicence, Guarded, apiVars
  <2>4. CASE Return(n)
    <3>1. OnlyAbout(n)
      BY <2>1, <2>4 DEF OnlyAbout, Return, Goto, EndRetry, TypeOK, apiVars
    <3> QED BY <2>2, <2>3, <2>4, <3>1, ReturnSafe, Frame
  <2>5. CASE ~Return(n)
    <3>1. /\ pc' = [pc EXCEPT ![n] = "removeFinalizer"]
          /\ UNCHANGED <<mci, fresh, retried, retriedFresh, newBlock>>
      BY <1>17, <2>5
      DEF EnsureLoadBalancerDeleted, Done, Requeue, Goto, retryVars
    <3>2. OnlyAbout(n)
      BY <2>1, <3>1 DEF OnlyAbout, TypeOK, apiVars
    <3>3. pc'[n] = "removeFinalizer"
      BY <3>1 DEF TypeOK
    <3>4. AtStep(n)'
      BY <1>1, <2>1, <2>2, <3>1, <3>3 DEF AtStep, Guarded, apiVars
    <3>5. SafeAt(n)'
      BY <2>2, <2>3, <3>3, <3>4 DEF SafeAt
    <3> QED BY <3>2, <3>5, Frame
  <2> QED BY <2>4, <2>5
<1>18. ASSUME NEW ok \in BOOLEAN, RemoveFinalizer(n, ok)
       PROVE  \A m \in Names : SafeAt(m)'
  <2> DEFINE released == IF mci[n].held THEN [mci[n] EXCEPT !.finalizer = FALSE]
                                        ELSE NotFound
  <2>1. Commit(n, released) /\ Return(n) /\ lb' = lb
    BY <1>18 DEF RemoveFinalizer, Answered, Done, Requeue
  <2>2. mci[n] \in MCI /\ mci[n] = store[n] /\ mci[n].deleting
    BY <1>1, <1>18, FreshCopy DEF RemoveFinalizer, AtStep
  <2>3. lb[n] = NoLB /\ watch[n] = <<>>
    BY <1>1, <1>18 DEF RemoveFinalizer, AtStep
  <2>4. /\ released \in MCI \cup {NotFound}
        /\ released # NotFound => released.finalizer = FALSE
    BY <2>2, RecordTypes DEF MCI
  <2>5. ~HasFinalizer(released)
    BY <2>4 DEF HasFinalizer
  <2> HIDE DEF released
  \* The cache holds the very object: no version older than it is left.
  <2>6. ~Licence(cache[n])
    BY <1>1, <2>2, <2>3 DEF SafeAt, Coherent, Licence
  <2>7. /\ store'[n] = released /\ cache' = cache
        /\ watch'[n] = IF released = store[n] THEN <<>> ELSE <<released>>
    BY <2>1, <2>3 DEF Commit, TypeOK
  <2>8. Coherent(n)'
    BY <1>1, <2>3, <2>7 DEF SafeAt, Coherent
  <2>9. NoStaleLicence(n)'
    BY <2>5, <2>6, <2>7 DEF NoStaleLicence, Licence, HasFinalizer
  <2> QED BY <1>6, <2>1, <2>3, <2>4, <2>8, <2>9
<1> QED
  BY <1>7, <1>8, <1>9, <1>10, <1>11, <1>12, <1>13, <1>14, <1>15, <1>16, <1>17,
     <1>18
  DEF WorkStep, FailedCall

-----------------------------------------------------------------------------
LEMMA InitIInv == Init => IInv
<1> SUFFICES ASSUME Init PROVE IInv
  OBVIOUS
<1>1. TypeOK
  BY ConstantsAssumption, EmptySeq DEF Init, TypeOK, Steps
<1>2. ASSUME NEW n \in Names PROVE SafeAt(n)
  BY EmptySeq DEF Init, SafeAt, Coherent, NoStaleLicence, Licence, AtStep,
                  Guarded
<1> QED BY <1>1, <1>2 DEF IInv

LEMMA NextIInv == IInv /\ [Next]_vars => IInv'
<1> SUFFICES ASSUME IInv, [Next]_vars PROVE IInv'
  OBVIOUS
<1>1. TypeOK /\ \A m \in Names : SafeAt(m) /\ AtStep(m)
  BY DEF IInv, SafeAt
<1>2. CASE UNCHANGED vars
  <2>1. TypeOK'
    BY <1>1, <1>2 DEF TypeOK, vars, apiVars, backendVars, chanVars, workVars,
                      retryVars
  <2>2. \A m \in Names : SafeAt(m)'
    BY <1>1, <1>2 DEF SafeAt, Coherent, NoStaleLicence, AtStep, Guarded, vars,
                      apiVars, workVars, retryVars
  <2> QED BY <2>1, <2>2 DEF IInv
<1>3. CASE \/ \E n \in Names : OthersStep(n) \/ Relist(n)
           \/ HandlerStep \/ BackendStep \/ Restart
  BY <1>1, <1>3, EnvironmentType, EnvironmentSafe DEF IInv
<1>4. ASSUME NEW n \in Names, WorkStep(n) \/ FailedCall(n) PROVE IInv'
  BY <1>1, <1>4, WorkType, WorkSafe DEF IInv
<1> QED BY <1>2, <1>3, <1>4 DEF Next, FaultStep

\* Every behaviour of the controller keeps the inductive invariant: no
\* version of an MCI that is still to be read licenses a load balancer which
\* the finalizer in the API server does not guard, and a copy with the live
\* version differs from the live object only in a list about to be written.
THEOREM Invariance == Spec => []IInv
  BY InitIInv, NextIInv, PTL DEF Spec

\* Every value the controller keeps has its type; neither of the two retry
\* loops, in particular, makes more than RetrySteps attempts.
THEOREM TypeCorrect == Spec => []TypeOK
<1>1. IInv => TypeOK
  BY DEF IInv
<1> QED BY <1>1, Invariance, PTL

\* No load balancer outlives its MultiClusterIngress, nor the finalizer on it,
\* although the finalizer is patched without a version.
THEOREM NeverOrphaned == Spec => []NoOrphanedLB
<1>1. IInv => NoOrphanedLB
  BY DEF IInv, SafeAt, NoOrphanedLB
<1> QED BY <1>1, Invariance, PTL

\* EnsureLoadBalancer is called only where there is no load balancer,
\* UpdateLoadBalancer only where there is one.
THEOREM CallsFit == Spec => []ProviderCallsFit
<1>1. IInv => ProviderCallsFit
  BY DEF IInv, SafeAt, ProviderCallsFit
<1> QED BY <1>1, Invariance, PTL

-----------------------------------------------------------------------------
\* A write of obj over the object n that the life of a load balancer and the
\* finalizers of others allow: no object is born with the finalizer, it leaves
\* only an object whose load balancer is gone, and nobody else's leaves but
\* by its owner or by a patch made from an old copy.
FittingWrite(n, obj) ==
  /\ store' = [store EXCEPT ![n] = obj]
  /\ lb' = lb
  /\ store[n] = NotFound => ~HasFinalizer(obj)
  /\ Guarded(n) /\ ~HasFinalizer(obj) => lb[n] = NoLB
  /\ Held(store[n]) /\ ~Held(obj) =>
       ReleaseMCI(n) \/ (pc[n] = "addFinalizer" /\ ~fresh[n])

\* A provider call that fits: a load balancer is made behind a finalizer.
FittingCall(n, v) ==
  /\ lb' = [lb EXCEPT ![n] = v]
  /\ store' = store
  /\ v # NoLB => Guarded(n)

\* Every step is one of these, or changes neither objects nor load balancers.
LEMMA FittingSteps ==
  ASSUME IInv, [Next]_vars
  PROVE  \/ UNCHANGED <<store, lb>>
         \/ \E n \in Names : \E obj \in MCI \cup {NotFound} : FittingWrite(n, obj)
         \/ \E n \in Names : \E v : FittingCall(n, v)
<1> USE ConstantsAssumption
<1>1. TypeOK /\ \A m \in Names : SafeAt(m) /\ AtStep(m)
  BY DEF IInv, SafeAt
<1>2. CASE \E n \in Names : OthersStep(n)
  <2>1. PICK n \in Names : OthersStep(n)
    BY <1>2
  <2>2. PICK obj \in MCI \cup {NotFound} :
          /\ OthersWrite(n, obj)
          /\ HasFinalizer(obj) <=> Guarded(n)
          /\ Held(store[n]) /\ ~Held(obj) => ReleaseMCI(n)
    BY <1>1, <2>1, OthersObjects
  <2>3. FittingWrite(n, obj)
    BY <2>2 DEF FittingWrite, OthersWrite, Commit, Guarded
  <2> QED BY <2>3
<1>3. CASE \/ UNCHANGED vars \/ HandlerStep \/ BackendStep \/ Restart
           \/ \E n \in Names :
                \/ Relist(n) \/ Reconcile(n) \/ CallFails(n)
                \/ PatchRejected(n) \/ UpdateRejected(n) \/ ListClusters(n)
                \/ RetryBlock(n) \/ GetLoadBalancer(n) \/ RetryStatus(n)
  <2>1. UNCHANGED <<store, lb>>
    BY <1>3, Zenon
    DEF vars, apiVars, BackendStep, ServiceEvent, SecretEvent,
        EndpointSliceEvent, ClusterEvent, IngressClassEvent, Restart,
        HandlerStep, Deliver, Observe, ServiceGeneric, MCIGeneric, Relist,
        Reconcile, CallFails, PatchRejected, UpdateRejected, ListClusters,
        RetryBlock, GetLoadBalancer, RetryStatus
  <2> QED BY <2>1
<1>4. ASSUME NEW n \in Names, NEW ok \in BOOLEAN, AddFinalizer(n, ok)
      PROVE  \E obj \in MCI \cup {NotFound} : FittingWrite(n, obj)
  <2> DEFINE obj == [store[n] EXCEPT !.finalizer = TRUE, !.held = mci[n].held]
  <2>1. /\ store' = [store EXCEPT ![n] = obj] /\ lb' = lb
        /\ pc[n] = "addFinalizer" /\ store[n] # NotFound
    BY <1>4 DEF AddFinalizer, PatchAllowed, Commit
  <2>2. mci[n] \in MCI /\ store[n] \in MCI
    BY <1>1, <2>1 DEF TypeOK, AtStep
  <2>3. obj \in MCI /\ obj.finalizer /\ obj.held = mci[n].held
    <3>1. mci[n].held \in BOOLEAN
      BY <2>2 DEF MCI
    <3>2. obj \in MCI
      BY <2>2, <3>1, RecordTypes
    <3>3. obj.finalizer /\ obj.held = mci[n].held
      BY <2>2 DEF MCI
    <3> QED BY <3>2, <3>3
  <2>4. fresh[n] => mci[n].held = store[n].held
    BY <1>1, FreshCopy
  <2> HIDE DEF obj
  <2>5. FittingWrite(n, obj)
    BY <2>1, <2>3, <2>4 DEF FittingWrite, HasFinalizer, Held
  <2> QED BY <2>3, <2>5
<1>5. ASSUME NEW n \in Names, NEW obj \in MCI,
             store' = [store EXCEPT ![n] = obj], lb' = lb, store[n] \in MCI,
             obj.finalizer = store[n].finalizer, obj.held = store[n].held
      PROVE  FittingWrite(n, obj)
  BY <1>5 DEF FittingWrite, HasFinalizer, Guarded, Held
<1>6. ASSUME NEW n \in Names, NEW ok \in BOOLEAN, UpdateBlock(n, ok)
      PROVE  \E obj \in MCI \cup {NotFound} : FittingWrite(n, obj)
  <2> DEFINE obj == [AttemptCopy(n) EXCEPT !.block = newBlock[n]]
  <2>1. store' = [store EXCEPT ![n] = obj] /\ lb' = lb
    BY <1>6 DEF UpdateBlock, Commit
  <2>2. /\ AttemptCopy(n) \in MCI /\ store[n] \in MCI
        /\ AttemptCopy(n).finalizer = store[n].finalizer
        /\ AttemptCopy(n).held = store[n].held
    BY <1>1, <1>6, AttemptedCopy DEF UpdateBlock
  <2>3. obj \in MCI
    <3>1. newBlock[n] \in SUBSET Clusters
      BY <1>1 DEF TypeOK
    <3> QED BY <2>2, <3>1, RecordTypes
  <2>4. obj.finalizer = store[n].finalizer /\ obj.held = store[n].held
    BY <2>2 DEF MCI
  <2> HIDE DEF obj
  <2> QED BY <1>5, <2>1, <2>2, <2>3, <2>4
<1>7. ASSUME NEW n \in Names, NEW ok \in BOOLEAN, UpdateStatus(n, ok)
      PROVE  \E obj \in MCI \cup {NotFound} : FittingWrite(n, obj)
  <2> DEFINE obj == [mci[n] EXCEPT !.status = newStatus[n]]
  <2>1. store' = [store EXCEPT ![n] = obj] /\ lb' = lb
    BY <1>7 DEF UpdateStatus, Commit
  <2>2. mci[n] \in MCI /\ mci[n] = store[n]
    BY <1>1, <1>7, FreshCopy DEF UpdateStatus
  <2>3. obj \in MCI
    <3>1. newStatus[n] \in Statuses
      BY <1>1 DEF TypeOK
    <3> QED BY <2>2, <3>1, RecordTypes
  <2>4. obj.finalizer = store[n].finalizer /\ obj.held = store[n].held
    BY <2>2 DEF MCI
  <2> HIDE DEF obj
  <2> QED BY <1>5, <2>1, <2>2, <2>3, <2>4
<1>8. ASSUME NEW n \in Names, NEW ok \in BOOLEAN, RemoveFinalizer(n, ok)
      PROVE  \E obj \in MCI \cup {NotFound} : FittingWrite(n, obj)
  <2> DEFINE obj == IF mci[n].held THEN [mci[n] EXCEPT !.finalizer = FALSE]
                                   ELSE NotFound
  <2>1. store' = [store EXCEPT ![n] = obj] /\ lb' = lb
    BY <1>8 DEF RemoveFinalizer, Commit
  <2>2. mci[n] \in MCI /\ mci[n] = store[n] /\ lb[n] = NoLB
    BY <1>1, <1>8, FreshCopy DEF RemoveFinalizer, AtStep
  <2>3. obj \in MCI \cup {NotFound} /\ (Held(store[n]) => Held(obj))
    <3>1. CASE mci[n].held
      <4>1. [mci[n] EXCEPT !.finalizer = FALSE] \in MCI
        BY <2>2, RecordTypes
      <4>2. [mci[n] EXCEPT !.finalizer = FALSE].held
        BY <2>2, <3>1 DEF MCI
      <4> QED BY <3>1, <4>1, <4>2 DEF Held
    <3>2. CASE ~mci[n].held
      BY <2>2, <3>2 DEF Held
    <3> QED BY <3>1, <3>2
  <2> HIDE DEF obj
  <2>4. FittingWrite(n, obj)
    BY <2>1, <2>2, <2>3 DEF FittingWrite
  <2> QED BY <2>3, <2>4
<1>9. ASSUME NEW n \in Names, NEW ok \in BOOLEAN,
             \/ handleMCICreate(n, ok) \/ handleMCIUpdate(n, ok)
             \/ EnsureLoadBalancerDeleted(n, ok)
      PROVE  \E v : FittingCall(n, v)
  <2>1. CASE EnsureLoadBalancerDeleted(n, ok)
    <3>1. FittingCall(n, NoLB)
      BY <2>1 DEF EnsureLoadBalancerDeleted, FittingCall, apiVars
    <3> QED BY <3>1
  <2>2. CASE handleMCICreate(n, ok) \/ handleMCIUpdate(n, ok)
    <3>1. /\ lb' = [lb EXCEPT ![n] = Programmed(n)]
          /\ store' = store /\ pc[n] \in {"ensure", "update"}
      BY <2>2 DEF handleMCICreate, handleMCIUpdate, CallProvider, apiVars
    <3>2. FittingCall(n, Programmed(n))
      BY <1>1, <3>1 DEF FittingCall, AtStep
    <3> QED BY <3>2
  <2> QED BY <1>9, <2>1, <2>2
<1> QED
  BY <1>2, <1>3, <1>4, <1>6, <1>7, <1>8, <1>9
  DEF Next, WorkStep, FaultStep, FailedCall

\* A finalizer of another controller leaves only when its owner takes it off
\* or when the merge patch was made from a copy that is no longer live, for
\* every set of MultiClusterIngresses.
THEOREM OthersFinalizers == Spec => ForeignFinalizersSurvive
<1>1. ASSUME IInv, [Next]_vars
      PROVE  [\A n \in Names :
                Held(store[n]) /\ ~Held(store'[n]) =>
                  ReleaseMCI(n) \/ (pc[n] = "addFinalizer" /\ ~fresh[n])]_vars
  <2> SUFFICES ASSUME NEW n \in Names, Held(store[n]), ~Held(store'[n])
               PROVE  ReleaseMCI(n) \/ (pc[n] = "addFinalizer" /\ ~fresh[n])
    OBVIOUS
  <2>1. store'[n] # store[n]
    OBVIOUS
  <2>2. PICK m \in Names, obj \in MCI \cup {NotFound} : FittingWrite(m, obj)
    BY <1>1, <2>1, FittingSteps DEF FittingCall
  <2>3. m = n /\ store'[n] = obj
    BY <1>1, <2>1, <2>2 DEF FittingWrite, IInv, TypeOK
  <2> QED BY <2>2, <2>3 DEF FittingWrite
<1> QED
  BY <1>1, Invariance, PTL DEF Spec, ForeignFinalizersSurvive

\* MCIController implements LBLifecycle, for every set of objects.
THEOREM Refinement == Spec => ImplementsLifecycle
<1>1. Init => Lifecycle!Init
  BY DEF Init, Lifecycle!Init, phase
<1>2. ASSUME IInv, [Next]_vars PROVE [Lifecycle!Next]_phase
  <2>1. CASE UNCHANGED <<store, lb>>
    BY <2>1 DEF phase, Guarded
  <2> DEFINE now(m) ==
        IF lb[m] # NoLB
        THEN IF Guarded(m) THEN "provisioned" ELSE "leaked"
        ELSE IF store[m] = NotFound THEN "absent"
        ELSE IF Guarded(m) THEN "guarded" ELSE "bare"
  <2>2. /\ phase = [m \in Names |-> now(m)]
        /\ phase' = [m \in Names |-> now(m)']
    BY DEF phase
  <2>3. \A m \in Names : lb[m] # NoLB => Guarded(m)
    BY <1>2 DEF IInv, SafeAt
  <2>4. ASSUME NEW n \in Names, \A m \in Names \ {n} : now(m)' = now(m),
               \/ now(n) = now(n)'
               \/ now(n) = "absent" /\ now(n)' = "bare"
               \/ now(n) = "bare" /\ now(n)' \in {"absent", "guarded"}
               \/ now(n) = "guarded" /\ now(n)' \in {"provisioned", "bare", "absent"}
               \/ now(n) = "provisioned" /\ now(n)' = "guarded"
        PROVE  [Lifecycle!Next]_phase
    <3> HIDE DEF now
    <3>1. phase[n] = now(n) /\ phase' = [phase EXCEPT ![n] = now(n)']
      BY <2>2, <2>4
    <3>2. CASE now(n) = now(n)'
      BY <2>2, <3>1, <3>2
    <3>3. CASE now(n) # now(n)'
      BY <2>4, <3>1, <3>3
      DEF Lifecycle!Next, Lifecycle!Appear, Lifecycle!Vanish, Lifecycle!Guard,
          Lifecycle!Provision, Lifecycle!Deprovision, Lifecycle!Release,
          Lifecycle!Move
    <3> QED BY <3>2, <3>3
  <2>5. ASSUME NEW n \in Names, NEW obj \in MCI \cup {NotFound},
               FittingWrite(n, obj)
        PROVE  [Lifecycle!Next]_phase
    <3>1. /\ store'[n] = obj /\ lb' = lb
          /\ \A m \in Names \ {n} : store'[m] = store[m]
      BY <1>2, <2>5 DEF FittingWrite, IInv, TypeOK
    <3>2. \A m \in Names \ {n} : now(m)' = now(m)
      BY <3>1 DEF Guarded
    <3>3. Guarded(n)' <=> HasFinalizer(obj)
      BY <3>1 DEF Guarded, HasFinalizer
    <3>4. /\ store[n] = NotFound => ~HasFinalizer(obj)
          /\ Guarded(n) /\ ~HasFinalizer(obj) => lb[n] = NoLB
      BY <2>5 DEF FittingWrite
    <3> QED
      BY <2>3, <2>4, <3>1, <3>2, <3>3, <3>4 DEF Guarded, HasFinalizer
  <2>6. ASSUME NEW n \in Names, NEW v, FittingCall(n, v)
        PROVE  [Lifecycle!Next]_phase
    <3>1. /\ lb'[n] = v /\ store' = store
          /\ \A m \in Names \ {n} : lb'[m] = lb[m]
      BY <1>2, <2>6 DEF FittingCall, IInv, TypeOK
    <3>2. \A m \in Names : Guarded(m)' <=> Guarded(m)
      BY <3>1 DEF Guarded
    <3>3. \A m \in Names \ {n} : now(m)' = now(m)
      BY <3>1, <3>2
    <3> QED
      BY <2>3, <2>4, <2>6, <3>1, <3>2, <3>3 DEF FittingCall, Guarded
  <2> QED BY <1>2, <2>1, <2>5, <2>6, FittingSteps
<1> QED
  BY <1>1, <1>2, Invariance, PTL DEF Spec, ImplementsLifecycle, Lifecycle!Spec
=============================================================================
