------------------------- MODULE MCSControllerProofs -------------------------
(***************************************************************************)
(* MCSController is safe for every set of MultiClusterServices, every      *)
(* provider and every lag of the informer: the proof of its inductive      *)
(* invariant IInv, and what follows from it.                               *)
(***************************************************************************)
EXTENDS MCSController, SequenceTheorems, TLAPS

\* A step of the reconcile of n, of the informer on n or of a writer of n
\* leaves every other object, and all that is known of it, alone.
OnlyAbout(n) ==
  \A m \in Names \ {n} :
    /\ store'[m] = store[m] /\ watch'[m] = watch[m] /\ cache'[m] = cache[m]
    /\ pc'[m] = pc[m] /\ mcs'[m] = mcs[m] /\ fresh'[m] = fresh[m]
    /\ lb'[m] = lb[m]

\* The invariant of m speaks of nothing but m.
LEMMA Frame ==
  ASSUME NEW n \in Names, OnlyAbout(n), \A m \in Names : SafeAt(m)
  PROVE  \A m \in Names \ {n} : SafeAt(m)'
  BY DEF OnlyAbout, SafeAt, Coherent, NoStaleLicence, AtStep, Guarded

\* Versions and copies of an MCS that the actions write are MCSs.
LEMMA RecordTypes ==
  ASSUME NEW m \in MCS
  PROVE  /\ \A t \in SUBSET ExposureTypes, c \in Cfgs :
              [m EXCEPT !.types = t, !.cfg = c] \in MCS
         /\ [m EXCEPT !.deleting = TRUE] \in MCS
         /\ [m EXCEPT !.held = FALSE] \in MCS
         /\ \A b \in BOOLEAN : [m EXCEPT !.finalizer = b] \in MCS
         /\ \A s \in Statuses : [m EXCEPT !.status = s] \in MCS
  BY DEF MCS

\* What Reconcile leaves behind when it returns.
LEMMA ReturnType ==
  ASSUME TypeOK, NEW n \in Names, Return(n)
  PROVE  /\ pc' \in [Names -> Steps]
         /\ mcs' \in [Names -> MCS \cup {NotFound}]
         /\ fresh' \in [Names -> BOOLEAN]
         /\ newStatus' \in [Names -> Statuses]
         /\ tries' \in [Names -> 0 .. RetrySteps - 1]
  BY ConstantsAssumption DEF TypeOK, Return, Goto, Steps

\* So do writes to the API server.
LEMMA CommitType ==
  ASSUME TypeOK, NEW n \in Names, NEW obj \in MCS \cup {NotFound},
         Commit(n, obj)
  PROVE  /\ store' \in [Names -> MCS \cup {NotFound}]
         /\ watch' \in [Names -> Seq(MCS \cup {NotFound})]
         /\ cache' \in [Names -> MCS \cup {NotFound}]
  BY DEF TypeOK, Commit

\* A write to the API server after which Reconcile returns keeps the types.
LEMMA LastWriteType ==
  ASSUME TypeOK, NEW n \in Names, NEW obj \in MCS \cup {NotFound},
         Commit(n, obj), Return(n), queue' = queue \/ queue' = queue \cup {n},
         UNCHANGED <<backendVars, chanVars, lb>>
  PROVE  TypeOK'
<1>1. queue' \subseteq Names
  BY DEF TypeOK
<1>2. /\ store' \in [Names -> MCS \cup {NotFound}]
      /\ watch' \in [Names -> Seq(MCS \cup {NotFound})]
      /\ cache' \in [Names -> MCS \cup {NotFound}]
  BY CommitType
<1>3. /\ pc' \in [Names -> Steps]
      /\ mcs' \in [Names -> MCS \cup {NotFound}]
      /\ fresh' \in [Names -> BOOLEAN]
      /\ newStatus' \in [Names -> Statuses]
      /\ tries' \in [Names -> 0 .. RetrySteps - 1]
  BY ReturnType
<1>4. UNCHANGED <<service, slice, svcEventChan, mcsEventChan, lb>>
  BY DEF backendVars, chanVars
<1> QED BY <1>1, <1>2, <1>3, <1>4 DEF TypeOK

\* An update of fresh with a truth value keeps its type.
LEMMA BooleanUpdate ==
  ASSUME NEW f \in [Names -> BOOLEAN], NEW n \in Names, NEW b \in BOOLEAN
  PROVE  [f EXCEPT ![n] = b] \in [Names -> BOOLEAN]
  OBVIOUS

HasFinalizer(m) == m # NotFound /\ m.finalizer

\* Users and other controllers write MCSs and never touch the finalizer.
LEMMA UserObjects ==
  ASSUME TypeOK, NEW n \in Names, UserStep(n)
  PROVE  \E obj \in MCS \cup {NotFound} :
           UserWrites(n, obj) /\ (HasFinalizer(obj) <=> Guarded(n))
<1> USE ConstantsAssumption
<1>1. ASSUME store[n] # NotFound PROVE store[n] \in MCS
  BY <1>1 DEF TypeOK
<1>2. CASE CreateMCS(n)
  <2>1. PICK t \in SUBSET ExposureTypes, c \in Cfgs, h \in Held :
          UserWrites(n, [types |-> t, cfg |-> c, deleting |-> FALSE,
                         finalizer |-> FALSE, held |-> h,
                         status |-> EmptyStatus])
    BY <1>2 DEF CreateMCS
  <2> DEFINE obj == [types |-> t, cfg |-> c, deleting |-> FALSE,
                     finalizer |-> FALSE, held |-> h, status |-> EmptyStatus]
  <2>2. obj \in MCS
    BY DEF MCS
  <2>3. HasFinalizer(obj) <=> Guarded(n)
    BY <1>2 DEF CreateMCS, HasFinalizer, Guarded
  <2> HIDE DEF obj
  <2> QED BY <2>1, <2>2, <2>3 DEF obj
<1>3. CASE EditMCS(n)
  <2>1. PICK t \in SUBSET ExposureTypes, c \in Cfgs :
          UserWrites(n, [store[n] EXCEPT !.types = t, !.cfg = c])
    BY <1>3 DEF EditMCS
  <2> DEFINE obj == [store[n] EXCEPT !.types = t, !.cfg = c]
  <2>2. obj \in MCS
    BY <1>1, <1>3, RecordTypes DEF EditMCS
  <2>3. obj.finalizer = store[n].finalizer
    BY <1>1, <1>3 DEF EditMCS, MCS
  <2> HIDE DEF obj
  <2>4. HasFinalizer(obj) <=> Guarded(n)
    BY <1>3, <2>2, <2>3 DEF EditMCS, HasFinalizer, Guarded
  <2> QED BY <2>1, <2>2, <2>4 DEF obj
<1>4. CASE DeleteMCS(n)
  <2> DEFINE obj == IF store[n].finalizer \/ store[n].held
                    THEN [store[n] EXCEPT !.deleting = TRUE] ELSE NotFound
  <2>1. UserWrites(n, obj)
    BY <1>4 DEF DeleteMCS
  <2>2. obj \in MCS \cup {NotFound}
    BY <1>1, <1>4, RecordTypes DEF DeleteMCS
  <2>3. HasFinalizer(obj) <=> Guarded(n)
    BY <1>1, <1>4 DEF DeleteMCS, HasFinalizer, Guarded, MCS
  <2> HIDE DEF obj
  <2> QED BY <2>1, <2>2, <2>3
<1>5. CASE ReleaseMCS(n)
  <2> DEFINE obj == IF store[n].finalizer
                    THEN [store[n] EXCEPT !.held = FALSE] ELSE NotFound
  <2>1. UserWrites(n, obj)
    BY <1>5 DEF ReleaseMCS
  <2>2. obj \in MCS \cup {NotFound}
    BY <1>1, <1>5, RecordTypes DEF ReleaseMCS
  <2>3. HasFinalizer(obj) <=> Guarded(n)
    BY <1>1, <1>5 DEF ReleaseMCS, HasFinalizer, Guarded, MCS
  <2> HIDE DEF obj
  <2> QED BY <2>1, <2>2, <2>3
<1> QED BY <1>2, <1>3, <1>4, <1>5 DEF UserStep

-----------------------------------------------------------------------------
\* Every action keeps the types, given that a reconcile in progress has a copy.
LEMMA TypeStep ==
  ASSUME TypeOK, \A n \in Names : AtStep(n), [Next]_vars
  PROVE  TypeOK'
<1> USE ConstantsAssumption
<1>1. CASE UNCHANGED vars
  BY <1>1 DEF TypeOK, vars, apiVars, backendVars, chanVars, workVars
<1>2. ASSUME NEW n \in Names, UserStep(n) PROVE TypeOK'
  <2>1. PICK obj \in MCS \cup {NotFound} : UserWrites(n, obj)
    BY <1>2, UserObjects
  <2>2. Commit(n, obj)
    BY <2>1 DEF UserWrites
  <2> QED
    BY <2>1, <2>2, CommitType DEF UserWrites, TypeOK, backendVars, chanVars
<1>3. ASSUME NEW n \in Names, HandlerStep(n) \/ Relist(n) PROVE TypeOK'
  <2>1. ASSUME NEW new \in MCS \cup {NotFound}, Observe(n, new),
               watch' \in [Names -> Seq(MCS \cup {NotFound})]
        PROVE  TypeOK'
    BY <2>1 DEF Observe, TypeOK, backendVars, chanVars, workVars
  <2>2. CASE Deliver(n)
    <3>1. watch[n] \in Seq(MCS \cup {NotFound}) /\ watch[n] # <<>>
      BY <2>2 DEF Deliver, TypeOK
    <3>2. /\ Head(watch[n]) \in MCS \cup {NotFound}
          /\ Tail(watch[n]) \in Seq(MCS \cup {NotFound})
      BY <3>1, HeadTailProperties
    <3>3. watch' \in [Names -> Seq(MCS \cup {NotFound})]
      BY <2>2, <3>2 DEF Deliver, TypeOK
    <3> QED BY <2>1, <2>2, <3>2, <3>3 DEF Deliver
  <2>3. CASE Relist(n)
    <3>1. watch' \in [Names -> Seq(MCS \cup {NotFound})]
      BY <2>3, EmptySeq DEF Relist, TypeOK
    <3>2. store[n] \in MCS \cup {NotFound}
      BY DEF TypeOK
    <3> QED BY <2>1, <2>3, <3>1, <3>2 DEF Relist
  <2>4. CASE ServiceGeneric(n) \/ MCSGeneric(n)
    BY <2>4 DEF ServiceGeneric, MCSGeneric, enqueueImpactedMCS, TypeOK,
                apiVars, backendVars, workVars
  <2> QED BY <1>3, <2>2, <2>3, <2>4 DEF HandlerStep
<1>4. CASE BackendStep
  <2>1. CASE \E n \in Names : ServiceEvent(n)
    BY <2>1 DEF ServiceEvent, enqueueImpactedMCS, TypeOK, apiVars, workVars
  <2>2. CASE \E s \in Slices : EndpointSliceEvent(s)
    BY <2>2 DEF EndpointSliceEvent, enqueueImpactedSvc, TrimPrefix, TypeOK,
                apiVars, workVars, Endpoints, Labels
  <2> QED BY <1>4, <2>1, <2>2 DEF BackendStep
<1>5. CASE Restart
  BY <1>5 DEF Restart, TypeOK, TrimPrefix, Labels, backendVars, Steps
<1>6. ASSUME NEW n \in Names, WorkStep(n) \/ FaultStep(n), ~Relist(n)
      PROVE  TypeOK'
  <2>1. ASSUME pc[n] # "idle" PROVE mcs[n] \in MCS
    BY <2>1 DEF TypeOK, AtStep
  <2>2. CASE Reconcile(n)
    <3>1. cache[n] # NotFound => Dispatch(cache[n]) \in Steps
      BY DEF Dispatch, handleMCSDelete, handleMCSCreateOrUpdate, Steps
    <3>2. fresh' \in [Names -> BOOLEAN]
      <4>1. (watch[n] = <<>>) \in BOOLEAN
        OBVIOUS
      <4>2. fresh \in [Names -> BOOLEAN]
        BY DEF TypeOK
      <4>3. \/ fresh' = fresh
            \/ fresh' = [fresh EXCEPT ![n] = (watch[n] = <<>>)]
        BY <2>2, Zenon DEF Reconcile
      <4> QED BY <4>1, <4>2, <4>3, BooleanUpdate, Zenon
    <3>3. /\ pc' \in [Names -> Steps]
          /\ mcs' \in [Names -> MCS \cup {NotFound}]
      <4>1. CASE cache[n] = NotFound
        BY <2>2, <4>1 DEF Reconcile, TypeOK
      <4>2. CASE cache[n] # NotFound
        <5>1. /\ pc' = [pc EXCEPT ![n] = Dispatch(cache[n])]
              /\ mcs' = [mcs EXCEPT ![n] = cache[n]]
          BY <2>2, <4>2, Zenon DEF Reconcile, Goto
        <5> QED BY <3>1, <4>2, <5>1 DEF TypeOK
      <4> QED BY <4>1, <4>2
    <3>4. /\ queue' = queue \ {n}
          /\ UNCHANGED <<apiVars, backendVars, chanVars, newStatus, tries, lb>>
      BY <2>2 DEF Reconcile
    <3> QED
      BY <3>2, <3>3, <3>4 DEF TypeOK, apiVars, backendVars, chanVars
  <2>3. CASE UpdateRejected(n) \/ CallFails(n)
    BY <2>3, ReturnType DEF UpdateRejected, CallFails, Requeue, TypeOK, apiVars,
                backendVars, chanVars
  <2>4. ASSUME NEW ok \in BOOLEAN, AddFinalizer(n, ok) PROVE TypeOK'
    <3> DEFINE updated == [mcs[n] EXCEPT !.finalizer = TRUE]
    <3>1. updated \in MCS
      BY <2>1, <2>4, RecordTypes DEF AddFinalizer
    <3>2. Commit(n, updated)
      BY <2>4 DEF AddFinalizer
    <3> HIDE DEF updated
    <3>3. CASE ok
      <4>1. /\ pc' = [pc EXCEPT ![n] = "getLB"]
            /\ mcs' = [mcs EXCEPT ![n] = updated]
            /\ UNCHANGED <<fresh, newStatus, tries, queue, backendVars,
                           chanVars, lb>>
        BY <2>4, <3>3 DEF AddFinalizer, Goto, updated
      <4>2. /\ store' \in [Names -> MCS \cup {NotFound}]
            /\ watch' \in [Names -> Seq(MCS \cup {NotFound})]
            /\ cache' \in [Names -> MCS \cup {NotFound}]
        BY <3>1, <3>2, CommitType
      <4>3. /\ pc' \in [Names -> Steps]
            /\ mcs' \in [Names -> MCS \cup {NotFound}]
        BY <3>1, <4>1 DEF Steps, TypeOK
      <4> QED
        BY <4>1, <4>2, <4>3 DEF TypeOK, backendVars, chanVars
    <3>4. CASE ~ok
      <4>1. /\ Return(n) /\ queue' = queue \cup {n}
            /\ UNCHANGED <<backendVars, chanVars, lb>>
        BY <2>4, <3>4 DEF AddFinalizer, Requeue
      <4> QED BY <3>1, <3>2, <4>1, LastWriteType
    <3> QED BY <3>3, <3>4
  <2>5. CASE GetMCSLoadBalancer(n)
    BY <2>5 DEF GetMCSLoadBalancer, CreateOrUpdateStep, Goto, Steps, TypeOK,
                apiVars, backendVars, chanVars
  <2>6. ASSUME NEW ok \in BOOLEAN,
               handleMCSCreate(n, ok) \/ handleMCSUpdate(n, ok)
        PROVE  TypeOK'
    <3>1. PICK step \in {"ensure", "update"} : CallProvider(n, step, ok)
      BY <2>6 DEF handleMCSCreate, handleMCSUpdate
    <3>2. mcs[n] \in MCS
      BY <2>1, <3>1 DEF CallProvider
    <3>3. PICK status \in ProviderStatus[mcs[n].cfg] :
            /\ lb' = [lb EXCEPT ![n] = Programmed(n, status)]
            /\ IF ok THEN updateMCSStatus(n, status) ELSE Requeue(n)
      BY <3>1 DEF CallProvider
    <3>4. mcs[n].cfg \in Cfgs /\ status \in Statuses \cup {NilStatus}
      BY <3>2 DEF MCS
    <3>5. Programmed(n, status) \in LB
      BY <3>4 DEF Programmed, LB, Endpoints, TypeOK
    <3>6. lb' \in [Names -> LB \cup {NoLB}]
      BY <3>3, <3>5 DEF TypeOK
    <3>7. UNCHANGED <<apiVars, backendVars, chanVars>>
      BY <3>1 DEF CallProvider
    <3>8. CASE Done(n) \/ Requeue(n)
      BY <3>6, <3>7, <3>8, ReturnType
      DEF Done, Requeue, TypeOK, apiVars, backendVars, chanVars
    <3>9. CASE ~(Done(n) \/ Requeue(n))
      <4>1. /\ status # NilStatus
            /\ pc' = [pc EXCEPT ![n] = "status"]
            /\ newStatus' = [newStatus EXCEPT ![n] = status]
            /\ UNCHANGED <<mcs, fresh, tries, queue>>
        BY <3>3, <3>9 DEF updateMCSStatus, Goto
      <4> QED
        BY <3>4, <3>6, <3>7, <4>1
        DEF Steps, TypeOK, apiVars, backendVars, chanVars
    <3> QED BY <3>8, <3>9
  <2>7. ASSUME NEW ok \in BOOLEAN, UpdateStatus(n, ok) PROVE TypeOK'
    <3>1. [mcs[n] EXCEPT !.status = newStatus[n]] \in MCS
      BY <2>1, <2>7, RecordTypes DEF UpdateStatus, TypeOK
    <3>2. /\ Commit(n, [mcs[n] EXCEPT !.status = newStatus[n]]) /\ Return(n)
          /\ queue' = queue \/ queue' = queue \cup {n}
          /\ UNCHANGED <<backendVars, chanVars, lb>>
      BY <2>7 DEF UpdateStatus, Answered, Done, Requeue
    <3> QED BY <3>1, <3>2, LastWriteType
  <2>8. CASE RetryStatus(n)
    <3>1. CASE Requeue(n)
      BY <2>8, <3>1, ReturnType
      DEF RetryStatus, Requeue, TypeOK, apiVars, backendVars, chanVars
    <3>2. CASE ~Requeue(n)
      <4>1. /\ tries[n] + 1 < RetrySteps
            /\ tries' = [tries EXCEPT ![n] = tries[n] + 1]
            /\ mcs' = IF cache[n] = NotFound THEN mcs
                      ELSE [mcs EXCEPT ![n] = cache[n]]
            /\ UNCHANGED <<pc, newStatus, queue, apiVars, backendVars,
                           chanVars, lb>>
        BY <2>8, <3>2 DEF RetryStatus, Retriable
      <4>2. fresh' \in [Names -> BOOLEAN]
        <5>1. (cache[n] # NotFound /\ watch[n] = <<>>) \in BOOLEAN
          OBVIOUS
        <5>2. fresh \in [Names -> BOOLEAN]
          BY DEF TypeOK
        <5>3. fresh' = [fresh EXCEPT
                          ![n] = (cache[n] # NotFound /\ watch[n] = <<>>)]
          BY <2>8, <3>2, Zenon DEF RetryStatus
        <5> QED BY <5>1, <5>2, <5>3, BooleanUpdate, Zenon
      <4>3. tries' \in [Names -> 0 .. RetrySteps - 1]
        BY <4>1 DEF TypeOK
      <4> QED
        BY <4>1, <4>2, <4>3 DEF TypeOK, apiVars, backendVars, chanVars
    <3> QED BY <3>1, <3>2
  <2>9. CASE GetForDelete(n)
    <3>1. UNCHANGED <<apiVars, backendVars, chanVars, queue, lb>>
      BY <2>9 DEF GetForDelete, Done
    <3>2. CASE Return(n)
      BY <3>1, <3>2, ReturnType DEF TypeOK, apiVars, backendVars, chanVars
    <3>3. CASE ~Return(n)
      <4>1. /\ pc' = [pc EXCEPT ![n] = "ensureDeleted"]
            /\ UNCHANGED <<mcs, fresh, newStatus, tries>>
        BY <2>9, <3>3 DEF GetForDelete, Done, Goto
      <4> QED
        BY <3>1, <4>1 DEF Steps, TypeOK, apiVars, backendVars, chanVars
    <3> QED BY <3>2, <3>3
  <2>10. ASSUME NEW ok \in BOOLEAN, EnsureMCSLoadBalancerDeleted(n, ok)
         PROVE  TypeOK'
    <3>1. /\ lb' = [lb EXCEPT ![n] = NoLB]
          /\ UNCHANGED <<apiVars, backendVars, chanVars>>
      BY <2>10 DEF EnsureMCSLoadBalancerDeleted
    <3>2. CASE Done(n) \/ Requeue(n)
      BY <3>1, <3>2, ReturnType
      DEF Done, Requeue, TypeOK, apiVars, backendVars, chanVars
    <3>3. CASE ~(Done(n) \/ Requeue(n))
      <4>1. /\ pc' = [pc EXCEPT ![n] = "removeFinalizer"]
            /\ UNCHANGED <<queue, mcs, fresh, newStatus, tries>>
        BY <2>10, <3>3 DEF EnsureMCSLoadBalancerDeleted, AfterDeleted, Goto
      <4> QED
        BY <3>1, <4>1 DEF Steps, TypeOK, apiVars, backendVars, chanVars
    <3> QED BY <3>2, <3>3
  <2>11. ASSUME NEW ok \in BOOLEAN, RemoveFinalizer(n, ok) PROVE TypeOK'
    <3> DEFINE obj == IF mcs[n].deleting /\ ~mcs[n].held THEN NotFound
                      ELSE [mcs[n] EXCEPT !.finalizer = FALSE]
    <3>1. obj \in MCS \cup {NotFound}
      BY <2>1, <2>11, RecordTypes DEF RemoveFinalizer
    <3>2. /\ Commit(n, obj) /\ Return(n)
          /\ queue' = queue \/ queue' = queue \cup {n}
          /\ UNCHANGED <<backendVars, chanVars, lb>>
      BY <2>11 DEF RemoveFinalizer, Answered, Done, Requeue
    <3> HIDE DEF obj
    <3> QED BY <3>1, <3>2, LastWriteType
  <2> QED
    BY <1>6, <2>2, <2>3, <2>4, <2>5, <2>6, <2>7, <2>8, <2>9, <2>10, <2>11
    DEF WorkStep, FaultStep
<1> QED
  BY <1>1, <1>2, <1>3, <1>4, <1>5, <1>6 DEF Next, FaultStep

-----------------------------------------------------------------------------
\* A committed version is the newest one, and licenses nothing unless it has
\* the finalizer.
LEMMA CommitSafe ==
  ASSUME TypeOK, NEW n \in Names, NEW obj \in MCS \cup {NotFound},
         Commit(n, obj), Coherent(n), NoStaleLicence(n),
         HasFinalizer(obj) \/ ~Guarded(n)
  PROVE  /\ Coherent(n)'
         /\ NoStaleLicence(n)'
         /\ Guarded(n)' <=> HasFinalizer(obj)
         /\ store'[n] = obj
<1>1. store'[n] = obj /\ cache' = cache
  BY DEF Commit, TypeOK
<1>2. watch'[n] = IF obj = store[n] THEN watch[n] ELSE Append(watch[n], obj)
  BY DEF Commit, TypeOK
<1>3. watch[n] \in Seq(MCS \cup {NotFound})
  BY DEF TypeOK
<1>4. Coherent(n)'
  <2>1. CASE obj = store[n]
    BY <1>1, <1>2, <2>1 DEF Coherent
  <2>2. CASE obj # store[n]
    BY <1>1, <1>2, <1>3, <2>2, AppendProperties DEF Coherent
  <2> QED BY <2>1, <2>2
<1>5. Guarded(n)' <=> HasFinalizer(obj)
  BY <1>1 DEF Guarded, HasFinalizer
<1>6. ASSUME ~HasFinalizer(obj) PROVE NoStaleLicence(n)'
  <2>1. ~Licence(obj) /\ ~Licence(cache'[n])
    BY <1>1, <1>6 DEF Licence, HasFinalizer, NoStaleLicence
  <2>2. \A i \in 1 .. Len(watch[n]) : ~Licence(watch[n][i])
    BY <1>6 DEF NoStaleLicence
  <2>3. \A i \in 1 .. Len(watch'[n]) : ~Licence(watch'[n][i])
    <3>1. CASE obj = store[n]
      BY <1>2, <2>2, <3>1
    <3>2. CASE obj # store[n]
      <4>1. /\ watch'[n] = Append(watch[n], obj)
            /\ Len(watch'[n]) = Len(watch[n]) + 1
            /\ watch'[n][Len(watch[n]) + 1] = obj
            /\ \A i \in 1 .. Len(watch[n]) : watch'[n][i] = watch[n][i]
        BY <1>2, <1>3, <3>2, AppendProperties
      <4>2. Len(watch[n]) \in Nat
        BY <1>3, LenProperties
      <4>3. \A i \in 1 .. Len(watch'[n]) :
              i \in 1 .. Len(watch[n]) \/ i = Len(watch[n]) + 1
        BY <4>1, <4>2
      <4> QED BY <2>1, <2>2, <4>1, <4>3, Zenon
    <3> QED BY <3>1, <3>2
  <2> QED BY <2>1, <2>3 DEF NoStaleLicence
<1> QED BY <1>1, <1>4, <1>5, <1>6 DEF NoStaleLicence

\* A user's write keeps the invariant as long as it does not touch the
\* controller's finalizer.
LEMMA UserWritesSafe ==
  ASSUME TypeOK, NEW n \in Names, NEW obj \in MCS \cup {NotFound},
         UserWrites(n, obj), \A m \in Names : SafeAt(m),
         HasFinalizer(obj) <=> Guarded(n)
  PROVE  \A m \in Names : SafeAt(m)'
<1>1. /\ Commit(n, obj)
      /\ fresh' = [fresh EXCEPT ![n] = FALSE]
      /\ UNCHANGED <<pc, mcs, lb>>
  BY DEF UserWrites
<1>2. OnlyAbout(n)
  BY <1>1 DEF OnlyAbout, Commit, TypeOK
<1>3. /\ Coherent(n)' /\ NoStaleLicence(n)'
      /\ Guarded(n)' <=> Guarded(n)
  BY <1>1, CommitSafe DEF SafeAt
<1>4. ~fresh'[n]
  BY <1>1 DEF TypeOK
<1>5. SafeAt(n)'
  BY <1>1, <1>3, <1>4 DEF SafeAt, AtStep
<1> QED BY <1>2, <1>5, Frame

\* A reconcile may return wherever a load balancer has its finalizer.
LEMMA ReturnSafe ==
  ASSUME TypeOK, NEW n \in Names, Return(n), Coherent(n)', NoStaleLicence(n)',
         lb'[n] # NoLB => Guarded(n)'
  PROVE  SafeAt(n)'
<1>1. pc'[n] = "idle" /\ ~fresh'[n]
  BY DEF Return, Goto, TypeOK
<1> QED BY <1>1 DEF SafeAt, AtStep

\* Users, other controllers, the informer, the handlers and a restart.
LEMMA EnvironmentSafe ==
  ASSUME TypeOK, \A m \in Names : SafeAt(m),
         \/ \E n \in Names : UserStep(n) \/ HandlerStep(n) \/ Relist(n)
         \/ BackendStep
         \/ Restart
  PROVE  \A m \in Names : SafeAt(m)'
<1>1. ASSUME NEW n \in Names, UserStep(n) PROVE \A m \in Names : SafeAt(m)'
  BY <1>1, UserObjects, UserWritesSafe
<1>2. ASSUME NEW n \in Names, Deliver(n) PROVE \A m \in Names : SafeAt(m)'
  <2>1. /\ watch[n] # <<>>
        /\ watch' = [watch EXCEPT ![n] = Tail(watch[n])]
        /\ cache' = [cache EXCEPT ![n] = Head(watch[n])]
        /\ UNCHANGED <<store, pc, mcs, fresh, lb>>
    BY <1>2 DEF Deliver, Observe, workVars
  <2>2. watch[n] \in Seq(MCS \cup {NotFound})
    BY DEF TypeOK
  <2>3. /\ watch'[n] = Tail(watch[n]) /\ cache'[n] = watch[n][1]
        /\ Len(watch[n]) \in Nat \ {0}
        /\ Len(watch'[n]) = Len(watch[n]) - 1
        /\ \A i \in 1 .. Len(watch'[n]) : watch'[n][i] = watch[n][i + 1]
    BY <2>1, <2>2, HeadTailProperties, EmptySeq DEF TypeOK
  <2>4. OnlyAbout(n)
    BY <2>1 DEF OnlyAbout, TypeOK
  <2>5. Coherent(n)'
    <3>1. CASE Len(watch[n]) = 1
      BY <2>1, <2>2, <2>3, <3>1, EmptySeq DEF Coherent, SafeAt
    <3>2. CASE Len(watch[n]) # 1
      <4>1. store[n] = watch[n][Len(watch[n])]
        BY <2>1 DEF Coherent, SafeAt
      <4>2. Len(watch'[n]) \in 1 .. Len(watch'[n]) /\ watch'[n] # <<>>
        <5>1. Len(watch'[n]) \in Nat \ {0}
          BY <2>3, <3>2
        <5>2. watch'[n] # <<>>
          BY <5>1, Len(<<>>) = 0
        <5> QED BY <5>1, <5>2
      <4>3. watch'[n][Len(watch'[n])] = watch[n][Len(watch[n])]
        BY <2>3, <4>2
      <4> QED BY <2>1, <4>1, <4>2, <4>3 DEF Coherent
    <3> QED BY <3>1, <3>2
  <2>6. NoStaleLicence(n)'
    BY <2>1, <2>3 DEF NoStaleLicence, SafeAt, Guarded
  <2>7. AtStep(n)'
    BY <2>1 DEF AtStep, SafeAt, Guarded
  <2>8. SafeAt(n)'
    BY <2>1, <2>5, <2>6, <2>7 DEF SafeAt, Guarded
  <2> QED BY <2>4, <2>8, Frame
<1>3. ASSUME NEW n \in Names, Relist(n) PROVE \A m \in Names : SafeAt(m)'
  <2>1. /\ watch' = [watch EXCEPT ![n] = <<>>]
        /\ cache' = [cache EXCEPT ![n] = store[n]]
        /\ UNCHANGED <<store, pc, mcs, fresh, lb>>
    BY <1>3 DEF Relist, Observe, workVars
  <2>2. watch'[n] = <<>> /\ cache'[n] = store[n] /\ Len(watch'[n]) = 0
    BY <2>1, EmptySeq DEF TypeOK
  <2>3. OnlyAbout(n)
    BY <2>1 DEF OnlyAbout, TypeOK
  <2>4. Coherent(n)' /\ NoStaleLicence(n)'
    BY <2>1, <2>2 DEF Coherent, NoStaleLicence, Licence, Guarded
  <2>5. SafeAt(n)'
    BY <2>1, <2>2, <2>4 DEF SafeAt, AtStep, Guarded
  <2> QED BY <2>3, <2>5, Frame
<1>4. CASE UNCHANGED <<store, watch, cache, pc, mcs, fresh, lb>>
  BY <1>4 DEF SafeAt, Coherent, NoStaleLicence, AtStep, Guarded
<1>5. ASSUME BackendStep \/ \E n \in Names : ServiceGeneric(n) \/ MCSGeneric(n)
      PROVE  \A m \in Names : SafeAt(m)'
  BY <1>4, <1>5 DEF BackendStep, ServiceEvent, EndpointSliceEvent,
                    ServiceGeneric, MCSGeneric, apiVars, workVars
<1>6. ASSUME Restart PROVE \A m \in Names : SafeAt(m)'
  <2> TAKE n \in Names
  <2>1. /\ cache'[n] = store[n] /\ store' = store /\ lb' = lb
        /\ watch'[n] = <<>> /\ Len(watch'[n]) = 0
        /\ pc'[n] = "idle" /\ fresh'[n] = FALSE
    BY <1>6, EmptySeq DEF Restart
  <2> QED
    BY <2>1 DEF SafeAt, Coherent, NoStaleLicence, Licence, AtStep, Guarded
<1> QED BY <1>1, <1>2, <1>3, <1>5, <1>6 DEF HandlerStep

\* The steps of the reconciler.
LEMMA WorkSafe ==
  ASSUME TypeOK, \A m \in Names : SafeAt(m),
         NEW n \in Names, WorkStep(n) \/ FaultStep(n), ~Relist(n)
  PROVE  \A m \in Names : SafeAt(m)'
<1> USE ConstantsAssumption
<1>1. SafeAt(n)
  OBVIOUS
<1>2. ASSUME pc[n] # "idle" PROVE mcs[n] \in MCS
  BY <1>1, <1>2 DEF TypeOK, SafeAt, AtStep
\* A return that leaves API server and provider alone
<1>3. ASSUME Return(n), UNCHANGED <<apiVars, lb>>
      PROVE  \A m \in Names : SafeAt(m)'
  <2>1. OnlyAbout(n)
    BY <1>3 DEF OnlyAbout, Return, Goto, TypeOK, apiVars
  <2>2. Coherent(n)' /\ NoStaleLicence(n)' /\ (lb'[n] # NoLB => Guarded(n)')
    BY <1>1, <1>3 DEF SafeAt, Coherent, NoStaleLicence, Guarded, apiVars
  <2> QED BY <1>3, <2>1, <2>2, ReturnSafe, Frame
\* A step that changes nothing but pc[n]
<1>4. ASSUME NEW step \in Steps, Goto(n, step), AtStep(n)',
             step = "ensure" => lb[n] = NoLB,
             step = "update" => lb[n] # NoLB,
             UNCHANGED <<apiVars, lb, mcs, fresh>>
      PROVE  \A m \in Names : SafeAt(m)'
  <2>1. OnlyAbout(n)
    BY <1>4 DEF OnlyAbout, Goto, TypeOK, apiVars
  <2>2. pc'[n] = step
    BY <1>4 DEF Goto, TypeOK
  <2>3. SafeAt(n)'
    BY <1>1, <1>4, <2>2
    DEF SafeAt, Coherent, NoStaleLicence, Guarded, apiVars
  <2> QED BY <2>1, <2>3, Frame
\* A return after a write to the API server
<1>5. ASSUME NEW obj \in MCS \cup {NotFound}, Commit(n, obj), Return(n), lb' = lb,
             Coherent(n)', NoStaleLicence(n)', lb[n] # NoLB => Guarded(n)'
      PROVE  \A m \in Names : SafeAt(m)'
  <2>1. OnlyAbout(n)
    BY <1>5 DEF OnlyAbout, Commit, Return, Goto, TypeOK
  <2> QED BY <1>5, <2>1, ReturnSafe, Frame
<1>6. CASE Reconcile(n)
  <2>1. UNCHANGED <<apiVars, lb>> /\ pc[n] = "idle"
    BY <1>6 DEF Reconcile
  <2>2. CASE cache[n] = NotFound
    <3>1. UNCHANGED <<pc, mcs, fresh>>
      BY <1>6, <2>2 DEF Reconcile
    <3> QED
      BY <2>1, <3>1 DEF SafeAt, Coherent, NoStaleLicence, AtStep, Guarded, apiVars
  <2>3. CASE cache[n] # NotFound
    <3>1. /\ pc' = [pc EXCEPT ![n] = Dispatch(cache[n])]
          /\ mcs' = [mcs EXCEPT ![n] = cache[n]]
          /\ fresh' = [fresh EXCEPT ![n] = (watch[n] = <<>>)]
      BY <1>6, <2>3, Zenon DEF Reconcile, Goto
    <3>2. pc'[n] = Dispatch(cache[n]) /\ mcs'[n] = cache[n]
      BY <3>1 DEF TypeOK
    <3>3. fresh'[n] <=> watch[n] = <<>>
      BY <3>1, Zenon DEF TypeOK
    <3>4. OnlyAbout(n)
      BY <2>1, <3>1 DEF OnlyAbout, TypeOK, apiVars
    <3>5. CASE Unwanted(cache[n])
      <4>1. pc'[n] \in {"ensureDeleted", "getForDelete"}
        BY <3>2, <3>5 DEF Dispatch, Unwanted, handleMCSDelete
      <4> QED
        BY <1>1, <2>1, <2>3, <3>2, <3>3, <3>4, <3>5, <4>1, Frame
        DEF SafeAt, Coherent, NoStaleLicence, AtStep, Guarded, apiVars
    <3>6. CASE ~Unwanted(cache[n])
      <4>1. pc'[n] = IF cache[n].finalizer THEN "getLB" ELSE "addFinalizer"
        BY <3>2, <3>6 DEF Dispatch, Unwanted, handleMCSCreateOrUpdate
      <4>2. cache[n].finalizer => Guarded(n)
        BY <1>1, <2>3, <3>6 DEF SafeAt, NoStaleLicence, Licence
      <4> QED
        BY <1>1, <2>1, <2>3, <3>2, <3>3, <3>4, <4>1, <4>2, Frame
        DEF SafeAt, Coherent, NoStaleLicence, AtStep, Guarded, apiVars
    <3> QED BY <3>5, <3>6
  <2> QED BY <2>2, <2>3
<1>7. CASE UpdateRejected(n) \/ CallFails(n)
  BY <1>3, <1>7 DEF UpdateRejected, CallFails, Requeue
<1>8. ASSUME NEW ok \in BOOLEAN, AddFinalizer(n, ok)
      PROVE  \A m \in Names : SafeAt(m)'
  <2> DEFINE updated == [mcs[n] EXCEPT !.finalizer = TRUE]
  <2>1. updated \in MCS /\ HasFinalizer(updated)
    <3>1. updated \in MCS
      BY <1>2, <1>8, RecordTypes DEF AddFinalizer
    <3>2. updated.finalizer
      BY <1>2, <1>8 DEF AddFinalizer, MCS
    <3> QED BY <3>1, <3>2 DEF HasFinalizer
  <2>2. Commit(n, updated) /\ lb' = lb
    BY <1>8 DEF AddFinalizer
  <2>3. CASE ~ok
    <3>1. Return(n)
      BY <1>8, <2>3 DEF AddFinalizer, Requeue
    <3> HIDE DEF updated
    <3>2. Coherent(n)' /\ NoStaleLicence(n)' /\ Guarded(n)'
      BY <1>1, <2>1, <2>2, CommitSafe DEF SafeAt
    <3> QED BY <1>5, <2>1, <2>2, <3>1, <3>2
  <2>4. CASE ok
    <3>1. /\ pc' = [pc EXCEPT ![n] = "getLB"]
          /\ mcs' = [mcs EXCEPT ![n] = updated]
          /\ fresh' = fresh
      BY <1>8, <2>4 DEF AddFinalizer, Goto
    <3> HIDE DEF updated
    <3>2. /\ Coherent(n)' /\ NoStaleLicence(n)' /\ Guarded(n)'
          /\ store'[n] = updated
      BY <1>1, <2>1, <2>2, CommitSafe DEF SafeAt
    <3>3. OnlyAbout(n)
      BY <2>2, <3>1 DEF OnlyAbout, Commit, TypeOK
    <3>4. pc'[n] = "getLB" /\ mcs'[n] = updated
      BY <3>1 DEF TypeOK
    <3>5. SafeAt(n)'
      BY <2>1, <3>2, <3>4 DEF SafeAt, AtStep
    <3> QED BY <3>3, <3>5, Frame
  <2> QED BY <2>3, <2>4
<1>9. CASE GetMCSLoadBalancer(n)
  <2>1. PICK step \in {"ensure", "update"} :
          /\ pc[n] = "getLB" /\ Goto(n, step)
          /\ step = "ensure" => lb[n] = NoLB
          /\ step = "update" => lb[n] # NoLB
          /\ UNCHANGED <<apiVars, lb, mcs, fresh>>
    BY <1>9 DEF GetMCSLoadBalancer, CreateOrUpdateStep
  <2>2. AtStep(n)'
    BY <1>1, <2>1 DEF Goto, SafeAt, AtStep, Guarded, apiVars, TypeOK
  <2> QED BY <1>4, <2>1, <2>2 DEF Steps
<1>10. ASSUME NEW ok \in BOOLEAN,
              handleMCSCreate(n, ok) \/ handleMCSUpdate(n, ok)
       PROVE  \A m \in Names : SafeAt(m)'
  <2>1. PICK step \in {"ensure", "update"} : CallProvider(n, step, ok)
    BY <1>10 DEF handleMCSCreate, handleMCSUpdate
  <2>2. PICK status \in ProviderStatus[mcs[n].cfg] :
          /\ lb' = [lb EXCEPT ![n] = Programmed(n, status)]
          /\ IF ok THEN updateMCSStatus(n, status) ELSE Requeue(n)
    BY <2>1 DEF CallProvider
  <2>3. UNCHANGED apiVars /\ pc[n] = step
    BY <2>1 DEF CallProvider
  <2>4. Guarded(n) /\ Guarded(n)'
    BY <1>1, <2>3 DEF SafeAt, AtStep, Guarded, apiVars
  <2>5. Coherent(n)' /\ NoStaleLicence(n)'
    BY <1>1, <2>3 DEF SafeAt, Coherent, NoStaleLicence, Guarded, apiVars
  <2>6. CASE Return(n)
    <3>1. OnlyAbout(n)
      BY <2>2, <2>3, <2>6 DEF OnlyAbout, Return, Goto, TypeOK, apiVars
    <3> QED BY <2>4, <2>5, <2>6, <3>1, ReturnSafe, Frame
  <2>7. CASE ~Return(n)
    <3>1. pc' = [pc EXCEPT ![n] = "status"] /\ UNCHANGED <<mcs, fresh>>
      BY <2>2, <2>7 DEF updateMCSStatus, Done, Requeue, Goto
    <3>2. OnlyAbout(n)
      BY <2>2, <2>3, <3>1 DEF OnlyAbout, TypeOK, apiVars
    <3>3. pc'[n] = "status"
      BY <3>1 DEF TypeOK
    <3>4. AtStep(n)'
      BY <1>1, <2>3, <2>4, <3>1, <3>3 DEF SafeAt, AtStep, apiVars
    <3>5. SafeAt(n)'
      BY <2>4, <2>5, <3>3, <3>4 DEF SafeAt
    <3> QED BY <3>2, <3>5, Frame
  <2> QED BY <2>6, <2>7
<1>11. ASSUME NEW ok \in BOOLEAN, UpdateStatus(n, ok)
       PROVE  \A m \in Names : SafeAt(m)'
  <2> DEFINE updated == [mcs[n] EXCEPT !.status = newStatus[n]]
  <2>1. Commit(n, updated) /\ Return(n) /\ lb' = lb
    BY <1>11 DEF UpdateStatus, Answered, Done, Requeue
  <2>2. mcs[n] \in MCS /\ HasFinalizer(mcs[n])
    BY <1>1, <1>2, <1>11 DEF UpdateStatus, SafeAt, AtStep, Guarded, HasFinalizer
  <2>3. updated \in MCS /\ updated.finalizer = mcs[n].finalizer
    <3>1. newStatus[n] \in Statuses
      BY DEF TypeOK
    <3>2. updated \in MCS
      BY <2>2, <3>1, RecordTypes
    <3>3. updated.finalizer = mcs[n].finalizer
      BY <2>2 DEF MCS
    <3> QED BY <3>2, <3>3
  <2> HIDE DEF updated
  <2>4. HasFinalizer(updated)
    BY <2>2, <2>3 DEF HasFinalizer
  <2>5. Coherent(n)' /\ NoStaleLicence(n)' /\ Guarded(n)'
    BY <1>1, <2>1, <2>3, <2>4, CommitSafe DEF SafeAt
  <2> QED BY <1>5, <2>1, <2>3, <2>5
<1>12. CASE RetryStatus(n)
  <2>1. UNCHANGED <<apiVars, lb>> /\ pc[n] = "status"
    BY <1>12 DEF RetryStatus
  <2>2. CASE Requeue(n)
    BY <1>3, <2>1, <2>2 DEF Requeue
  <2>3. CASE ~Requeue(n)
    <3>1. /\ mcs' = IF cache[n] = NotFound THEN mcs
                    ELSE [mcs EXCEPT ![n] = cache[n]]
          /\ fresh' = [fresh EXCEPT
                         ![n] = cache[n] # NotFound /\ watch[n] = <<>>]
          /\ pc' = pc
      BY <1>12, <2>3 DEF RetryStatus
    <3>2. fresh'[n] <=> cache[n] # NotFound /\ watch[n] = <<>>
      BY <3>1, Zenon DEF TypeOK
    <3>3. mcs'[n] = IF cache[n] = NotFound THEN mcs[n] ELSE cache[n]
      BY <3>1 DEF TypeOK
    <3>4. OnlyAbout(n)
      BY <2>1, <3>1 DEF OnlyAbout, TypeOK, apiVars
    <3>5. AtStep(n)'
      BY <1>1, <2>1, <3>1, <3>2, <3>3
      DEF SafeAt, Coherent, AtStep, Guarded, apiVars
    <3>6. SafeAt(n)'
      BY <1>1, <2>1, <3>1, <3>5
      DEF SafeAt, Coherent, NoStaleLicence, Guarded, apiVars
    <3> QED BY <3>4, <3>6, Frame
  <2> QED BY <2>2, <2>3
<1>13. CASE GetForDelete(n)
  <2>1. UNCHANGED <<apiVars, lb>> /\ pc[n] = "getForDelete"
    BY <1>13 DEF GetForDelete
  <2>2. CASE Return(n)
    BY <1>3, <2>1, <2>2
  <2>3. CASE ~Return(n)
    <3>1. Goto(n, "ensureDeleted") /\ UNCHANGED <<mcs, fresh>>
      BY <1>13, <2>3 DEF GetForDelete, Done
    <3>2. AtStep(n)'
      BY <1>1, <2>1, <3>1 DEF Goto, SafeAt, AtStep, Guarded, apiVars, TypeOK
    <3> QED BY <1>4, <2>1, <3>1, <3>2 DEF Steps
  <2> QED BY <2>2, <2>3
<1>14. ASSUME NEW ok \in BOOLEAN, EnsureMCSLoadBalancerDeleted(n, ok)
       PROVE  \A m \in Names : SafeAt(m)'
  <2>1. /\ pc[n] = "ensureDeleted" /\ lb' = [lb EXCEPT ![n] = NoLB]
        /\ UNCHANGED apiVars
    BY <1>14 DEF EnsureMCSLoadBalancerDeleted
  <2>2. lb'[n] = NoLB
    BY <2>1 DEF TypeOK
  <2>3. Coherent(n)' /\ NoStaleLicence(n)'
    BY <1>1, <2>1 DEF SafeAt, Coherent, NoStaleLicence, Guarded, apiVars
  <2>4. CASE Return(n)
    <3>1. OnlyAbout(n)
      BY <2>1, <2>4 DEF OnlyAbout, Return, Goto, TypeOK, apiVars
    <3> QED BY <2>2, <2>3, <2>4, <3>1, ReturnSafe, Frame
  <2>5. CASE ~Return(n)
    <3>1. pc' = [pc EXCEPT ![n] = "removeFinalizer"] /\ UNCHANGED <<mcs, fresh>>
      BY <1>14, <2>5
      DEF EnsureMCSLoadBalancerDeleted, AfterDeleted, Done, Requeue, Goto
    <3>2. OnlyAbout(n)
      BY <2>1, <3>1 DEF OnlyAbout, TypeOK, apiVars
    <3>3. pc'[n] = "removeFinalizer"
      BY <3>1 DEF TypeOK
    <3>4. AtStep(n)'
      BY <1>1, <2>1, <2>2, <3>1, <3>3 DEF SafeAt, AtStep, Guarded, apiVars
    <3>5. SafeAt(n)'
      BY <2>2, <2>3, <3>3, <3>4 DEF SafeAt
    <3> QED BY <3>2, <3>5, Frame
  <2> QED BY <2>4, <2>5
<1>15. ASSUME NEW ok \in BOOLEAN, RemoveFinalizer(n, ok)
       PROVE  \A m \in Names : SafeAt(m)'
  <2> DEFINE released == IF mcs[n].deleting /\ ~mcs[n].held THEN NotFound
                         ELSE [mcs[n] EXCEPT !.finalizer = FALSE]
  <2>1. Commit(n, released) /\ Return(n) /\ lb' = lb
    BY <1>15 DEF RemoveFinalizer, Answered, Done, Requeue
  <2>2. mcs[n] \in MCS /\ mcs[n] = store[n] /\ Unwanted(mcs[n])
    BY <1>1, <1>2, <1>15 DEF RemoveFinalizer, SafeAt, AtStep
  <2>3. lb[n] = NoLB /\ watch[n] = <<>>
    BY <1>1, <1>15 DEF RemoveFinalizer, SafeAt, AtStep
  <2>4. /\ released \in MCS \cup {NotFound}
        /\ released # NotFound => released.finalizer = FALSE
    BY <2>2, RecordTypes DEF MCS
  <2>5. ~HasFinalizer(released)
    BY <2>4 DEF HasFinalizer
  <2> HIDE DEF released
  \* The cache holds the very object: no version older than it is left.
  <2>6. ~Licence(cache[n])
    BY <1>1, <2>2, <2>3 DEF SafeAt, Coherent, Licence
  <2>7. /\ store'[n] = released /\ cache' = cache
        /\ watch'[n] = IF released = store[n] THEN <<>> ELSE <<released>>
    BY <2>1, <2>3 DEF Commit, TypeOK
  <2>8. Coherent(n)'
    BY <1>1, <2>3, <2>7 DEF SafeAt, Coherent
  <2>9. NoStaleLicence(n)'
    BY <2>5, <2>6, <2>7 DEF NoStaleLicence, Licence, HasFinalizer
  <2> QED BY <1>5, <2>1, <2>3, <2>4, <2>8, <2>9
<1> QED
  BY <1>6, <1>7, <1>8, <1>9, <1>10, <1>11, <1>12, <1>13, <1>14, <1>15
  DEF WorkStep, FaultStep

-----------------------------------------------------------------------------
LEMMA InitIInv == Init => IInv
<1> SUFFICES ASSUME Init PROVE IInv
  OBVIOUS
<1>1. TypeOK
  BY ConstantsAssumption, EmptySeq DEF Init, TypeOK, Endpoints, Steps
<1>2. ASSUME NEW n \in Names PROVE SafeAt(n)
  BY EmptySeq DEF Init, SafeAt, Coherent, NoStaleLicence, Licence, AtStep,
                  Guarded
<1> QED BY <1>1, <1>2 DEF IInv

LEMMA NextIInv == IInv /\ [Next]_vars => IInv'
<1> SUFFICES ASSUME IInv, [Next]_vars PROVE IInv'
  OBVIOUS
<1>1. TypeOK'
  BY TypeStep DEF IInv, SafeAt
<1>2. \A m \in Names : SafeAt(m)'
  <2>1. CASE UNCHANGED vars
    BY <2>1 DEF IInv, SafeAt, Coherent, NoStaleLicence, AtStep, Guarded, vars,
                apiVars, workVars
  <2>2. CASE \/ \E n \in Names : UserStep(n) \/ HandlerStep(n) \/ Relist(n)
             \/ BackendStep
             \/ Restart
    BY <2>2, EnvironmentSafe DEF IInv
  <2>3. ASSUME NEW n \in Names, WorkStep(n) \/ FaultStep(n), ~Relist(n)
        PROVE  \A m \in Names : SafeAt(m)'
    BY <2>3, WorkSafe DEF IInv
  <2> QED BY <2>1, <2>2, <2>3 DEF Next
<1> QED BY <1>1, <1>2 DEF IInv

\* Every behaviour of the controller keeps the inductive invariant: no
\* version of an MCS that is still to be read licenses a load balancer which
\* the finalizer in the API server does not guard.
THEOREM Invariance == Spec => []IInv
  BY InitIInv, NextIInv, PTL DEF Spec

\* Every value the controller keeps has its type; updateMCSStatus, in
\* particular, never makes more than RetrySteps attempts.
THEOREM TypeCorrect == Spec => []TypeOK
<1>1. IInv => TypeOK
  BY DEF IInv
<1> QED BY <1>1, Invariance, PTL

\* No load balancer outlives its MultiClusterService, nor the finalizer on it,
\* whatever the informer's lag, the failures of calls and the restarts.
THEOREM NeverOrphaned == Spec => []NoOrphanedLB
<1>1. IInv => NoOrphanedLB
  BY DEF IInv, SafeAt, NoOrphanedLB
<1> QED BY <1>1, Invariance, PTL

\* EnsureMCSLoadBalancer is called only where there is no load balancer,
\* UpdateMCSLoadBalancer only where there is one.
THEOREM CallsFit == Spec => []ProviderCallsFit
<1>1. IInv => ProviderCallsFit
  BY DEF IInv, SafeAt, ProviderCallsFit
<1> QED BY <1>1, Invariance, PTL

-----------------------------------------------------------------------------
\* A write of obj over the object n that the life of a load balancer allows:
\* no object is born with the finalizer, and the finalizer leaves only an
\* unwanted object whose load balancer is gone.
FittingWrite(n, obj) ==
  /\ store' = [store EXCEPT ![n] = obj]
  /\ lb' = lb
  /\ store[n] = NotFound => ~HasFinalizer(obj)
  /\ Guarded(n) /\ ~HasFinalizer(obj) => Unwanted(store[n]) /\ lb[n] = NoLB

\* A provider call that fits: a load balancer is made behind a finalizer.
FittingCall(n, v) ==
  /\ lb' = [lb EXCEPT ![n] = v]
  /\ store' = store
  /\ v # NoLB => Guarded(n)

\* Every step is one of these, or changes neither objects nor load balancers.
LEMMA FittingSteps ==
  ASSUME IInv, [Next]_vars
  PROVE  \/ UNCHANGED <<store, lb>>
         \/ \E n \in Names : \E obj \in MCS \cup {NotFound} : FittingWrite(n, obj)
         \/ \E n \in Names : \E v : FittingCall(n, v)
<1> USE ConstantsAssumption
<1>1. ASSUME NEW n \in Names, NEW obj \in MCS \cup {NotFound},
             FittingWrite(n, obj)
      PROVE  \E m \in Names : \E o \in MCS \cup {NotFound} : FittingWrite(m, o)
  BY <1>1
<1>2. CASE \E n \in Names : UserStep(n)
  <2>1. PICK n \in Names : UserStep(n)
    BY <1>2
  <2>2. PICK obj \in MCS \cup {NotFound} :
          UserWrites(n, obj) /\ (HasFinalizer(obj) <=> Guarded(n))
    BY <2>1, UserObjects DEF IInv
  <2>3. FittingWrite(n, obj)
    BY <2>2 DEF FittingWrite, UserWrites, Commit, Guarded
  <2> QED BY <2>3
<1>3. CASE \/ UNCHANGED vars \/ BackendStep \/ Restart
           \/ \E n \in Names :
                \/ HandlerStep(n) \/ Relist(n) \/ Reconcile(n)
                \/ UpdateRejected(n) \/ CallFails(n) \/ GetMCSLoadBalancer(n)
                \/ RetryStatus(n) \/ GetForDelete(n)
  <2>1. UNCHANGED <<store, lb>>
    BY <1>3, Zenon
    DEF vars, apiVars, BackendStep, ServiceEvent, EndpointSliceEvent, Restart,
        HandlerStep, Deliver, Observe, ServiceGeneric, MCSGeneric, Relist,
        Reconcile, UpdateRejected, CallFails, GetMCSLoadBalancer, RetryStatus,
        GetForDelete
  <2> QED BY <2>1
<1>4. ASSUME NEW n \in Names, NEW ok \in BOOLEAN,
             \/ AddFinalizer(n, ok) \/ UpdateStatus(n, ok)
             \/ RemoveFinalizer(n, ok)
      PROVE  \E m \in Names : \E o \in MCS \cup {NotFound} : FittingWrite(m, o)
  <2>1. /\ mcs[n] \in MCS /\ mcs[n] = store[n] /\ store[n] # NotFound
        /\ lb' = lb
    BY <1>4 DEF AddFinalizer, UpdateStatus, RemoveFinalizer, IInv, TypeOK,
                SafeAt, AtStep
  <2>2. CASE AddFinalizer(n, ok)
    <3> DEFINE obj == [mcs[n] EXCEPT !.finalizer = TRUE]
    <3>1. obj \in MCS /\ obj.finalizer /\ store' = [store EXCEPT ![n] = obj]
      BY <2>1, <2>2, RecordTypes DEF AddFinalizer, Commit, MCS
    <3> HIDE DEF obj
    <3>2. FittingWrite(n, obj)
      BY <2>1, <3>1 DEF FittingWrite, HasFinalizer
    <3> QED BY <1>1, <3>1, <3>2
  <2>3. CASE UpdateStatus(n, ok)
    <3> DEFINE obj == [mcs[n] EXCEPT !.status = newStatus[n]]
    <3>1. /\ obj \in MCS /\ obj.finalizer = store[n].finalizer
          /\ store' = [store EXCEPT ![n] = obj]
      <4>1. newStatus[n] \in Statuses
        BY DEF IInv, TypeOK
      <4>2. obj \in MCS
        BY <2>1, <4>1, RecordTypes
      <4>3. obj.finalizer = store[n].finalizer
        BY <2>1 DEF MCS
      <4>4. store' = [store EXCEPT ![n] = obj]
        BY <2>3 DEF UpdateStatus, Commit
      <4> QED BY <4>2, <4>3, <4>4
    <3> HIDE DEF obj
    <3>2. FittingWrite(n, obj)
      BY <2>1, <3>1 DEF FittingWrite, HasFinalizer, Guarded
    <3> QED BY <1>1, <3>1, <3>2
  <2>4. CASE RemoveFinalizer(n, ok)
    <3> DEFINE obj == IF mcs[n].deleting /\ ~mcs[n].held THEN NotFound
                      ELSE [mcs[n] EXCEPT !.finalizer = FALSE]
    <3>1. obj \in MCS \cup {NotFound} /\ store' = [store EXCEPT ![n] = obj]
      BY <2>1, <2>4, RecordTypes DEF RemoveFinalizer, Commit
    <3>2. Unwanted(store[n]) /\ lb[n] = NoLB
      BY <2>1, <2>4 DEF RemoveFinalizer, IInv, SafeAt, AtStep
    <3> HIDE DEF obj
    <3>3. FittingWrite(n, obj)
      BY <2>1, <3>1, <3>2 DEF FittingWrite
    <3> QED BY <1>1, <3>1, <3>3
  <2> QED BY <1>4, <2>2, <2>3, <2>4
<1>5. ASSUME NEW n \in Names, NEW ok \in BOOLEAN,
             \/ handleMCSCreate(n, ok) \/ handleMCSUpdate(n, ok)
             \/ EnsureMCSLoadBalancerDeleted(n, ok)
      PROVE  \E m \in Names : \E v : FittingCall(m, v)
  <2>1. CASE EnsureMCSLoadBalancerDeleted(n, ok)
    <3>1. FittingCall(n, NoLB)
      BY <2>1 DEF EnsureMCSLoadBalancerDeleted, FittingCall, apiVars
    <3> QED BY <3>1
  <2>2. CASE handleMCSCreate(n, ok) \/ handleMCSUpdate(n, ok)
    <3>1. PICK status :
            /\ lb' = [lb EXCEPT ![n] = Programmed(n, status)]
            /\ store' = store /\ pc[n] \in {"ensure", "update"}
      BY <2>2 DEF handleMCSCreate, handleMCSUpdate, CallProvider, apiVars
    <3>2. FittingCall(n, Programmed(n, status))
      BY <3>1 DEF FittingCall, IInv, SafeAt, AtStep
    <3> QED BY <3>2
  <2> QED BY <1>5, <2>1, <2>2
<1> QED
  BY <1>2, <1>3, <1>4, <1>5 DEF Next, WorkStep, FaultStep

\* The finalizer leaves only an MCS that is being deleted or has lost the
\* LoadBalancer type in the API server, not just in the controller's copy.
THEOREM FinalizerDiscipline == Spec => FinalizerLeavesUnwanted
<1>1. ASSUME IInv, [Next]_vars
      PROVE  [\A n \in Names :
                Guarded(n) /\ ~Guarded(n)' => Unwanted(store[n])]_vars
  <2> SUFFICES ASSUME NEW n \in Names, Guarded(n), ~Guarded(n)'
               PROVE  Unwanted(store[n])
    OBVIOUS
  <2>1. store'[n] # store[n]
    BY DEF Guarded
  <2>2. PICK m \in Names, obj \in MCS \cup {NotFound} : FittingWrite(m, obj)
    BY <1>1, <2>1, FittingSteps DEF FittingCall
  <2>3. m = n /\ store'[n] = obj
    BY <1>1, <2>1, <2>2 DEF FittingWrite, IInv, TypeOK
  <2> QED BY <2>2, <2>3 DEF FittingWrite, Guarded, HasFinalizer
<1> QED
  BY <1>1, Invariance, PTL DEF Spec, FinalizerLeavesUnwanted

\* MCSController implements LBLifecycle, for every set of objects.
THEOREM Refinement == Spec => ImplementsLifecycle
<1>1. Init => Lifecycle!Init
  BY DEF Init, Lifecycle!Init, phase
<1>2. ASSUME IInv, [Next]_vars PROVE [Lifecycle!Next]_phase
  <2>1. CASE UNCHANGED <<store, lb>>
    BY <2>1 DEF phase, Guarded
  <2> DEFINE now(m) ==
        IF lb[m] # NoLB
        THEN IF Guarded(m) THEN "provisioned" ELSE "leaked"
        ELSE IF store[m] = NotFound THEN "absent"
        ELSE IF Guarded(m) THEN "guarded" ELSE "bare"
  <2>2. /\ phase = [m \in Names |-> now(m)]
        /\ phase' = [m \in Names |-> now(m)']
    BY DEF phase
  <2>3. \A m \in Names : lb[m] # NoLB => Guarded(m)
    BY <1>2 DEF IInv, SafeAt
  <2>4. ASSUME NEW n \in Names, \A m \in Names \ {n} : now(m)' = now(m),
               \/ now(n) = now(n)'
               \/ now(n) = "absent" /\ now(n)' = "bare"
               \/ now(n) = "bare" /\ now(n)' \in {"absent", "guarded"}
               \/ now(n) = "guarded" /\ now(n)' \in {"provisioned", "bare", "absent"}
               \/ now(n) = "provisioned" /\ now(n)' = "guarded"
        PROVE  [Lifecycle!Next]_phase
    <3> HIDE DEF now
    <3>1. phase[n] = now(n) /\ phase' = [phase EXCEPT ![n] = now(n)']
      BY <2>2, <2>4
    <3>2. CASE now(n) = now(n)'
      BY <2>2, <3>1, <3>2
    <3>3. CASE now(n) # now(n)'
      BY <2>4, <3>1, <3>3
      DEF Lifecycle!Next, Lifecycle!Appear, Lifecycle!Vanish, Lifecycle!Guard,
          Lifecycle!Provision, Lifecycle!Deprovision, Lifecycle!Release,
          Lifecycle!Move
    <3> QED BY <3>2, <3>3
  <2>5. ASSUME NEW n \in Names, NEW obj \in MCS \cup {NotFound},
               FittingWrite(n, obj)
        PROVE  [Lifecycle!Next]_phase
    <3>1. /\ store'[n] = obj /\ lb' = lb
          /\ \A m \in Names \ {n} : store'[m] = store[m]
      BY <1>2, <2>5 DEF FittingWrite, IInv, TypeOK
    <3>2. \A m \in Names \ {n} : now(m)' = now(m)
      BY <3>1 DEF Guarded
    <3>3. Guarded(n)' <=> HasFinalizer(obj)
      BY <3>1 DEF Guarded, HasFinalizer
    <3> QED
      BY <2>3, <2>4, <2>5, <3>1, <3>2, <3>3
      DEF FittingWrite, Guarded, HasFinalizer
  <2>6. ASSUME NEW n \in Names, NEW v, FittingCall(n, v)
        PROVE  [Lifecycle!Next]_phase
    <3>1. /\ lb'[n] = v /\ store' = store
          /\ \A m \in Names \ {n} : lb'[m] = lb[m]
      BY <1>2, <2>6 DEF FittingCall, IInv, TypeOK
    <3>2. \A m \in Names : Guarded(m)' <=> Guarded(m)
      BY <3>1 DEF Guarded
    <3>3. \A m \in Names \ {n} : now(m)' = now(m)
      BY <3>1, <3>2
    <3> QED
      BY <2>3, <2>4, <2>6, <3>1, <3>2, <3>3 DEF FittingCall, Guarded
  <2> QED BY <1>2, <2>1, <2>5, <2>6, FittingSteps
<1> QED
  BY <1>1, <1>2, Invariance, PTL DEF Spec, ImplementsLifecycle, Lifecycle!Spec
=============================================================================
