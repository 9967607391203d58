---------------------------- MODULE MCIStatusProofs ----------------------------
(***************************************************************************)
(* The MCI controller and the service locations controller together        *)
(* implement each of the two modules they are modelled in alone, for every *)
(* set of MCIs, backends and bindings and every lag of the informer: each  *)
(* step of one is a step that the other's module allows the outside.       *)
(***************************************************************************)
EXTENDS MCIStatus, MCIControllerProofs, Channels

LP == INSTANCE MCIServiceLocationsProofs
        WITH Rules <- ServiceRefs, MaxLag <- Slack, queue <- locQueue,
             pc <- locPc, key <- locKey, mci <- locMCI, fresh <- locFresh,
             tries <- locTries

\* The users of the composition set no finalizers of their own: MCIs with such
\* are the matter of MCIController alone.
NotHeld(m) == m # NotFound => ~m.held

\* So many events of n may wait after a write of obj: others stop at MaxLag,
\* and the patch that sets the finalizer adds one.
Room(obj) == IF HasFinalizer(obj) THEN MaxLag + 1 ELSE MaxLag

\* The copies of n that the MCI controller has; what it still writes with one
\* that has the live version finds few events waiting.
CopiesOK(n) ==
  /\ NotHeld(mci[n]) /\ NotHeld(retried[n])
  /\ fresh[n] => IF pc[n] \in {"getLB", "ensure", "update", "status"}
                 THEN Len(watch[n]) <= 1
                 ELSE watch[n] = <<>>
  /\ retriedFresh[n] => watch[n] = <<>>

ChannelOK(n) ==
  /\ NotHeld(store[n]) /\ NotHeld(cache[n])
  /\ \A i \in 1 .. Len(watch[n]) : NotHeld(watch[n][i])
  /\ Len(watch[n]) <= Room(store[n])

LocCopyOK(n) == (locFresh /\ locKey = n) => watch[n] = <<>>

BothInv == /\ IInv
           /\ LP!CacheOK
           /\ \A n \in Names : CopiesOK(n) /\ ChannelOK(n) /\ LocCopyOK(n)

\* What each write of users and of the MCI controller keeps
OrderlyWrite(n, obj) ==
  /\ Commit(n, obj)
  /\ NotHeld(obj)
  /\ obj # NotFound =>
       obj.locations = IF store[n] = NotFound THEN Loc!Nowhere
                                              ELSE store[n].locations
  /\ obj = store[n] \/ Len(watch[n]) < Room(obj)

OrderlyStep(n) ==
  /\ OnlyAbout(n)
  /\ \/ UNCHANGED apiVars
     \/ \E obj \in MCI \cup {NotFound} : OrderlyWrite(n, obj)
  /\ CopiesOK(n)'
-----------------------------------------------------------------------------
\* An event fits behind at least one that others leave waiting.
LEMMA MaxLagPositive == MaxLag \in Nat /\ MaxLag >= 1
  BY ConstantsAssumption

\* What the invariant says of n alone
LEMMA BothInvAt ==
  ASSUME BothInv, NEW n \in Names
  PROVE  /\ TypeOK /\ AtStep(n) /\ CopiesOK(n) /\ ChannelOK(n)
         /\ watch[n] \in Seq(MCI \cup {NotFound}) /\ Len(watch[n]) \in Nat
         /\ store[n] \in MCI \cup {NotFound} /\ cache[n] \in MCI \cup {NotFound}
         /\ store[n] # NotFound => store[n] \in MCI
<1>1. TypeOK /\ AtStep(n) /\ CopiesOK(n) /\ ChannelOK(n)
  BY DEF BothInv, IInv, SafeAt
<1>2. /\ watch[n] \in Seq(MCI \cup {NotFound})
      /\ store[n] \in MCI \cup {NotFound} /\ cache[n] \in MCI \cup {NotFound}
  BY <1>1 DEF TypeOK
<1> QED BY <1>1, <1>2, LenProperties

\* A write of others
LEMMA UserOrderly ==
  ASSUME BothInv, NEW n \in Names, CreateMCI(n) \/ EditMCI(n) \/ DeleteMCI(n)
  PROVE  OrderlyStep(n)
<1>1. /\ watch[n] \in Seq(MCI \cup {NotFound}) /\ Len(watch[n]) \in Nat
      /\ store[n] # NotFound => store[n] \in MCI
      /\ TypeOK /\ CopiesOK(n) /\ NotHeld(store[n])
  BY BothInvAt DEF ChannelOK
<1>2. ASSUME NEW obj \in MCI \cup {NotFound}, OthersWrite(n, obj), NotHeld(obj),
             obj # NotFound =>
               obj.locations = IF store[n] = NotFound THEN Loc!Nowhere
                                                      ELSE store[n].locations
      PROVE  OrderlyStep(n)
  <2>1. /\ Len(watch[n]) < MaxLag /\ Commit(n, obj) /\ Outdate(n)
        /\ UNCHANGED <<pc, mci, retried, newBlock, lb>>
    BY <1>2 DEF OthersWrite
  <2>2. Len(watch[n]) < Room(obj)
    BY <1>1, <2>1, MaxLagPositive DEF Room
  <2>3. OrderlyWrite(n, obj)
    BY <1>2, <2>1, <2>2 DEF OrderlyWrite
  <2>4. OnlyAbout(n)
    BY <1>1, <2>1 DEF OnlyAbout, Commit, Outdate, TypeOK
  <2>5. CopiesOK(n)'
    BY <1>1, <2>1 DEF CopiesOK, Outdate, TypeOK
  <2> QED BY <1>2, <2>3, <2>4, <2>5 DEF OrderlyStep
<1>3. CASE CreateMCI(n)
  <2> DEFINE new(k, c) ==
        [class |-> k, cfg |-> c, deleting |-> FALSE, finalizer |-> FALSE,
         held |-> FALSE, locations |-> [s \in {} |-> {}], block |-> {},
         status |-> EmptyStatus]
  <2>1. PICK k \in MCIClasses, c \in Cfgs : OthersWrite(n, new(k, c))
    BY <1>3 DEF CreateMCI
  <2>2. [s \in {} |-> {}] \in Locations
    <3>1. [s \in {} |-> {}] \in [{} -> SUBSET Clusters]
      OBVIOUS
    <3>2. {} \in SUBSET Services
      OBVIOUS
    <3> QED BY <3>1, <3>2 DEF Locations
  <2>3. new(k, c) \in MCI
    BY <2>2, ConstantsAssumption DEF MCI
  <2>4. ~new(k, c).held /\ new(k, c).locations = Loc!Nowhere
    BY DEF Loc!Nowhere
  <2>5. store[n] = NotFound
    BY <1>3 DEF CreateMCI
  <2> HIDE DEF new
  <2> QED BY <1>2, <2>1, <2>3, <2>4, <2>5 DEF NotHeld
<1>4. CASE EditMCI(n)
  <2>1. PICK k \in MCIClasses, c \in Cfgs :
          OthersWrite(n, [store[n] EXCEPT !.class = k, !.cfg = c])
    BY <1>4 DEF EditMCI
  <2> DEFINE obj == [store[n] EXCEPT !.class = k, !.cfg = c]
  <2>2. store[n] \in MCI /\ store[n] # NotFound
    BY <1>1, <1>4 DEF EditMCI
  <2>3. obj \in MCI
    BY <2>2, RecordTypes
  <2>4. obj.held = store[n].held /\ obj.locations = store[n].locations
    BY <2>2 DEF MCI
  <2> HIDE DEF obj
  <2>5. OthersWrite(n, obj)
    BY <2>1 DEF obj
  <2> QED BY <1>1, <1>2, <2>2, <2>3, <2>4, <2>5 DEF NotHeld
<1>5. CASE DeleteMCI(n)
  <2> DEFINE obj == IF store[n].finalizer \/ store[n].held
                    THEN [store[n] EXCEPT !.deleting = TRUE] ELSE NotFound
  <2>1. OthersWrite(n, obj)
    BY <1>5 DEF DeleteMCI
  <2>2. store[n] \in MCI /\ store[n] # NotFound
    BY <1>1, <1>5 DEF DeleteMCI
  <2>3. CASE store[n].finalizer \/ store[n].held
    <3>1. obj = [store[n] EXCEPT !.deleting = TRUE]
      BY <2>3
    <3> HIDE DEF obj
    <3>2. obj \in MCI
      BY <2>2, <3>1, RecordTypes
    <3>3. obj.held = store[n].held /\ obj.locations = store[n].locations
      BY <2>2, <3>1 DEF MCI
    <3> QED BY <1>1, <1>2, <2>1, <2>2, <3>2, <3>3 DEF NotHeld
  <2>4. CASE ~(store[n].finalizer \/ store[n].held)
    <3>1. obj = NotFound
      BY <2>4
    <3> HIDE DEF obj
    <3> QED BY <1>2, <2>1, <3>1 DEF NotHeld
  <2> QED BY <2>3, <2>4
<1> QED BY <1>3, <1>4, <1>5

\* Nothing is left of the copies when Reconcile returns.
LEMMA ReturnedCopies ==
  ASSUME BothInv, NEW n \in Names, Return(n)
  PROVE  /\ CopiesOK(n)'
         /\ \A m \in Names \ {n} :
              /\ pc'[m] = pc[m] /\ mci'[m] = mci[m] /\ fresh'[m] = fresh[m]
              /\ retried'[m] = retried[m] /\ retriedFresh'[m] = retriedFresh[m]
              /\ newBlock'[m] = newBlock[m]
<1>1. TypeOK
  BY BothInvAt
<1> QED BY <1>1 DEF Return, EndRetry, Goto, TypeOK, CopiesOK, NotHeld

\* A reconcile of n that ends, with or without a write
LEMMA OrderlyReturn ==
  ASSUME BothInv, NEW n \in Names, Return(n),
         \/ UNCHANGED apiVars
         \/ \E obj \in MCI \cup {NotFound} : OrderlyWrite(n, obj),
         \A m \in Names \ {n} : lb'[m] = lb[m]
  PROVE  OrderlyStep(n)
<1>1. \A m \in Names \ {n} :
        store'[m] = store[m] /\ watch'[m] = watch[m] /\ cache'[m] = cache[m]
  <2>1. TypeOK
    BY BothInvAt
  <2> QED BY <2>1 DEF apiVars, OrderlyWrite, Commit, TypeOK
<1> QED BY <1>1, ReturnedCopies DEF OrderlyStep, OnlyAbout

\* The calls of the reconciler that do not reach the API server
LEMMA ReadOrderly ==
  ASSUME BothInv, NEW n \in Names,
         \/ CallFails(n) \/ PatchRejected(n) \/ UpdateRejected(n)
         \/ Reconcile(n) \/ ListClusters(n) \/ RetryBlock(n)
         \/ GetLoadBalancer(n) \/ RetryStatus(n)
         \/ \E ok \in BOOLEAN : \/ handleMCICreate(n, ok) \/ handleMCIUpdate(n, ok)
                               \/ EnsureLoadBalancerDeleted(n, ok)
  PROVE  OrderlyStep(n)
<1>1. /\ TypeOK /\ AtStep(n) /\ CopiesOK(n) /\ NotHeld(cache[n])
      /\ watch[n] \in Seq(MCI \cup {NotFound}) /\ Len(watch[n]) \in Nat
      /\ store[n] \in MCI \cup {NotFound} /\ cache[n] \in MCI \cup {NotFound}
  BY BothInvAt DEF ChannelOK
<1>2. UNCHANGED apiVars
  BY DEF CallFails, PatchRejected, UpdateRejected, Reconcile, ListClusters,
         RetryBlock, GetLoadBalancer, RetryStatus, handleMCICreate,
         handleMCIUpdate, CallProvider, EnsureLoadBalancerDeleted
<1>3. \A m \in Names \ {n} : lb'[m] = lb[m]
  BY <1>1 DEF CallFails, PatchRejected, UpdateRejected, Reconcile, ListClusters,
         RetryBlock, GetLoadBalancer, RetryStatus, handleMCICreate,
         handleMCIUpdate, CallProvider, EnsureLoadBalancerDeleted, TypeOK
<1>4. ASSUME Return(n) PROVE OrderlyStep(n)
  BY <1>2, <1>3, <1>4, OrderlyReturn
\* Other MCIs are left alone: a reconciler that goes on
<1>5. ASSUME \A m \in Names \ {n} :
               /\ pc'[m] = pc[m] /\ mci'[m] = mci[m] /\ fresh'[m] = fresh[m]
               /\ retried'[m] = retried[m] /\ retriedFresh'[m] = retriedFresh[m]
               /\ newBlock'[m] = newBlock[m],
             CopiesOK(n)'
      PROVE  OrderlyStep(n)
  BY <1>2, <1>3, <1>5 DEF OrderlyStep, OnlyAbout, apiVars
<1>6. CASE CallFails(n) \/ PatchRejected(n) \/ UpdateRejected(n)
  BY <1>4, <1>6 DEF CallFails, PatchRejected, UpdateRejected, Requeue
<1>7. CASE Reconcile(n)
  <2>1. CASE cache[n] = NotFound
    <3>1. UNCHANGED <<pc, mci, fresh, retried, retriedFresh, newBlock>>
      BY <1>7, <2>1 DEF Reconcile, retryVars
    <3>2. CopiesOK(n)'
      BY <1>1, <1>2, <3>1 DEF CopiesOK, apiVars
    <3> QED BY <1>5, <3>1, <3>2
  <2>2. CASE cache[n] # NotFound
    <3>1. /\ \E step \in Steps : pc' = [pc EXCEPT ![n] = step]
          /\ mci' = [mci EXCEPT ![n] = cache[n]]
          /\ UNCHANGED <<retried, retriedFresh, newBlock>>
      BY <1>7, <2>2
      DEF Reconcile, Goto, retryVars, handleMCIDelete, handleMCICreateOrUpdate,
          Steps
    <3>2. fresh' = [fresh EXCEPT ![n] = (watch[n] = <<>>)]
      BY <1>7, <2>2, Zenon DEF Reconcile
    <3>3. pc'[n] \notin {"getLB", "ensure", "update", "status"}
      BY <1>1, <1>7, <2>2
      DEF Reconcile, Goto, handleMCIDelete, handleMCICreateOrUpdate, TypeOK
    <3>4. fresh'[n] => watch[n] = <<>>
      BY <1>1, <3>2, Zenon DEF TypeOK
    <3>5. \A m \in Names \ {n} : fresh'[m] = fresh[m]
      BY <1>1, <3>2 DEF TypeOK
    <3>6. \A m \in Names \ {n} : pc'[m] = pc[m] /\ mci'[m] = mci[m]
      BY <1>1, <3>1 DEF TypeOK
    <3>7. mci'[n] = cache[n]
      BY <1>1, <3>1 DEF TypeOK
    <3>8. CopiesOK(n)'
      BY <1>1, <1>2, <3>1, <3>3, <3>4, <3>7 DEF CopiesOK, apiVars
    <3> QED BY <1>5, <3>1, <3>5, <3>6, <3>8
  <2> QED BY <2>1, <2>2
<1>8. CASE ListClusters(n)
  <2> DEFINE block == Located(mci[n].locations) \cap Blocked
  <2>1. /\ \E step \in {"getLB", "block"} : pc' = [pc EXCEPT ![n] = step]
        /\ mci' = [mci EXCEPT ![n] = [mci[n] EXCEPT !.block = block]]
        /\ newBlock' = newBlock \/ newBlock' = [newBlock EXCEPT ![n] = block]
        /\ pc[n] = "listClusters"
        /\ UNCHANGED <<fresh, retried, retriedFresh>>
    BY <1>8 DEF ListClusters, Goto
  <2> HIDE DEF block
  <2>2. mci[n] \in MCI
    BY <1>1, <2>1 DEF TypeOK, AtStep
  <2>3. [mci[n] EXCEPT !.block = block].held = mci[n].held
    BY <2>2 DEF MCI
  <2>4. NotHeld([mci[n] EXCEPT !.block = block])
    <3>1. mci[n] # NotFound
      BY <2>2, ConstantsAssumption
    <3> QED BY <1>1, <2>3, <3>1 DEF NotHeld, CopiesOK
  <2>5. /\ NotHeld(mci'[n])
        /\ \A m \in Names \ {n} :
             pc'[m] = pc[m] /\ mci'[m] = mci[m] /\ newBlock'[m] = newBlock[m]
    BY <1>1, <2>1, <2>4 DEF TypeOK
  <2>6. fresh[n] => watch[n] = <<>>
    BY <1>1, <2>1 DEF CopiesOK
  <2>7. CopiesOK(n)'
    BY <1>1, <1>2, <2>1, <2>5, <2>6, EmptyLength DEF CopiesOK, apiVars
  <2> QED BY <1>5, <2>1, <2>5, <2>7
<1>9. CASE RetryBlock(n)
  <2>1. CASE Requeue(n)
    BY <1>4, <2>1 DEF Requeue
  <2>2. pc[n] = "block"
    BY <1>9 DEF RetryBlock
  <2>3. CASE Goto(n, "getLB") /\ EndRetry(n) /\ UNCHANGED <<mci, fresh, queue>>
    <3>1. /\ \A m \in Names \ {n} :
               /\ pc'[m] = pc[m] /\ retried'[m] = retried[m]
               /\ retriedFresh'[m] = retriedFresh[m]
               /\ newBlock'[m] = newBlock[m]
          /\ retried'[n] = NotFound /\ ~retriedFresh'[n]
      BY <1>1, <2>3 DEF Goto, EndRetry, TypeOK
    <3>2. fresh[n] => watch[n] = <<>>
      BY <1>1, <2>2 DEF CopiesOK
    <3>3. CopiesOK(n)'
      BY <1>1, <1>2, <2>3, <3>1, <3>2, EmptyLength DEF CopiesOK, apiVars, NotHeld
    <3> QED BY <1>5, <2>3, <3>1, <3>3
  <2>4. CASE /\ retried' = [retried EXCEPT ![n] = cache[n]]
             /\ retriedFresh' = [retriedFresh EXCEPT ![n] = watch[n] = <<>>]
             /\ UNCHANGED <<pc, mci, fresh, newBlock, newStatus, queue>>
    <3>1. /\ retried'[n] = cache[n]
          /\ \A m \in Names \ {n} : retried'[m] = retried[m]
      BY <1>1, <2>4 DEF TypeOK
    <3>2. retriedFresh'[n] => watch[n] = <<>>
      BY <1>1, <2>4, Zenon DEF TypeOK
    <3>3. \A m \in Names \ {n} : retriedFresh'[m] = retriedFresh[m]
      <4>1. retriedFresh' = [retriedFresh EXCEPT ![n] = (watch[n] = <<>>)]
        BY <2>4, Zenon
      <4> QED BY <1>1, <4>1 DEF TypeOK
    <3>4. CopiesOK(n)'
      BY <1>1, <1>2, <2>4, <3>1, <3>2 DEF CopiesOK, apiVars
    <3> QED BY <1>5, <2>4, <3>1, <3>3, <3>4
  <2> QED BY <1>9, <2>1, <2>3, <2>4, Zenon DEF RetryBlock
<1>10. CASE GetLoadBalancer(n)
  <2>1. /\ pc[n] = "getLB"
        /\ \E step \in {"ensure", "update"} : pc' = [pc EXCEPT ![n] = step]
        /\ UNCHANGED <<mci, fresh, retried, retriedFresh, newBlock>>
    BY <1>10 DEF GetLoadBalancer, CreateOrUpdateStep, Goto, retryVars
  <2>2. /\ \A m \in Names \ {n} : pc'[m] = pc[m]
        /\ pc'[n] \in {"ensure", "update"}
    BY <1>1, <2>1 DEF TypeOK
  <2>3. CopiesOK(n)'
    BY <1>1, <1>2, <2>1, <2>2 DEF CopiesOK, apiVars
  <2> QED BY <1>5, <2>1, <2>2, <2>3
<1>11. CASE RetryStatus(n)
  <2>1. CASE Requeue(n)
    BY <1>4, <2>1 DEF Requeue
  <2>2. CASE ~Requeue(n)
    <3>1. /\ pc[n] = "status"
          /\ mci' = IF cache[n] = NotFound THEN mci
                    ELSE [mci EXCEPT ![n] = cache[n]]
          /\ UNCHANGED <<pc, retried, retriedFresh, newBlock>>
      BY <1>11, <2>2 DEF RetryStatus
    <3>2. fresh' = [fresh EXCEPT
                      ![n] = (cache[n] # NotFound /\ watch[n] = <<>>)]
      BY <1>11, <2>2, Zenon DEF RetryStatus
    <3>3. fresh'[n] => watch[n] = <<>>
      BY <1>1, <3>2, Zenon DEF TypeOK
    <3>4. \A m \in Names \ {n} : fresh'[m] = fresh[m]
      BY <1>1, <3>2 DEF TypeOK
    <3>5. /\ \A m \in Names \ {n} : mci'[m] = mci[m]
          /\ mci'[n] \in {mci[n], cache[n]}
      BY <1>1, <3>1 DEF TypeOK
    <3>6. CopiesOK(n)'
      BY <1>1, <1>2, <3>1, <3>3, <3>5, EmptyLength DEF CopiesOK, apiVars
    <3> QED BY <1>5, <3>1, <3>4, <3>5, <3>6
  <2> QED BY <2>1, <2>2
<1>12. ASSUME NEW ok \in BOOLEAN, NEW step \in {"ensure", "update"},
              CallProvider(n, step, ok)
       PROVE  OrderlyStep(n)
  <2>1. CASE Return(n)
    BY <1>4, <2>1
  <2>2. CASE ~Return(n)
    <3>1. /\ pc[n] = step /\ pc' = [pc EXCEPT ![n] = "status"]
          /\ UNCHANGED <<mci, fresh, retried, retriedFresh, newBlock>>
      BY <1>12, <2>2 DEF CallProvider, updateMCIStatus, Goto, Requeue, Done
    <3>2. pc'[n] = "status" /\ \A m \in Names \ {n} : pc'[m] = pc[m]
      BY <1>1, <3>1 DEF TypeOK
    <3>3. CopiesOK(n)'
      BY <1>1, <1>2, <3>1, <3>2 DEF CopiesOK, apiVars
    <3> QED BY <1>5, <3>1, <3>2, <3>3
  <2> QED BY <2>1, <2>2
<1>13. ASSUME NEW ok \in BOOLEAN, EnsureLoadBalancerDeleted(n, ok)
       PROVE  OrderlyStep(n)
  <2>1. CASE Return(n)
    BY <1>4, <2>1
  <2>2. CASE ~Return(n)
    <3>1. /\ pc[n] = "ensureDeleted" /\ pc' = [pc EXCEPT ![n] = "removeFinalizer"]
          /\ UNCHANGED <<mci, fresh, retried, retriedFresh, newBlock>>
      BY <1>13, <2>2
      DEF EnsureLoadBalancerDeleted, Goto, Requeue, Done, retryVars
    <3>2. pc'[n] = "removeFinalizer" /\ \A m \in Names \ {n} : pc'[m] = pc[m]
      BY <1>1, <3>1 DEF TypeOK
    <3>3. CopiesOK(n)'
      BY <1>1, <1>2, <3>1, <3>2 DEF CopiesOK, apiVars
    <3> QED BY <1>5, <3>1, <3>2, <3>3
  <2> QED BY <2>1, <2>2
<1> QED
  BY <1>6, <1>7, <1>8, <1>9, <1>10, <1>11, <1>12, <1>13
  DEF handleMCICreate, handleMCIUpdate

\* The four writes of the MCI controller: the patch needs no live copy and
\* makes room for the event that it adds.
LEMMA AddFinalizerOrderly ==
  ASSUME BothInv, NEW n \in Names, NEW ok \in BOOLEAN, AddFinalizer(n, ok)
  PROVE  OrderlyStep(n)
<1>1. /\ TypeOK /\ AtStep(n) /\ CopiesOK(n) /\ ChannelOK(n)
      /\ Len(watch[n]) \in Nat
      /\ store[n] # NotFound => store[n] \in MCI
  BY BothInvAt
<1> DEFINE obj == [store[n] EXCEPT !.finalizer = TRUE, !.held = mci[n].held]
<1>2. /\ Commit(n, obj) /\ lb' = lb /\ pc[n] = "addFinalizer"
      /\ store[n] # NotFound
  BY DEF AddFinalizer, PatchAllowed
<1>3. store[n] \in MCI /\ mci[n] \in MCI /\ mci[n] # NotFound
  BY <1>1, <1>2 DEF AtStep, TypeOK
<1>4. mci[n].held = FALSE /\ store[n].held = FALSE
  BY <1>1, <1>2, <1>3 DEF MCI, CopiesOK, ChannelOK, NotHeld
<1>5. obj \in MCI
  BY <1>3, <1>4, RecordTypes
<1>6. /\ obj.held = FALSE /\ obj.locations = store[n].locations
      /\ obj.finalizer = TRUE
  BY <1>3, <1>4 DEF MCI
<1>7. store[n].finalizer = TRUE => obj = store[n]
  BY <1>3, <1>4 DEF MCI
<1> HIDE DEF obj
<1>8. obj # NotFound
  BY <1>5, ConstantsAssumption
<1>9. obj = store[n] \/ Len(watch[n]) < Room(obj)
  <2>1. CASE store[n].finalizer = TRUE
    BY <1>7, <2>1
  <2>2. CASE store[n].finalizer # TRUE
    <3>1. Room(store[n]) = MaxLag
      BY <1>3, <2>2 DEF Room, HasFinalizer, MCI
    <3>2. Room(obj) = MaxLag + 1
      BY <1>6, <1>8 DEF Room, HasFinalizer
    <3> QED BY <1>1, <3>1, <3>2, MaxLagPositive DEF ChannelOK
  <2> QED BY <2>1, <2>2
<1>10. OrderlyWrite(n, obj)
  BY <1>2, <1>6, <1>8, <1>9 DEF OrderlyWrite, NotHeld
<1>11. CASE ok
  <2>1. /\ pc' = [pc EXCEPT ![n] = "listClusters"]
        /\ fresh' = [fresh EXCEPT ![n] = FALSE]
        /\ UNCHANGED <<mci, retried, retriedFresh, newBlock>>
    BY <1>11 DEF AddFinalizer, Goto, retryVars
  <2>2. OnlyAbout(n)
    BY <1>1, <1>2, <2>1 DEF OnlyAbout, Commit, TypeOK
  <2>3. ~fresh'[n] /\ ~retriedFresh'[n]
    BY <1>1, <1>2, <2>1 DEF AtStep, TypeOK
  <2>4. CopiesOK(n)'
    BY <1>1, <2>1, <2>3 DEF CopiesOK
  <2> QED BY <1>5, <1>10, <2>2, <2>4 DEF OrderlyStep
<1>12. CASE ~ok
  <2>1. Return(n)
    BY <1>12 DEF AddFinalizer, Requeue
  <2> QED BY <1>2, <1>5, <1>10, <2>1, OrderlyReturn
<1> QED BY <1>11, <1>12

\* An accepted attempt at the list of blocked clusters: from a copy that has
\* the live version.
LEMMA UpdateBlockOrderly ==
  ASSUME BothInv, NEW n \in Names, NEW ok \in BOOLEAN, UpdateBlock(n, ok)
  PROVE  OrderlyStep(n)
<1>1. /\ TypeOK /\ AtStep(n) /\ CopiesOK(n) /\ ChannelOK(n)
      /\ store[n] # NotFound => store[n] \in MCI
  BY BothInvAt
<1> DEFINE obj == [AttemptCopy(n) EXCEPT !.block = newBlock[n]]
<1>2. Commit(n, obj) /\ lb' = lb /\ pc[n] = "block" /\ AttemptFresh(n)
  BY DEF UpdateBlock
<1>3. /\ AttemptCopy(n) \in MCI /\ store[n] \in MCI
      /\ AttemptCopy(n).held = store[n].held
  BY <1>1, <1>2, AttemptedCopy
<1>4. AttemptCopy(n).locations = store[n].locations /\ watch[n] = <<>>
  <2>1. CASE retried[n] = NotFound
    <3>1. /\ AttemptCopy(n) = mci[n]
          /\ mci[n] = [store[n] EXCEPT !.block = mci[n].block]
          /\ watch[n] = <<>>
      BY <1>1, <1>2, <2>1 DEF AttemptFresh, AttemptCopy, AtStep, CopiesOK
    <3> QED BY <1>3, <3>1 DEF MCI
  <2>2. CASE retried[n] # NotFound
    BY <1>1, <1>2, <2>2 DEF AttemptFresh, AttemptCopy, AtStep, CopiesOK
  <2> QED BY <2>1, <2>2
<1>5. obj \in MCI
  <2>1. newBlock[n] \in SUBSET Clusters
    BY <1>1 DEF TypeOK
  <2> QED BY <1>3, <2>1, RecordTypes
<1>6. obj.held = store[n].held /\ obj.locations = store[n].locations
  BY <1>3, <1>4 DEF MCI
<1> HIDE DEF obj
<1>7. obj # NotFound /\ store[n] # NotFound
  BY <1>3, <1>5, ConstantsAssumption
<1>8. Len(watch[n]) < Room(obj)
  BY <1>4, EmptyLength, MaxLagPositive DEF Room
<1>9. OrderlyWrite(n, obj)
  BY <1>1, <1>2, <1>6, <1>7, <1>8 DEF OrderlyWrite, NotHeld, ChannelOK
<1>10. CASE ok
  <2>1. /\ pc' = [pc EXCEPT ![n] = "getLB"]
        /\ EndRetry(n) /\ UNCHANGED <<mci, fresh>>
    BY <1>10 DEF UpdateBlock, Goto
  <2>2. OnlyAbout(n)
    BY <1>1, <1>2, <2>1 DEF OnlyAbout, Commit, EndRetry, TypeOK
  <2>3. retried'[n] = NotFound /\ ~retriedFresh'[n] /\ pc'[n] = "getLB"
    BY <1>1, <2>1 DEF EndRetry, TypeOK
  <2>4. Len(watch'[n]) <= 1
    <3>1. watch'[n] = <<>> \/ watch'[n] = Append(<<>>, obj)
      BY <1>1, <1>2, <1>4 DEF Commit, TypeOK
    <3>2. Len(Append(<<>>, obj)) = 1
      BY <1>5, EmptySeq, EmptyLength, OneMoreEvent
    <3>3. Len(watch'[n]) = 0 \/ Len(watch'[n]) = 1
      BY <3>1, <3>2, EmptyLength, Zenon
    <3>4. 0 <= 1 /\ 1 <= 1
      OBVIOUS
    <3> QED BY <3>3, <3>4, Zenon
  <2>5. CopiesOK(n)'
    BY <1>1, <2>1, <2>3, <2>4 DEF CopiesOK, NotHeld
  <2> QED BY <1>5, <1>9, <2>2, <2>5 DEF OrderlyStep
<1>11. CASE ~ok
  <2>1. Return(n)
    BY <1>11 DEF UpdateBlock, Requeue
  <2> QED BY <1>2, <1>5, <1>9, <2>1, OrderlyReturn
<1> QED BY <1>10, <1>11

\* An accepted attempt at the address
LEMMA UpdateStatusOrderly ==
  ASSUME BothInv, NEW n \in Names, NEW ok \in BOOLEAN, UpdateStatus(n, ok)
  PROVE  OrderlyStep(n)
<1>1. TypeOK /\ AtStep(n) /\ CopiesOK(n) /\ ChannelOK(n) /\ Len(watch[n]) \in Nat
  BY BothInvAt
<1> DEFINE obj == [mci[n] EXCEPT !.status = newStatus[n]]
<1>2. /\ Commit(n, obj) /\ lb' = lb /\ Return(n)
      /\ pc[n] = "status" /\ fresh[n]
  BY DEF UpdateStatus, Answered, Done, Requeue
<1>3. mci[n] \in MCI /\ mci[n] = store[n] /\ mci[n].finalizer
  BY <1>1, <1>2, FreshCopy DEF AtStep, Guarded
<1>4. obj \in MCI
  <2>1. newStatus[n] \in Statuses
    BY <1>1 DEF TypeOK
  <2> QED BY <1>3, <2>1, RecordTypes
<1>5. /\ obj.held = store[n].held /\ obj.locations = store[n].locations
      /\ obj.finalizer = mci[n].finalizer
  BY <1>3 DEF MCI
<1> HIDE DEF obj
<1>6. obj # NotFound /\ store[n] # NotFound
  BY <1>3, <1>4, ConstantsAssumption
<1>7. Room(obj) = MaxLag + 1
  BY <1>3, <1>5, <1>6 DEF Room, HasFinalizer
<1>8. Len(watch[n]) <= 1
  BY <1>1, <1>2 DEF CopiesOK
<1>9. Len(watch[n]) < Room(obj)
  BY <1>1, <1>7, <1>8, MaxLagPositive
<1>10. OrderlyWrite(n, obj)
  BY <1>1, <1>2, <1>5, <1>6, <1>9 DEF OrderlyWrite, NotHeld, ChannelOK
<1> QED BY <1>2, <1>4, <1>10, OrderlyReturn

\* The last write of a reconcile takes the finalizer off, or removes the object.
LEMMA RemoveFinalizerOrderly ==
  ASSUME BothInv, NEW n \in Names, NEW ok \in BOOLEAN, RemoveFinalizer(n, ok)
  PROVE  OrderlyStep(n)
<1>1. TypeOK /\ AtStep(n) /\ CopiesOK(n) /\ ChannelOK(n)
  BY BothInvAt
<1>2. /\ pc[n] = "removeFinalizer" /\ fresh[n] /\ lb' = lb /\ Return(n)
      /\ Commit(n, IF mci[n].held THEN [mci[n] EXCEPT !.finalizer = FALSE]
                                  ELSE NotFound)
  BY DEF RemoveFinalizer, Answered, Done, Requeue
<1>3. mci[n] # NotFound /\ watch[n] = <<>>
  BY <1>1, <1>2 DEF AtStep
<1>4. Commit(n, NotFound)
  BY <1>1, <1>2, <1>3 DEF CopiesOK, NotHeld
<1>5. Len(watch[n]) < Room(NotFound)
  BY <1>3, EmptyLength, MaxLagPositive DEF Room
<1>6. OrderlyWrite(n, NotFound)
  BY <1>4, <1>5 DEF OrderlyWrite, NotHeld
<1> QED BY <1>2, <1>6, OrderlyReturn

\* All that the MCI controller does with n
LEMMA ReconcilerOrderly ==
  ASSUME BothInv, NEW n \in Names, WorkStep(n) \/ FailedCall(n)
  PROVE  OrderlyStep(n)
<1>1. ASSUME NEW ok \in BOOLEAN,
             \/ AddFinalizer(n, ok) \/ UpdateBlock(n, ok)
             \/ UpdateStatus(n, ok) \/ RemoveFinalizer(n, ok)
      PROVE  OrderlyStep(n)
  BY <1>1, AddFinalizerOrderly, UpdateBlockOrderly, UpdateStatusOrderly,
     RemoveFinalizerOrderly
<1> QED BY <1>1, ReadOrderly DEF WorkStep, FailedCall
-----------------------------------------------------------------------------
\* A write of n reaches the watch.
LEMMA WriteReaches ==
  ASSUME TypeOK, NEW n \in Names, NEW obj \in MCI \cup {NotFound},
         Commit(n, obj)
  PROVE  /\ store' = [store EXCEPT ![n] = obj] /\ cache' = cache
         /\ store'[n] = obj
         /\ \A i \in 1 .. Len(watch[n]) : watch'[n][i] = watch[n][i]
         /\ Len(watch[n]) \in Nat
         /\ \/ obj = store[n] /\ store' = store /\ watch' = watch
            \/ /\ obj # store[n] /\ store' # store
               /\ Len(watch'[n]) = Len(watch[n]) + 1
               /\ watch'[n][Len(watch[n]) + 1] = obj
<1>1. /\ store' = [store EXCEPT ![n] = obj] /\ cache' = cache
      /\ store'[n] = obj
      /\ watch[n] \in Seq(MCI \cup {NotFound})
  BY DEF Commit, TypeOK
<1>2. CASE obj = store[n]
  <2>1. store' = store /\ watch' = watch
    BY <1>1, <1>2 DEF Commit, TypeOK
  <2> QED BY <1>1, <1>2, <2>1, LenProperties
<1>3. CASE obj # store[n]
  <2>1. watch'[n] = Append(watch[n], obj)
    BY <1>3 DEF Commit, TypeOK
  <2>2. store' # store
    BY <1>1, <1>3
  <2> QED BY <1>1, <1>3, <2>1, <2>2, OneMoreEvent
<1> QED BY <1>2, <1>3

\* What the two channels and copies are after a step about n
LEMMA ChannelWritten ==
  ASSUME BothInv, NEW n \in Names, NEW obj \in MCI \cup {NotFound},
         Commit(n, obj), NotHeld(obj), obj = store[n] \/ Len(watch[n]) < Room(obj)
  PROVE  ChannelOK(n)'
<1>1. TypeOK /\ ChannelOK(n)
  BY BothInvAt
<1>2. CASE obj = store[n]
  <2>1. UNCHANGED <<store, watch, cache>>
    BY <1>1, <1>2, WriteReaches
  <2> QED BY <1>1, <2>1 DEF ChannelOK, Room, HasFinalizer
<1>3. CASE obj # store[n]
  <2>1. /\ store'[n] = obj /\ cache' = cache /\ Len(watch[n]) \in Nat
        /\ Len(watch'[n]) = Len(watch[n]) + 1
        /\ watch'[n][Len(watch[n]) + 1] = obj
        /\ \A i \in 1 .. Len(watch[n]) : watch'[n][i] = watch[n][i]
    BY <1>1, <1>3, WriteReaches
  <2>2. ASSUME NEW i \in 1 .. Len(watch'[n]) PROVE NotHeld(watch'[n][i])
    <3>1. i \in 1 .. Len(watch[n]) \/ i = Len(watch[n]) + 1
      BY <2>1
    <3> QED BY <1>1, <2>1, <3>1 DEF ChannelOK
  <2>3. Room(obj) \in Nat /\ Room(store[n])' = Room(obj)
    BY <2>1, MaxLagPositive DEF Room, HasFinalizer
  <2>4. Len(watch'[n]) <= Room(obj)
    BY <1>3, <2>1, <2>3
  <2> QED BY <1>1, <2>1, <2>2, <2>3, <2>4 DEF ChannelOK
<1> QED BY <1>2, <1>3

\* A step of users or of the MCI controller, for the channels and copies
LEMMA OrderlyKeeps ==
  ASSUME BothInv, NEW n \in Names, OrderlyStep(n), LocFollows(n)
  PROVE  \A m \in Names : CopiesOK(m)' /\ ChannelOK(m)' /\ LocCopyOK(m)'
<1>1. ASSUME NEW m \in Names \ {n}
      PROVE  CopiesOK(m)' /\ ChannelOK(m)'
  BY <1>1, BothInvAt
  DEF OrderlyStep, OnlyAbout, CopiesOK, ChannelOK, Room, HasFinalizer
<1>2. ChannelOK(n)'
  <2>1. CASE UNCHANGED apiVars
    BY <2>1, BothInvAt DEF apiVars, ChannelOK, Room, HasFinalizer
  <2>2. CASE \E obj \in MCI \cup {NotFound} : OrderlyWrite(n, obj)
    BY <2>2, ChannelWritten DEF OrderlyWrite
  <2> QED BY <2>1, <2>2 DEF OrderlyStep
<1>3. store' = store => watch' = watch
  <2>1. TypeOK
    BY BothInvAt
  <2> QED BY <2>1, WriteReaches DEF OrderlyStep, OrderlyWrite, apiVars
<1>4. ASSUME NEW m \in Names PROVE LocCopyOK(m)'
  <2>1. LocCopyOK(m)
    BY DEF BothInv
  <2>2. CASE store' = store
    BY <1>3, <2>1, <2>2 DEF LocFollows, locVars, LocCopyOK
  <2>3. CASE store' # store
    <3>1. locKey' = locKey /\ (locFresh' <=> (locFresh /\ locKey # n))
      BY <2>3, Zenon DEF LocFollows, Loc!Outdate
    <3>2. m # n => watch'[m] = watch[m]
      BY DEF OrderlyStep, OnlyAbout
    <3> QED BY <2>1, <3>1, <3>2 DEF LocCopyOK
  <2> QED BY <2>2, <2>3
<1> QED BY <1>1, <1>2, <1>4 DEF OrderlyStep

\* and for the service locations controller: its action Others
LEMMA OrderlyIsOthers ==
  ASSUME BothInv, NEW n \in Names, OrderlyStep(n), LocFollows(n)
  PROVE  [Loc!Next]_(Loc!vars)
<1>1. TypeOK
  BY BothInvAt
<1>2. CASE UNCHANGED apiVars
  BY <1>2 DEF LocFollows, locVars, apiVars, Loc!vars, Loc!apiVars, Loc!rbVars,
              Loc!workVars
<1>3. ASSUME NEW obj \in MCI \cup {NotFound}, OrderlyWrite(n, obj)
      PROVE  [Loc!Next]_(Loc!vars)
  <2>1. CASE obj = store[n]
    <3>1. UNCHANGED <<store, watch, cache>>
      BY <1>1, <1>3, <2>1, WriteReaches DEF OrderlyWrite
    <3> QED BY <3>1 DEF LocFollows, locVars, Loc!vars, Loc!apiVars, Loc!rbVars,
                        Loc!workVars
  <2>2. CASE obj # store[n]
    <3>1. store' # store /\ Len(watch[n]) \in Nat /\ Len(watch[n]) < Room(obj)
      BY <1>1, <1>3, <2>2, WriteReaches DEF OrderlyWrite
    <3>2. Loc!Outdate(n)
      BY <3>1 DEF LocFollows
    <3>3. Len(watch[n]) < Slack
      BY <3>1, MaxLagPositive DEF Room, Slack
    <3>4. Loc!Commit(n, obj)
      BY <1>3, <3>3 DEF OrderlyWrite, Commit, Loc!Commit
    <3>5. Loc!Others(n)
      BY <1>3, <2>2, <3>2, <3>4 DEF OrderlyWrite, Loc!Others
    <3> QED BY <3>5 DEF Loc!Next, Loc!UserStep
  <2> QED BY <2>1, <2>2
<1> QED BY <1>2, <1>3 DEF OrderlyStep
-----------------------------------------------------------------------------
\* What the invariant says of the worker of service locations
LEMMA LocWorkerAt ==
  ASSUME BothInv
  PROVE  /\ locPc # "idle" => locKey \in Names
         /\ locPc # "idle" => locMCI \in MCI
         /\ locFresh => store[locKey] = locMCI
         /\ svcLocations \in Locations
<1>1. LP!TypeOK
  BY DEF BothInv, LP!CacheOK
<1>2. locPc # "idle" => locKey # NotFound /\ locMCI # NotFound
  BY <1>1 DEF LP!TypeOK
<1>3. LP!Locations = Locations
  BY DEF LP!Locations, Locations
<1> QED BY <1>1, <1>2, <1>3 DEF LP!TypeOK

\* Steps that write no MCI and no copy of the MCI controller
LEMMA ApiUntouched ==
  ASSUME BothInv, UNCHANGED apiVars, UNCHANGED <<fresh, retriedFresh>>,
         UNCHANGED <<pc, mci, retried>>
  PROVE  \A m \in Names : CopiesOK(m)' /\ ChannelOK(m)'
  BY BothInvAt DEF apiVars, CopiesOK, ChannelOK, Room, HasFinalizer

\* The update of service locations, for the MCI controller: LocateServices
LEMMA LocatedIsOthers ==
  ASSUME BothInv, NEW ok \in BOOLEAN, Loc!UpdateLocations(ok),
         MCIFollows(locKey)
  PROVE  /\ [Next]_vars
         /\ \A m \in Names : CopiesOK(m)' /\ ChannelOK(m)' /\ LocCopyOK(m)'
<1> DEFINE obj == [locMCI EXCEPT !.locations = svcLocations]
<1>0. PICK n \in Names : n = locKey
  BY LocWorkerAt DEF Loc!UpdateLocations
<1>1. /\ locPc = "update" /\ locFresh /\ Loc!Commit(n, obj) /\ Loc!Return
  BY <1>0 DEF Loc!UpdateLocations, Loc!Accepted, Loc!Done, Loc!Requeue
<1>2. /\ n \in Names /\ locMCI \in MCI /\ store[n] = locMCI
      /\ svcLocations \in Locations /\ TypeOK
  BY <1>0, <1>1, LocWorkerAt, BothInvAt
<1>3. watch[n] = <<>>
  BY <1>0, <1>1, <1>2 DEF BothInv, LocCopyOK
<1>4. obj \in MCI
  BY <1>2, RecordTypes
<1>5. obj.held = store[n].held
  BY <1>2 DEF MCI
<1>6. obj = [store[n] EXCEPT !.locations = svcLocations]
  BY <1>2
<1>7. svcLocations = store[n].locations => obj = store[n]
  BY <1>2 DEF MCI
<1> HIDE DEF obj
<1>8. store[n] # NotFound /\ obj # NotFound
  BY <1>2, <1>4, ConstantsAssumption
<1>9. Commit(n, obj) /\ Len(watch[n]) < MaxLag
  BY <1>1, <1>3, EmptyLength, MaxLagPositive DEF Loc!Commit, Commit
<1>10. NotHeld(obj)
  BY <1>2, <1>5, <1>8, BothInvAt DEF ChannelOK, NotHeld
<1>11. Len(watch[n]) < Room(obj)
  BY <1>3, EmptyLength, MaxLagPositive DEF Room
<1>12. ChannelOK(n)'
  BY <1>2, <1>4, <1>9, <1>10, <1>11, ChannelWritten
<1>13. \A m \in Names : LocCopyOK(m)'
  BY <1>1 DEF Loc!Return, LocCopyOK
<1>14. /\ UNCHANGED <<backendVars, chanVars, queue, pc, mci, retried, newBlock,
                      newStatus, tries, lb>>
       /\ IF store' = store THEN UNCHANGED <<fresh, retriedFresh>>
                            ELSE Outdate(n)
  BY <1>0 DEF MCIFollows
<1>15. CASE obj = store[n]
  <2>1. UNCHANGED <<store, watch, cache>>
    BY <1>2, <1>4, <1>9, <1>15, WriteReaches
  <2>2. UNCHANGED apiVars /\ UNCHANGED <<fresh, retriedFresh>>
    BY <1>14, <2>1 DEF apiVars
  <2>3. UNCHANGED vars
    BY <1>14, <2>2 DEF vars, workVars, retryVars
  <2>4. \A m \in Names : CopiesOK(m)' /\ ChannelOK(m)'
    BY <1>14, <2>2, ApiUntouched
  <2> QED BY <1>13, <2>3, <2>4
<1>16. CASE obj # store[n]
  <2>1. store' # store
    BY <1>2, <1>4, <1>9, <1>16, WriteReaches
  <2>2. OthersWrite(n, [store[n] EXCEPT !.locations = svcLocations])
    BY <1>6, <1>9, <1>14, <2>1 DEF OthersWrite
  <2>3. svcLocations \in Locations \ {store[n].locations}
    BY <1>2, <1>7, <1>16
  <2>4. LocateServices(n)
    BY <1>8, <2>2, <2>3, BothAssumption DEF LocateServices
  <2>5. Next
    BY <1>2, <2>4 DEF Next, OthersStep
  <2>6. /\ ~fresh'[n] /\ ~retriedFresh'[n]
        /\ UNCHANGED <<mci, retried, pc>>
        /\ \A m \in Names \ {n} :
             /\ fresh'[m] = fresh[m] /\ retriedFresh'[m] = retriedFresh[m]
             /\ watch'[m] = watch[m] /\ store'[m] = store[m] /\ cache'[m] = cache[m]
    BY <1>2, <1>9, <1>14, <2>1 DEF Outdate, Commit, TypeOK
  <2>7. \A m \in Names : CopiesOK(m)'
    BY <1>2, <2>6, BothInvAt DEF CopiesOK
  <2>8. \A m \in Names \ {n} : ChannelOK(m)'
    BY <2>6, BothInvAt DEF ChannelOK, Room, HasFinalizer
  <2> QED BY <1>12, <1>13, <2>5, <2>7, <2>8
<1> QED BY <1>15, <1>16

\* All that the worker of service locations does
LEMMA LocWorker ==
  ASSUME BothInv, Loc!WorkStep \/ Loc!UpdateLocations(FALSE) \/ Loc!CallFails,
         MCIFollows(locKey)
  PROVE  /\ [Next]_vars
         /\ \A m \in Names : CopiesOK(m)' /\ ChannelOK(m)' /\ LocCopyOK(m)'
<1>1. CASE \E ok \in BOOLEAN : Loc!UpdateLocations(ok)
  BY <1>1, LocatedIsOthers
<1>2. CASE ~(\E ok \in BOOLEAN : Loc!UpdateLocations(ok))
  <2>1. \/ \E n \in Names : Loc!Reconcile(n)
        \/ Loc!GetBinding \/ Loc!Calculated
        \/ Loc!NothingToUpdate \/ Loc!RetryUpdate \/ Loc!CallFails
    BY <1>2 DEF Loc!WorkStep
  <2>2. UNCHANGED <<store, watch, cache>>
    BY <2>1 DEF Loc!Reconcile, Loc!GetBinding, Loc!Calculated,
                Loc!NothingToUpdate, Loc!RetryUpdate, Loc!CallFails, Loc!apiVars
  <2>3. /\ UNCHANGED apiVars /\ UNCHANGED <<fresh, retriedFresh>>
        /\ UNCHANGED <<backendVars, chanVars, queue, pc, mci, retried, newBlock,
                       newStatus, tries, lb>>
    BY <2>2 DEF apiVars, MCIFollows
  <2>4. UNCHANGED vars
    BY <2>3 DEF vars, workVars, retryVars
  <2>5. \A m \in Names : CopiesOK(m)' /\ ChannelOK(m)'
    BY <2>3, ApiUntouched
  <2>6. ASSUME NEW m \in Names PROVE LocCopyOK(m)'
    <3>1. \/ UNCHANGED <<locKey, locFresh>>
          \/ ~locFresh'
          \/ locFresh' = (watch[locKey'] = <<>>)
      <4>1. ASSUME NEW n \in Names, Loc!Reconcile(n)
            PROVE  \/ UNCHANGED <<locKey, locFresh>>
                   \/ locFresh' = (watch[locKey'] = <<>>)
        <5>1. CASE cache[n] = NotFound
          BY <4>1, <5>1 DEF Loc!Reconcile
        <5>2. CASE cache[n] # NotFound
          BY <4>1, <5>2, Zenon DEF Loc!Reconcile
        <5> QED BY <5>1, <5>2
      <4>2. CASE Loc!GetBinding \/ Loc!Calculated
        BY <4>2 DEF Loc!GetBinding, Loc!Calculated
      <4>3. CASE Loc!Return
        BY <4>3 DEF Loc!Return
      <4>4. CASE Loc!NothingToUpdate \/ Loc!CallFails
        BY <4>3, <4>4 DEF Loc!NothingToUpdate, Loc!CallFails, Loc!Done, Loc!Requeue
      <4>5. CASE Loc!RetryUpdate /\ ~Loc!Return
        <5>1. locKey' = locKey /\ locFresh' = (watch[locKey] = <<>>)
          BY <4>5, Zenon DEF Loc!RetryUpdate, Loc!Done, Loc!Requeue
        <5> QED BY <5>1, Zenon
      <4> QED BY <2>1, <4>1, <4>2, <4>3, <4>4, <4>5
    <3>2. CASE UNCHANGED <<locKey, locFresh>>
      BY <2>2, <3>2 DEF BothInv, LocCopyOK
    <3>3. CASE ~locFresh'
      BY <3>3 DEF LocCopyOK
    <3>4. CASE locFresh' = (watch[locKey'] = <<>>)
      BY <2>2, <3>4, Zenon DEF LocCopyOK
    <3> QED BY <3>1, <3>2, <3>3, <3>4
  <2> QED BY <2>4, <2>5, <2>6
<1> QED BY <1>1, <1>2
-----------------------------------------------------------------------------
\* The informer that both controllers have their handlers on
LEMMA InformerKeeps ==
  ASSUME BothInv, NEW n \in Names,
         BothDeliver(n) \/ (Relist(n) /\ Loc!Relist(n))
  PROVE  \A m \in Names : CopiesOK(m)' /\ ChannelOK(m)' /\ LocCopyOK(m)'
<1>1. /\ TypeOK /\ ChannelOK(n)
      /\ watch[n] \in Seq(MCI \cup {NotFound})
  BY BothInvAt
<1>2. /\ \A m \in Names \ {n} : watch'[m] = watch[m] /\ cache'[m] = cache[m]
      /\ UNCHANGED <<store, pc, mci, fresh, retried, retriedFresh>>
      /\ UNCHANGED <<locKey, locFresh>>
  <2>1. CASE BothDeliver(n)
    BY <1>1, <2>1 DEF BothDeliver, Deliver, Observe, workVars, retryVars, TypeOK,
                      Loc!Deliver, Loc!Observe, Loc!workVars
  <2>2. CASE Relist(n) /\ Loc!Relist(n)
    BY <1>1, <2>2 DEF Relist, Observe, workVars, retryVars, TypeOK,
                      Loc!Relist, Loc!Observe, Loc!workVars
  <2> QED BY <2>1, <2>2
<1>3. ASSUME NEW m \in Names \ {n}
      PROVE  CopiesOK(m)' /\ ChannelOK(m)' /\ LocCopyOK(m)'
  BY <1>2, BothInvAt
  DEF BothInv, CopiesOK, ChannelOK, LocCopyOK, Room, HasFinalizer
<1>4. ASSUME watch'[n] = <<>>, NotHeld(cache'[n])
      PROVE  CopiesOK(n)' /\ ChannelOK(n)' /\ LocCopyOK(n)'
  <2>1. CopiesOK(n)' /\ LocCopyOK(n)'
    BY <1>2, <1>4, EmptyLength, BothInvAt DEF CopiesOK, LocCopyOK
  <2>2. Len(watch'[n]) = 0
    BY <1>4, EmptyLength, Zenon
  <2>3. 0 <= Room(store[n])' /\ 1 .. 0 = {}
    BY MaxLagPositive DEF Room
  <2> QED BY <1>1, <1>2, <1>4, <2>1, <2>2, <2>3 DEF ChannelOK
<1>5. CASE Relist(n)
  <2>1. watch'[n] = <<>> /\ cache'[n] = store[n]
    BY <1>1, <1>5 DEF Relist, Observe, TypeOK
  <2> QED BY <1>1, <1>3, <1>4, <2>1 DEF ChannelOK
<1>6. CASE BothDeliver(n)
  <2>1. watch[n] # <<>> /\ watch'[n] = Tail(watch[n]) /\ cache'[n] = Head(watch[n])
    BY <1>1, <1>6 DEF BothDeliver, Deliver, Observe, TypeOK
  <2>2. /\ cache'[n] = watch[n][1] /\ Len(watch[n]) \in Nat \ {0}
        /\ Len(watch'[n]) = Len(watch[n]) - 1
        /\ \A i \in 1 .. Len(watch'[n]) :
             i + 1 \in 1 .. Len(watch[n]) /\ watch'[n][i] = watch[n][i + 1]
    BY <1>1, <2>1, RestOfChannel
  <2>3. CopiesOK(n)'
    BY <1>2, <2>1, <2>2, BothInvAt DEF CopiesOK
  <2>4. LocCopyOK(n)'
    BY <1>2, <2>1 DEF BothInv, LocCopyOK
  <2>5. Room(store[n])' = Room(store[n]) /\ Room(store[n]) \in Nat
    BY <1>2, MaxLagPositive DEF Room, HasFinalizer
  <2>6. ChannelOK(n)'
    BY <1>1, <1>2, <2>2, <2>5 DEF ChannelOK
  <2> QED BY <1>3, <2>3, <2>4, <2>6
<1> QED BY <1>5, <1>6

\* A new process lists everything and has no copies.
LEMMA RestartKeeps ==
  ASSUME BothInv, Restart, Loc!Restart
  PROVE  \A m \in Names : CopiesOK(m)' /\ ChannelOK(m)' /\ LocCopyOK(m)'
<1> SUFFICES ASSUME NEW m \in Names
             PROVE  CopiesOK(m)' /\ ChannelOK(m)' /\ LocCopyOK(m)'
  OBVIOUS
<1>1. /\ watch'[m] = <<>> /\ cache'[m] = store[m] /\ store' = store
      /\ mci'[m] = NotFound /\ retried'[m] = NotFound
      /\ ~fresh'[m] /\ ~retriedFresh'[m]
  BY DEF Restart
<1>2. CopiesOK(m)' /\ LocCopyOK(m)'
  BY <1>1 DEF CopiesOK, LocCopyOK, NotHeld
<1>3. Len(watch'[m]) = 0
  BY <1>1, EmptyLength, Zenon
<1>4. 0 <= Room(store[m])' /\ 1 .. 0 = {}
  BY MaxLagPositive DEF Room
<1>5. ChannelOK(m)'
  BY <1>1, <1>3, <1>4, BothInvAt DEF ChannelOK
<1> QED BY <1>2, <1>5

\* A step of the two together, seen from each alone
EachAlone ==
  /\ [Next]_vars
  /\ [Loc!Next]_(Loc!vars)
  /\ \A m \in Names : CopiesOK(m)' /\ ChannelOK(m)' /\ LocCopyOK(m)'

\* Steps that touch no MCI
LEMMA NoMCIStep ==
  ASSUME BothInv,
         \/ \E n \in Names : MCIHandler(n)
         \/ BackendStep /\ UNCHANGED locVars
         \/ \E s \in Services : /\ Loc!rbMapFunc(s) \/ Loc!ResourceBindingEvent(s)
                               /\ MCIFollows(NotFound)
         \/ UNCHANGED bothVars
  PROVE  EachAlone
<1>1. ASSUME UNCHANGED apiVars, UNCHANGED <<pc, mci, fresh, retried, retriedFresh>>,
             UNCHANGED <<locKey, locFresh>>
      PROVE  \A m \in Names : CopiesOK(m)' /\ ChannelOK(m)' /\ LocCopyOK(m)'
  <2>1. \A m \in Names : LocCopyOK(m)'
    BY <1>1 DEF BothInv, LocCopyOK, apiVars
  <2> QED BY <1>1, <2>1, ApiUntouched
<1>2. CASE \E s \in Services : /\ Loc!rbMapFunc(s) \/ Loc!ResourceBindingEvent(s)
                               /\ MCIFollows(NotFound)
  <2>1. /\ UNCHANGED <<store, watch, cache, locKey, locFresh>>
        /\ MCIFollows(NotFound)
        /\ Loc!Next
    BY <1>2 DEF Loc!rbMapFunc, Loc!ResourceBindingEvent, Loc!apiVars,
                Loc!workVars, Loc!Next, Loc!HandlerStep, Loc!UserStep
  <2>2. /\ UNCHANGED apiVars
        /\ UNCHANGED <<fresh, retriedFresh, backendVars, chanVars, queue, pc, mci,
                       retried, newBlock, newStatus, tries, lb>>
    BY <2>1 DEF MCIFollows, apiVars
  <2>3. UNCHANGED vars
    BY <2>2 DEF vars, workVars, retryVars
  <2> QED BY <1>1, <2>1, <2>2, <2>3 DEF EachAlone
<1>3. CASE \/ \E n \in Names : MCIHandler(n)
           \/ BackendStep /\ UNCHANGED locVars
           \/ UNCHANGED bothVars
  <2>1. /\ UNCHANGED locVars /\ UNCHANGED apiVars /\ UNCHANGED workVars
        /\ [Next]_vars
    <3>1. CASE \E n \in Names : MCIHandler(n)
      BY <3>1 DEF MCIHandler, MCIGeneric, Next, HandlerStep
    <3>2. CASE BackendStep /\ UNCHANGED locVars
      BY <3>2 DEF BackendStep, ServiceEvent, SecretEvent, EndpointSliceEvent,
                  ClusterEvent, IngressClassEvent, Next
    <3>3. CASE UNCHANGED bothVars
      BY <3>3 DEF bothVars, mcVars, vars
    <3> QED BY <1>3, <3>1, <3>2, <3>3
  <2>2. UNCHANGED Loc!vars
    BY <2>1 DEF locVars, apiVars, Loc!vars, Loc!apiVars, Loc!rbVars, Loc!workVars
  <2>3. UNCHANGED <<pc, mci, fresh, retried, retriedFresh>> /\ UNCHANGED <<locKey, locFresh>>
    BY <2>1 DEF workVars, retryVars, locVars
  <2> QED BY <1>1, <2>1, <2>2, <2>3 DEF EachAlone
<1> QED BY <1>2, <1>3
-----------------------------------------------------------------------------
\* Every step of the two together is one of each alone.
LEMMA BothStep ==
  ASSUME BothInv, [BothNext]_bothVars
  PROVE  EachAlone
<1>1. ASSUME NEW n \in Names,
             \/ CreateMCI(n) \/ EditMCI(n) \/ DeleteMCI(n)
             \/ FailedCall(n) \/ WorkStep(n),
             LocFollows(n)
      PROVE  EachAlone
  <2>1. OrderlyStep(n)
    BY <1>1, UserOrderly, ReconcilerOrderly
  <2>2. Next
    BY <1>1 DEF Next, OthersStep, FaultStep
  <2> QED BY <1>1, <2>1, <2>2, OrderlyKeeps, OrderlyIsOthers DEF EachAlone
<1>2. ASSUME NEW n \in Names, BothDeliver(n) \/ (Relist(n) /\ Loc!Relist(n))
      PROVE  EachAlone
  BY <1>2, InformerKeeps
  DEF EachAlone, BothDeliver, Next, HandlerStep, FaultStep, Loc!Next,
      Loc!HandlerStep, Loc!FaultStep
<1>3. ASSUME Restart, Loc!Restart
      PROVE  EachAlone
  BY <1>3, RestartKeeps DEF EachAlone, Next, Loc!Next, Loc!FaultStep
<1>4. ASSUME Loc!WorkStep \/ Loc!UpdateLocations(FALSE) \/ Loc!CallFails,
             MCIFollows(locKey)
      PROVE  EachAlone
  BY <1>4, LocWorker DEF EachAlone, Loc!Next, Loc!FaultStep
<1>5. CASE BothDisturbance
  <2>1. CASE \/ \E s \in Services : /\ Loc!ResourceBindingEvent(s)
                                    /\ MCIFollows(NotFound)
             \/ BackendStep /\ UNCHANGED locVars
    BY <2>1, NoMCIStep
  <2> QED BY <1>1, <1>2, <1>3, <1>4, <1>5, <2>1 DEF BothDisturbance
<1>6. ASSUME NEW n \in Names, BothDeliver(n) \/ MCIHandler(n) \/ MCIWork(n)
      PROVE  EachAlone
  BY <1>1, <1>2, <1>6, NoMCIStep DEF MCIWork
<1>7. CASE LocWork \/ \E s \in Services : LocMap(s)
  BY <1>4, <1>7, NoMCIStep DEF LocWork, LocMap
<1>8. CASE UNCHANGED bothVars
  BY <1>8, NoMCIStep
<1> QED BY <1>5, <1>6, <1>7, <1>8 DEF BothNext
-----------------------------------------------------------------------------
\* The lemmas about MCIServiceLocations apply to the instance.
LEMMA LocAssumption == LP!LocationsAssumption
<1>1. /\ NotFound \notin MCI /\ RetrySteps \in Nat \ {0} /\ MaxLag \in Nat \ {0}
      /\ ServiceRefs \in [Cfgs -> SUBSET Services]
  BY ConstantsAssumption
<1>2. LP!Locations = Locations /\ LP!RBSpec = Loc!RBSpec
  BY DEF LP!Locations, Locations, LP!RBSpec, Loc!RBSpec
<1>3. Slack \in Nat \ {0}
  BY <1>1 DEF Slack
<1>4. \A m \in MCI : m.locations \in Locations /\ ServiceRefs[m.cfg] \subseteq Services
  BY <1>1 DEF MCI
<1>5. \A m \in MCI, l \in Locations :
        LET new == [m EXCEPT !.locations = l]
        IN  new \in MCI /\ new.cfg = m.cfg /\ new.locations = l
  BY DEF MCI
<1>6. /\ Bindings \subseteq LP!RBSpec
      /\ NotFound \notin MCI \cup LP!RBSpec \cup Names
      /\ Assumes \subseteq {"ownWritesCached", "recreationSeen"}
  BY <1>1, <1>2, BothAssumption
<1> QED
  BY <1>1, <1>2, <1>3, <1>4, <1>5, <1>6, Zenon DEF LP!LocationsAssumption

\* The definitions of the two instances are the same, step by step.
LEMMA SameSteps == [Loc!Next]_(Loc!vars) <=> [LP!Next]_(LP!vars)
  BY
  DEF Loc!apiVars,
      LP!apiVars, Loc!rbVars, LP!rbVars, Loc!workVars, LP!workVars,
      Loc!vars, LP!vars, Loc!Nowhere, LP!Nowhere, Loc!Init, LP!Init,
      Loc!Commit, LP!Commit, Loc!Outdate, LP!Outdate, Loc!Others, LP!Others,
      Loc!mciPredicate, LP!mciPredicate, Loc!Observe, LP!Observe,
      Loc!Deliver, LP!Deliver, Loc!Recreated, LP!Recreated, Loc!Relist,
      LP!Relist, Loc!rbPredicate, LP!rbPredicate, Loc!ResourceBindingEvent,
      LP!ResourceBindingEvent, Loc!ReferTo, LP!ReferTo, Loc!rbMapFunc,
      LP!rbMapFunc, Loc!Return, LP!Return, Loc!Done, LP!Done, Loc!Requeue,
      LP!Requeue, Loc!OwnWritesCached, LP!OwnWritesCached, Loc!Reconcile,
      LP!Reconcile, Loc!obtainBindingClusters, LP!obtainBindingClusters,
      Loc!GetBinding, LP!GetBinding, Loc!Calculated, LP!Calculated,
      Loc!InSync, LP!InSync, Loc!NothingToUpdate, LP!NothingToUpdate,
      Loc!Accepted, LP!Accepted, Loc!UpdateLocations, LP!UpdateLocations,
      Loc!RetryUpdate, LP!RetryUpdate, Loc!CallFails, LP!CallFails,
      Loc!Restart, LP!Restart, Loc!HandlerStep, LP!HandlerStep,
      Loc!WorkStep, LP!WorkStep, Loc!UserStep, LP!UserStep, Loc!FaultStep,
      LP!FaultStep, Loc!Next, LP!Next

\* At the start nothing waits and nobody has a copy.
LEMMA BothInitInv == BothInit => BothInv
<1> SUFFICES ASSUME BothInit PROVE BothInv
  OBVIOUS
<1>1. Init /\ Loc!Init
  BY DEF BothInit, MCInit
<1>2. LP!Init
  BY <1>1 DEF Loc!Init, LP!Init, Loc!Nowhere, LP!Nowhere
<1>3. IInv /\ LP!CacheOK
  BY <1>1, <1>2, InitIInv, LP!InitCacheOK, LocAssumption
<1>4. ASSUME NEW n \in Names PROVE CopiesOK(n) /\ ChannelOK(n) /\ LocCopyOK(n)
  <2>1. /\ store[n] = NotFound /\ cache[n] = NotFound /\ watch[n] = <<>>
        /\ mci[n] = NotFound /\ retried[n] = NotFound
        /\ ~fresh[n] /\ ~retriedFresh[n] /\ ~locFresh
    BY <1>1 DEF Init, Loc!Init
  <2>2. Len(watch[n]) = 0
    BY <2>1, EmptyLength, Zenon
  <2>3. 0 <= Room(store[n]) /\ 1 .. 0 = {}
    BY MaxLagPositive DEF Room
  <2> QED BY <2>1, <2>2, <2>3 DEF CopiesOK, ChannelOK, LocCopyOK, NotHeld
<1> QED BY <1>3, <1>4 DEF BothInv

\* Every step of the two together keeps what each relies on.
LEMMA BothNextInv == BothInv /\ [BothNext]_bothVars => BothInv'
<1> SUFFICES ASSUME BothInv, [BothNext]_bothVars PROVE BothInv'
  OBVIOUS
<1>1. EachAlone
  BY BothStep
<1>2. IInv'
  BY <1>1, NextIInv DEF EachAlone, BothInv
<1>3. [LP!Next]_(LP!vars)
  BY <1>1, SameSteps DEF EachAlone
<1>4. LP!CacheOK'
  BY <1>3, LP!NextCacheOK, LocAssumption DEF BothInv
<1> QED BY <1>1, <1>2, <1>4 DEF EachAlone, BothInv

\* The two controllers together keep both invariants, and how many events
\* wait when one of them writes.
THEOREM BothInvariance == BothSpec => []BothInv
  BY BothInitInv, BothNextInv, PTL DEF BothSpec

\* With the real service locations controller in its process the MCI
\* controller behaves as MCIController says, for every set of MCIs: what the
\* other one writes are changes of the locations, one at a time.
THEOREM ControllerAlone == BothSpec => MCIControllerAlone
<1>1. BothInit => Init
  BY DEF BothInit, MCInit
<1>2. BothInv /\ [BothNext]_bothVars => [Next]_vars
  BY BothStep DEF EachAlone
<1> QED
  BY <1>1, <1>2, BothInvariance, PTL DEF BothSpec, MCIControllerAlone, Spec

\* With the real MCI controller in its process the service locations
\* controller behaves as MCIServiceLocations says: the patch and the two status
\* updates of the other, from copies that may be old, leave the locations.
THEOREM WriterAlone == BothSpec => LocationsAlone
<1>1. BothInit => Loc!Init
  BY DEF BothInit
<1>2. BothInv /\ [BothNext]_bothVars => [Loc!Next]_(Loc!vars)
  BY BothStep DEF EachAlone
<1> QED
  BY <1>1, <1>2, BothInvariance, PTL DEF BothSpec, LocationsAlone, Loc!Spec

\* No load balancer of an MCI is orphaned with both controllers at work.
THEOREM TogetherNeverOrphaned == BothSpec => []NoOrphanedLB
  BY ControllerAlone, NeverOrphaned, PTL DEF MCIControllerAlone

\* With both controllers at work no MCI whose backends moved is forgotten, if
\* the informer is in time.
THEOREM TogetherLocated ==
  ASSUME {"ownWritesCached", "recreationSeen"} \subseteq Assumes
  PROVE  BothSpec => []Loc!LocationsNotForgotten
<1>1. LP!InformerInTime
  BY DEF LP!InformerInTime
<1>2. BothInit => LP!IInv
  <2>1. BothInit => LP!Init
    BY DEF BothInit, Loc!Init, LP!Init, Loc!Nowhere, LP!Nowhere
  <2> QED BY <2>1, LP!InitIInv, LocAssumption
<1>3. BothInv /\ LP!IInv /\ [BothNext]_bothVars => LP!IInv'
  <2> SUFFICES ASSUME BothInv, LP!IInv, [BothNext]_bothVars PROVE LP!IInv'
    OBVIOUS
  <2>1. [LP!Next]_(LP!vars)
    BY BothStep, SameSteps DEF EachAlone
  <2> QED BY <1>1, <2>1, LP!NextIInv, LocAssumption
<1>4. LP!IInv => Loc!LocationsNotForgotten
  <2> SUFFICES ASSUME LP!IInv PROVE Loc!LocationsNotForgotten
    OBVIOUS
  <2>1. LP!LocationsNotForgotten
    BY LP!SettledLocated, LocAssumption
  <2> QED
    BY <2>1
    DEF LP!LocationsNotForgotten, LP!Pending, LP!Expected,
        Loc!LocationsNotForgotten, Loc!Pending, Loc!Expected
<1> QED BY <1>2, <1>3, <1>4, BothInvariance, PTL DEF BothSpec
=============================================================================
