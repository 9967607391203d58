----------------------- MODULE MCIServiceLocationsProofs -----------------------
(***************************************************************************)
(* LocationsNotForgotten holds of MCIServiceLocations for every set of     *)
(* MCIs, Services and ResourceBindings and every lag of the informer, if   *)
(* the informer is as Assumes says: the proof of the inductive invariant   *)
(* IInv, and what follows from it.                                         *)
(*                                                                         *)
(* LocationsNotForgotten is not inductive: it speaks of the backends that  *)
(* the live MCI has.  The handlers work with those of the cache, so that   *)
(* an edit which is taken back before the cache shows it queues nothing.   *)
(* IInv says what the locations are as long as nothing will come of the    *)
(* cache: right for the backends the cache shows, and while the worker is  *)
(* busy with the MCI, right in its hands for those it has looked up.       *)
(***************************************************************************)
EXTENDS MCIServiceLocations, Channels, TLAPS

\* What is on its way to the cache of n ends with the live version.
Coherent(n) == IF watch[n] = <<>> THEN cache[n] = store[n]
                                  ELSE watch[n][Len(watch[n])] = store[n]

\* The cache shows n, and it was not deleted since.
Known(n) == /\ cache[n] # NotFound
            /\ \A i \in 1 .. Len(watch[n]) : watch[n][i] # NotFound

Backends(n) == ServiceRefs[cache[n].cfg]

\* Nothing queues n before its watch or a ResourceBinding has something new.
Quiet(n) == Known(n) /\ n \notin queue /\ rbEvents \cap Backends(n) = {}

\* Where the Services in S are scheduled to
ScheduledTo(S) ==
  [s \in {t \in S : rb[t] # NotFound} |-> obtainBindingClusters(rb[s])]

\* The locations of n are right for what the cache shows.
Located(n) == Quiet(n) /\ (pc = "idle" \/ key # n) =>
                store[n].locations = ScheduledTo(Backends(n))

\* Whatever the cache shows of n, now or later, has the locations of n.
LocationsShown(n) ==
  /\ cache[n].locations = store[n].locations
  /\ \A i \in 1 .. Len(watch[n]) : watch[n][i].locations = store[n].locations

\* The worker has the right locations of the backends it has looked up, and
\* the ones its copy has are still those of n.
LocatedSoFar ==
  pc # "idle" /\ Quiet(key) =>
    /\ todo \subseteq Backends(key)
    /\ svcLocations = ScheduledTo(Backends(key) \ todo)
    /\ mci.locations = store[key].locations
    /\ LocationsShown(key)

Phases == /\ pc = "idle" => svcLocations = Nowhere
          /\ pc = "update" => todo = {}

\* The informer is in time: what LocationsNotForgotten needs of it.
InformerInTime == {"ownWritesCached", "recreationSeen"} \subseteq Assumes

CacheOK == TypeOK /\ \A n \in Names : Coherent(n)

IInv == /\ CacheOK
        /\ Phases
        /\ \A n \in Names : Located(n)
        /\ LocatedSoFar

\* The two conjuncts of CacheOK, apart by what the steps touch
ApiOK == /\ store \in [Names -> MCI \cup {NotFound}]
         /\ watch \in [Names -> Seq(MCI \cup {NotFound})]
         /\ cache \in [Names -> MCI \cup {NotFound}]
         /\ \A n \in Names : Coherent(n)

HandlersOK == /\ rb \in [Services -> Bindings \cup {NotFound}]
              /\ rbEvents \subseteq Services
              /\ queue \subseteq Names

WorkOK == /\ pc \in {"idle", "getBinding", "update"}
          /\ key \in Names \cup {NotFound}
          /\ mci \in MCI \cup {NotFound} /\ fresh \in BOOLEAN
          /\ todo \subseteq Services /\ svcLocations \in Locations
          /\ tries \in 0 .. RetrySteps - 1
          /\ pc # "idle" => key # NotFound /\ mci # NotFound
          /\ fresh => store[key] = mci

LEMMA CacheParts ==
  /\ CacheOK <=> ApiOK /\ HandlersOK /\ WorkOK
  /\ CacheOK' <=> ApiOK' /\ HandlersOK' /\ WorkOK'
  BY DEF CacheOK, TypeOK, ApiOK, HandlersOK, WorkOK
-----------------------------------------------------------------------------
\* A write of n reaches the watch, and never the cache by itself.
LEMMA Committed ==
  ASSUME ApiOK, NEW n \in Names, NEW obj \in MCI \cup {NotFound},
         Commit(n, obj)
  PROVE  /\ ApiOK'
         /\ store' = [store EXCEPT ![n] = obj] /\ cache' = cache
         /\ \A m \in Names \ {n} : watch'[m] = watch[m]
         /\ \A i \in 1 .. Len(watch[n]) : watch'[n][i] = watch[n][i]
         /\ \/ obj = store[n] /\ watch'[n] = watch[n]
            \/ /\ Len(watch'[n]) = Len(watch[n]) + 1
               /\ watch'[n][Len(watch[n]) + 1] = obj
<1>1. store' = [store EXCEPT ![n] = obj] /\ cache' = cache
  BY DEF Commit
<1>2. watch[n] \in Seq(MCI \cup {NotFound})
  BY DEF ApiOK
<1>3. CASE obj = store[n]
  <2>1. watch' = watch /\ store' = store
    BY <1>1, <1>3 DEF Commit, ApiOK
  <2> QED BY <1>1, <1>3, <2>1 DEF ApiOK, Coherent
<1>4. CASE obj # store[n]
  <2>1. watch' = [watch EXCEPT ![n] = Append(watch[n], obj)]
    BY <1>4 DEF Commit
  <2>2. /\ watch'[n] = Append(watch[n], obj)
        /\ \A m \in Names \ {n} : watch'[m] = watch[m]
    BY <2>1 DEF ApiOK
  <2>3. /\ watch'[n] \in Seq(MCI \cup {NotFound})
        /\ Len(watch'[n]) = Len(watch[n]) + 1
        /\ watch'[n][Len(watch[n]) + 1] = obj
        /\ \A i \in 1 .. Len(watch[n]) : watch'[n][i] = watch[n][i]
    BY <1>2, <2>2, AppendProperties
  <2>4. Coherent(n)'
    <3>1. watch'[n] # <<>>
      BY <1>2, <2>2, AppendProperties
    <3> QED BY <1>1, <2>3, <3>1 DEF Coherent, ApiOK
  <2>5. ASSUME NEW m \in Names \ {n} PROVE Coherent(m)'
    BY <1>1, <2>2 DEF Coherent, ApiOK
  <2>6. /\ store' \in [Names -> MCI \cup {NotFound}]
        /\ watch' \in [Names -> Seq(MCI \cup {NotFound})]
        /\ cache' \in [Names -> MCI \cup {NotFound}]
    BY <1>1, <2>1, <2>2, <2>3 DEF ApiOK
  <2>7. ApiOK'
    BY <2>4, <2>5, <2>6 DEF ApiOK
  <2> QED BY <1>1, <2>2, <2>3, <2>7
<1> QED BY <1>3, <1>4

\* The first event is delivered, or the list replaces all of them.
LEMMA Observed ==
  ASSUME ApiOK, NEW n \in Names, Deliver(n) \/ Relist(n)
  PROVE  /\ ApiOK'
         /\ cache'[n] \in MCI \cup {NotFound}
         /\ queue' = IF mciPredicate(cache[n], cache'[n]) THEN queue \cup {n}
                                                          ELSE queue
         /\ \A m \in Names \ {n} : watch'[m] = watch[m] /\ cache'[m] = cache[m]
         /\ UNCHANGED <<store, rbVars, workVars>>
<1>1. watch[n] \in Seq(MCI \cup {NotFound})
  BY DEF ApiOK
<1>2. CASE Deliver(n)
  <2>1. /\ watch[n] # <<>>
        /\ cache' = [cache EXCEPT ![n] = Head(watch[n])]
        /\ watch' = [watch EXCEPT ![n] = Tail(watch[n])]
        /\ queue' = IF mciPredicate(cache[n], Head(watch[n]))
                    THEN queue \cup {n} ELSE queue
        /\ UNCHANGED <<store, rbVars, workVars>>
    BY <1>2 DEF Deliver, Observe
  <2>2. /\ Head(watch[n]) \in MCI \cup {NotFound}
        /\ Head(watch[n]) = watch[n][1]
        /\ Tail(watch[n]) \in Seq(MCI \cup {NotFound})
        /\ IF Tail(watch[n]) = <<>> THEN watch[n][Len(watch[n])] = watch[n][1]
           ELSE Tail(watch[n])[Len(Tail(watch[n]))] = watch[n][Len(watch[n])]
    BY <1>1, <2>1, RestOfChannel
  <2>3. /\ cache'[n] = Head(watch[n]) /\ watch'[n] = Tail(watch[n])
        /\ \A m \in Names \ {n} : watch'[m] = watch[m] /\ cache'[m] = cache[m]
    BY <2>1 DEF ApiOK
  <2>4. Coherent(n)'
    <3>1. watch[n][Len(watch[n])] = store[n]
      BY <2>1 DEF Coherent, ApiOK
    <3> QED BY <2>1, <2>2, <2>3, <3>1 DEF Coherent
  <2>5. ASSUME NEW m \in Names \ {n} PROVE Coherent(m)'
    BY <2>1, <2>3 DEF Coherent, ApiOK
  <2>6. ApiOK'
    BY <2>1, <2>2, <2>4, <2>5 DEF ApiOK
  <2> QED BY <2>1, <2>2, <2>3, <2>6
<1>3. CASE Relist(n)
  <2>1. /\ cache' = [cache EXCEPT ![n] = store[n]]
        /\ watch' = [watch EXCEPT ![n] = <<>>]
        /\ queue' = IF mciPredicate(cache[n], store[n])
                    THEN queue \cup {n} ELSE queue
        /\ UNCHANGED <<store, rbVars, workVars>>
    BY <1>3 DEF Relist, Observe
  <2>2. /\ cache'[n] = store[n] /\ watch'[n] = <<>>
        /\ \A m \in Names \ {n} : watch'[m] = watch[m] /\ cache'[m] = cache[m]
    BY <2>1 DEF ApiOK
  <2>3. ASSUME NEW m \in Names PROVE Coherent(m)'
    BY <2>1, <2>2 DEF Coherent, ApiOK
  <2>4. ApiOK'
    BY <2>1, <2>3, EmptySeq DEF ApiOK
  <2> QED BY <2>1, <2>2, <2>4 DEF ApiOK
<1> QED BY <1>2, <1>3
-----------------------------------------------------------------------------
LEMMA NowhereType == Nowhere \in Locations
<1>1. Nowhere \in [{} -> SUBSET Clusters]
  BY DEF Nowhere
<1>2. {} \in SUBSET Services
  OBVIOUS
<1> QED BY <1>1, <1>2 DEF Locations

\* A worker that returns keeps nothing.
LEMMA ReturnType ==
  ASSUME Return
  PROVE  WorkOK'
<1>1. 0 \in 0 .. RetrySteps - 1
  BY LocationsAssumption
<1> QED BY <1>1, NowhereType DEF Return, WorkOK

LEMMA InitCacheOK ==
  ASSUME Init
  PROVE  CacheOK
<1>1. ApiOK
  BY EmptySeq DEF Init, ApiOK, Coherent
<1>2. HandlersOK
  BY DEF Init, HandlersOK
<1>3. WorkOK
  <2>1. 0 \in 0 .. RetrySteps - 1
    BY LocationsAssumption
  <2> QED BY <2>1, NowhereType DEF Init, WorkOK
<1> QED BY <1>1, <1>2, <1>3, CacheParts

\* What users, the informer and the events of ResourceBindings do
LEMMA OutsideCacheOK ==
  ASSUME CacheOK, HandlerStep \/ UserStep \/ \E n \in Names : Relist(n)
  PROVE  CacheOK'
<1> USE CacheParts
<1>1. ASSUME NEW n \in Names, Others(n) PROVE CacheOK'
  <2>1. PICK obj \in MCI \cup {NotFound} : Commit(n, obj)
    BY <1>1 DEF Others
  <2>2. /\ fresh' = (fresh /\ key # n)
        /\ UNCHANGED <<rb, rbEvents, queue, pc, key, mci, todo, svcLocations,
                       tries>>
    BY <1>1 DEF Others, Outdate, rbVars
  <2>3. ApiOK' /\ store' = [store EXCEPT ![n] = obj]
    BY <2>1, Committed
  <2>4. HandlersOK'
    BY <2>2 DEF HandlersOK
  <2>5. ASSUME fresh' PROVE store'[key] = mci
    <3>1. fresh /\ key # n
      BY <2>2, <2>5
    <3> QED BY <2>3, <3>1 DEF ApiOK, WorkOK
  <2>6. WorkOK'
    BY <2>2, <2>5 DEF WorkOK
  <2> QED BY <2>3, <2>4, <2>6
<1>2. ASSUME NEW n \in Names, Deliver(n) \/ Relist(n) PROVE CacheOK'
  <2>1. ApiOK' /\ queue' \subseteq Names /\ UNCHANGED <<store, rbVars, workVars>>
    BY <1>2, Observed DEF HandlersOK
  <2>2. HandlersOK'
    BY <2>1 DEF HandlersOK, rbVars
  <2>3. WorkOK'
    BY <2>1 DEF WorkOK, workVars
  <2> QED BY <2>1, <2>2, <2>3
<1>3. ASSUME NEW s \in Services, rbMapFunc(s) \/ ResourceBindingEvent(s)
      PROVE  CacheOK'
  <2>1. UNCHANGED apiVars /\ UNCHANGED workVars
    BY <1>3 DEF rbMapFunc, ResourceBindingEvent
  <2>2. ApiOK'
    BY <2>1 DEF ApiOK, Coherent, apiVars
  <2>3. WorkOK'
    BY <2>1 DEF WorkOK, workVars, apiVars
  <2>4. HandlersOK'
    BY <1>3 DEF rbMapFunc, ResourceBindingEvent, ReferTo, HandlersOK
  <2> QED BY <2>2, <2>3, <2>4
<1> QED BY <1>1, <1>2, <1>3 DEF HandlerStep, UserStep

\* What a call of the worker returns to
LEMMA ReturnCacheOK ==
  ASSUME CacheOK, pc # "idle", Return, ApiOK', UNCHANGED rbVars,
         queue' = queue \/ queue' = queue \cup {key}
  PROVE  CacheOK'
<1> USE CacheParts
<1>1. HandlersOK'
  BY DEF HandlersOK, WorkOK, rbVars
<1>2. WorkOK'
  BY ReturnType
<1> QED BY <1>1, <1>2

\* The locations that one more lookup makes
LEMMA LookupType ==
  ASSUME CacheOK, NEW s \in todo, rb[s] # NotFound
  PROVE  [t \in DOMAIN svcLocations \cup {s} |->
            IF t = s THEN obtainBindingClusters(rb[s]) ELSE svcLocations[t]]
           \in Locations
<1>1. s \in Services /\ rb[s] \in RBSpec
  BY LocationsAssumption DEF CacheOK, TypeOK
<1>2. obtainBindingClusters(rb[s]) \in SUBSET Clusters
  BY <1>1 DEF RBSpec, obtainBindingClusters
<1>3. PICK S \in SUBSET Services : svcLocations \in [S -> SUBSET Clusters]
  BY DEF CacheOK, TypeOK, Locations
<1>4. [t \in DOMAIN svcLocations \cup {s} |->
         IF t = s THEN obtainBindingClusters(rb[s]) ELSE svcLocations[t]]
        \in [S \cup {s} -> SUBSET Clusters]
  BY <1>2, <1>3
<1>5. S \cup {s} \in SUBSET Services
  BY <1>1
<1> QED BY <1>4, <1>5 DEF Locations

LEMMA WorkCacheOK ==
  ASSUME CacheOK, WorkStep \/ UpdateLocations(FALSE) \/ CallFails
  PROVE  CacheOK'
<1> USE CacheParts
<1>1. ASSUME UNCHANGED apiVars PROVE ApiOK'
  BY <1>1 DEF ApiOK, Coherent, apiVars
<1>2. ASSUME UNCHANGED rbVars, UNCHANGED queue PROVE HandlersOK'
  BY <1>2 DEF HandlersOK, rbVars
<1>3. ASSUME NEW n \in Names, Reconcile(n) PROVE CacheOK'
  <2>1. ApiOK'
    BY <1>1, <1>3 DEF Reconcile
  <2>2. HandlersOK'
    BY <1>3 DEF Reconcile, HandlersOK, rbVars
  <2>3. CASE cache[n] = NotFound
    <3>1. WorkOK'
      BY <1>3, <2>3 DEF Reconcile, WorkOK, apiVars
    <3> QED BY <2>1, <2>2, <3>1
  <2>4. CASE cache[n] # NotFound
    <3>1. /\ pc' = "getBinding" /\ key' = n
          /\ mci' = cache[n] /\ fresh' = (watch[n] = <<>>)
          /\ todo' = ServiceRefs[cache[n].cfg]
          /\ UNCHANGED <<store, svcLocations, tries>>
      BY <1>3, <2>4 DEF Reconcile, apiVars
    <3>2. cache[n] \in MCI
      BY <2>4 DEF ApiOK
    <3>3. fresh' \in BOOLEAN
      BY <3>1, Zenon
    <3>4. fresh' => store'[key'] = mci'
      BY <3>1 DEF ApiOK, Coherent
    <3>5. key' # NotFound /\ mci' # NotFound
      BY <2>4, <3>1, LocationsAssumption
    <3>6. todo' \subseteq Services
      BY <3>1, <3>2, LocationsAssumption
    <3>7. WorkOK'
      BY <3>1, <3>2, <3>3, <3>4, <3>5, <3>6 DEF WorkOK
    <3> QED BY <2>1, <2>2, <3>7
  <2> QED BY <2>1, <2>2, <2>3, <2>4
<1>4. CASE GetBinding
  <2>1. PICK s \in todo :
          /\ todo' = todo \ {s}
          /\ svcLocations' =
               IF rb[s] = NotFound THEN svcLocations
               ELSE [t \in DOMAIN svcLocations \cup {s} |->
                       IF t = s THEN obtainBindingClusters(rb[s])
                                ELSE svcLocations[t]]
    BY <1>4 DEF GetBinding
  <2>2. svcLocations' \in Locations
    BY <2>1, LookupType DEF WorkOK
  <2>3. UNCHANGED <<apiVars, rbVars, queue, pc, key, mci, fresh, tries>>
    BY <1>4 DEF GetBinding
  <2>4. WorkOK'
    BY <2>1, <2>2, <2>3 DEF WorkOK, apiVars
  <2> QED BY <1>1, <1>2, <2>3, <2>4
<1>5. CASE Calculated
  <2>1. WorkOK'
    BY <1>5 DEF Calculated, WorkOK, apiVars
  <2> QED BY <1>1, <1>2, <1>5, <2>1 DEF Calculated
<1>6. CASE NothingToUpdate
  BY <1>1, <1>6, ReturnCacheOK DEF NothingToUpdate, Done
<1>7. ASSUME NEW ok \in BOOLEAN, UpdateLocations(ok) PROVE CacheOK'
  <2>1. key \in Names /\ mci \in MCI
    BY <1>7 DEF UpdateLocations, WorkOK
  <2>2. [mci EXCEPT !.locations = svcLocations] \in MCI
    BY <2>1, LocationsAssumption DEF WorkOK
  <2>3. ApiOK'
    BY <1>7, <2>1, <2>2, Committed DEF UpdateLocations
  <2> QED BY <1>7, <2>3, ReturnCacheOK DEF UpdateLocations, Done, Requeue
<1>8. CASE RetryUpdate
  <2>1. UNCHANGED apiVars /\ UNCHANGED rbVars /\ pc = "update"
    BY <1>8 DEF RetryUpdate
  <2>2. CASE Done \/ Requeue
    BY <1>1, <2>1, <2>2, ReturnCacheOK DEF Done, Requeue
  <2>3. CASE ~(Done \/ Requeue)
    <3>1. /\ tries + 1 # RetrySteps /\ cache[key] # NotFound
          /\ tries' = tries + 1
          /\ mci' = cache[key] /\ fresh' = (watch[key] = <<>>)
          /\ UNCHANGED <<pc, key, todo, svcLocations, queue>>
      BY <1>8, <2>3 DEF RetryUpdate
    <3>2. key \in Names
      BY <2>1 DEF WorkOK
    <3>3. cache[key] \in MCI /\ (watch[key] = <<>> => store[key] = cache[key])
      BY <3>1, <3>2 DEF ApiOK, Coherent
    <3>4. fresh' \in BOOLEAN
      BY <3>1, Zenon
    <3>5. tries' \in 0 .. RetrySteps - 1
      BY <3>1, LocationsAssumption DEF WorkOK
    <3>6. fresh' => store'[key'] = mci'
      BY <2>1, <3>1, <3>3 DEF apiVars
    <3>7. WorkOK'
      BY <3>1, <3>2, <3>3, <3>4, <3>5, <3>6 DEF WorkOK
    <3> QED BY <1>1, <1>2, <2>1, <3>1, <3>7
  <2> QED BY <2>2, <2>3
<1>9. CASE CallFails
  BY <1>1, <1>9, ReturnCacheOK DEF CallFails, Requeue
<1> QED BY <1>3, <1>4, <1>5, <1>6, <1>7, <1>8, <1>9 DEF WorkStep

LEMMA RestartCacheOK ==
  ASSUME CacheOK, Restart
  PROVE  CacheOK'
<1> USE CacheParts
<1>1. ApiOK'
  BY EmptySeq DEF Restart, ApiOK, Coherent
<1>2. HandlersOK'
  BY DEF Restart, HandlersOK
<1>3. WorkOK'
  BY ReturnType DEF Restart
<1> QED BY <1>1, <1>2, <1>3

LEMMA NextCacheOK ==
  ASSUME CacheOK, [Next]_vars
  PROVE  CacheOK'
<1>1. CASE UNCHANGED vars
  BY <1>1 DEF vars, apiVars, rbVars, workVars, CacheOK, TypeOK, Coherent
<1> QED
  BY <1>1, OutsideCacheOK, WorkCacheOK, RestartCacheOK DEF Next, FaultStep

\* Every value keeps its type: the copy that the API server accepts an update
\* of is the live version, and no update is tried more than RetrySteps times.
THEOREM TypeCorrect == Spec => []TypeOK
<1>1. Init => CacheOK
  BY InitCacheOK
<1>2. CacheOK /\ [Next]_vars => CacheOK'
  BY NextCacheOK
<1>3. CacheOK => TypeOK
  BY DEF CacheOK
<1> QED BY <1>1, <1>2, <1>3, PTL DEF Spec
-----------------------------------------------------------------------------
\* A step leaves alone all that decides about the locations of n.
ViewKept(n) ==
  /\ Quiet(n)
  /\ Backends(n)' = Backends(n)
  /\ \A s \in Backends(n) :
       /\ rb'[s] = NotFound <=> rb[s] = NotFound
       /\ rb[s] # NotFound =>
            obtainBindingClusters(rb'[s]) = obtainBindingClusters(rb[s])
  /\ store'[n].locations = store[n].locations
  /\ LocationsShown(n) => LocationsShown(n)'

LEMMA ScheduledKept ==
  ASSUME NEW n \in Names, ViewKept(n), NEW S \in SUBSET Backends(n)
  PROVE  [s \in {t \in S : rb'[t] # NotFound} |-> obtainBindingClusters(rb'[s])]
           = ScheduledTo(S)
  BY DEF ViewKept, ScheduledTo

\* An MCI that the cache shows and that is not gone is there.
LEMMA KnownLive ==
  ASSUME ApiOK, NEW n \in Names, Known(n)
  PROVE  /\ cache[n] \in MCI /\ store[n] \in MCI /\ store[n] # NotFound
         /\ \A i \in 1 .. Len(watch[n]) : watch[n][i] \in MCI
<1>1. watch[n] \in Seq(MCI \cup {NotFound})
  BY DEF ApiOK
<1>2. \A i \in 1 .. Len(watch[n]) : watch[n][i] \in MCI
  BY <1>1, LenProperties DEF Known
<1>3. store[n] # NotFound
  <2>1. CASE watch[n] = <<>>
    BY <2>1 DEF ApiOK, Coherent, Known
  <2>2. CASE watch[n] # <<>>
    <3>1. Len(watch[n]) \in Nat \ {0}
      BY <1>1, <2>2, EmptySeq
    <3> QED BY <2>2, <3>1 DEF ApiOK, Coherent, Known
  <2> QED BY <2>1, <2>2
<1> QED BY <1>2, <1>3 DEF ApiOK, Known

\* Others do not write the locations of an MCI that is there.
LEMMA OthersKeepView ==
  ASSUME ApiOK, NEW m \in Names, Others(m), NEW n \in Names, Quiet(n)'
  PROVE  ViewKept(n)
<1>1. PICK obj \in MCI \cup {NotFound} :
        /\ obj # store[m]
        /\ obj # NotFound =>
             obj.locations = IF store[m] = NotFound THEN Nowhere
                                                    ELSE store[m].locations
        /\ Commit(m, obj)
  BY DEF Others
<1>2. /\ store' = [store EXCEPT ![m] = obj] /\ cache' = cache
      /\ \A k \in Names \ {m} : watch'[k] = watch[k]
      /\ \A i \in 1 .. Len(watch[m]) : watch'[m][i] = watch[m][i]
      /\ Len(watch'[m]) = Len(watch[m]) + 1
      /\ watch'[m][Len(watch[m]) + 1] = obj
  BY <1>1, Committed
<1>3. UNCHANGED <<rb, rbEvents, queue>>
  BY DEF Others, Outdate, rbVars
<1>4. CASE n # m
  <2>1. store'[n] = store[n] /\ watch'[n] = watch[n]
    BY <1>2, <1>4 DEF ApiOK
  <2> QED
    BY <1>2, <1>3, <2>1 DEF Quiet, Known, Backends, ViewKept, LocationsShown
<1>5. CASE n = m
  <2>1. Len(watch[n]) \in Nat
    BY LenProperties DEF ApiOK
  <2>2. /\ Len(watch[n]) + 1 \in 1 .. Len(watch'[n])
        /\ \A i \in 1 .. Len(watch[n]) : i \in 1 .. Len(watch'[n])
        /\ \A i \in 1 .. Len(watch'[n]) :
             i \in 1 .. Len(watch[n]) \/ i = Len(watch[n]) + 1
    BY <1>2, <1>5, <2>1
  <2>3. obj # NotFound
    BY <1>2, <1>5, <2>2 DEF Quiet, Known
  <2>4. Known(n)
    BY <1>2, <1>5, <2>2 DEF Quiet, Known
  <2>5. store[n] # NotFound
    BY <2>4, KnownLive
  <2>6. store'[n] = obj /\ obj.locations = store[n].locations
    BY <1>1, <1>2, <1>5, <2>3, <2>5 DEF ApiOK
  <2>7. LocationsShown(n) => LocationsShown(n)'
    BY <1>2, <1>5, <2>2, <2>6 DEF LocationsShown
  <2> QED
    BY <1>2, <1>3, <2>4, <2>6, <2>7 DEF Quiet, Backends, ViewKept
<1> QED BY <1>4, <1>5

\* An event that does not queue n shows the cache the same backends.
LEMMA ObservedKeepsView ==
  ASSUME ApiOK, InformerInTime, NEW m \in Names, Deliver(m) \/ Relist(m),
         NEW n \in Names, Quiet(n)'
  PROVE  ViewKept(n)
<1>1. /\ cache'[m] \in MCI \cup {NotFound}
      /\ queue' = IF mciPredicate(cache[m], cache'[m]) THEN queue \cup {m}
                                                       ELSE queue
      /\ \A k \in Names \ {m} : watch'[k] = watch[k] /\ cache'[k] = cache[k]
      /\ UNCHANGED <<store, rb, rbEvents>>
  BY Observed DEF rbVars
<1>2. CASE n # m
  BY <1>1, <1>2 DEF Quiet, Known, Backends, ViewKept, LocationsShown
<1>3. CASE n = m
  <2>1. cache'[n] # NotFound /\ n \notin queue /\ ~mciPredicate(cache[n], cache'[n])
    BY <1>1, <1>3 DEF Quiet, Known
  <2>2. cache[n] # NotFound /\ Rules[cache[n].cfg] = Rules[cache'[n].cfg]
    BY <2>1 DEF mciPredicate
  <2>3. cache[n] \in MCI /\ cache'[n] \in MCI
    BY <1>1, <1>3, <2>1, <2>2 DEF ApiOK
  <2>4. Backends(n)' = Backends(n)
    BY <2>2, <2>3, LocationsAssumption DEF Backends
  <2>5. watch[n] \in Seq(MCI \cup {NotFound})
    BY DEF ApiOK
  <2>6. Known(n) /\ (LocationsShown(n) => LocationsShown(n)')
    <3>1. CASE Deliver(m)
      <4>1. /\ watch[n] # <<>> /\ cache'[n] = Head(watch[n])
            /\ watch'[n] = Tail(watch[n])
        BY <1>3, <3>1 DEF Deliver, Observe, ApiOK
      <4>2. /\ Head(watch[n]) = watch[n][1]
            /\ Len(watch[n]) \in Nat \ {0}
            /\ \A i \in 1 .. Len(Tail(watch[n])) :
                 i + 1 \in 1 .. Len(watch[n]) /\ Tail(watch[n])[i] = watch[n][i + 1]
        BY <2>5, <4>1, RestOfChannel
      <4>3. \A i \in 1 .. Len(watch[n]) :
              i = 1 \/ \E j \in 1 .. Len(Tail(watch[n])) : j + 1 = i
        <5>1. Len(Tail(watch[n])) = Len(watch[n]) - 1
          BY <2>5, <4>1, HeadTailProperties
        <5> DEFINE k == Len(watch[n])
        <5>2. k \in Nat \ {0}
          BY <4>2
        <5> HIDE DEF k
        <5>3. ASSUME NEW i \in 1 .. k, i # 1
              PROVE  i - 1 \in 1 .. k - 1 /\ i - 1 + 1 = i
          BY <5>2, <5>3
        <5> QED BY <5>1, <5>3 DEF k
      <4>4. \A i \in 1 .. Len(watch[n]) : watch[n][i] # NotFound
        BY <2>1, <4>1, <4>2, <4>3 DEF Quiet, Known
      <4>5. LocationsShown(n) => LocationsShown(n)'
        <5>1. 1 \in 1 .. Len(watch[n])
          BY <4>2
        <5> QED BY <1>1, <4>1, <4>2, <5>1 DEF LocationsShown
      <4> QED BY <2>2, <4>4, <4>5 DEF Known
    <3>2. CASE Relist(m)
      <4>1. ~Recreated(n) /\ cache'[n] = store[n] /\ watch'[n] = <<>>
        BY <1>3, <3>2 DEF Relist, Observe, InformerInTime, ApiOK
      <4>2. Known(n)
        BY <2>1, <2>2, <4>1 DEF Recreated, Known
      <4>3. Len(<<>>) = 0
        OBVIOUS
      <4>4. LocationsShown(n)'
        BY <1>1, <4>1, <4>3 DEF LocationsShown
      <4> QED BY <4>2, <4>4
    <3> QED BY <3>1, <3>2
  <2> QED BY <1>1, <2>1, <2>4, <2>6 DEF Quiet, ViewKept, Backends
<1> QED BY <1>2, <1>3

\* An event of a ResourceBinding that concerns n is kept for the map function,
\* and the map function queues n.
LEMMA BindingKeepsView ==
  ASSUME CacheOK, NEW s \in Services, rbMapFunc(s) \/ ResourceBindingEvent(s),
         NEW n \in Names, Quiet(n)'
  PROVE  ViewKept(n)
<1>1. UNCHANGED apiVars
  BY DEF rbMapFunc, ResourceBindingEvent
<1>2. Known(n) /\ Backends(n)' = Backends(n) /\ UNCHANGED store
  BY <1>1 DEF apiVars, Quiet, Known, Backends
<1>3. LocationsShown(n) => LocationsShown(n)'
  BY <1>1 DEF apiVars, LocationsShown
<1>4. CASE rbMapFunc(s)
  <2>1. /\ rbEvents' = rbEvents \ {s} /\ queue' = queue \cup ReferTo(s) /\ rb' = rb
    BY <1>4 DEF rbMapFunc
  <2>2. s \notin Backends(n)
    BY <1>2, <2>1 DEF Quiet, ReferTo, Backends, Known
  <2> QED BY <1>2, <1>3, <2>1, <2>2 DEF Quiet, ViewKept
<1>5. CASE ResourceBindingEvent(s)
  <2>1. PICK new \in (Bindings \cup {NotFound}) \ {rb[s]} :
          /\ rb' = [rb EXCEPT ![s] = new]
          /\ rbEvents' = IF rbPredicate(rb[s], new) THEN rbEvents \cup {s}
                                                    ELSE rbEvents
    BY <1>5 DEF ResourceBindingEvent
  <2>2. queue' = queue
    BY <1>5 DEF ResourceBindingEvent
  <2>3. Quiet(n)
    BY <1>2, <2>1, <2>2 DEF Quiet
  <2>4. rb'[s] = new /\ \A t \in Services \ {s} : rb'[t] = rb[t]
    BY <2>1 DEF CacheOK, TypeOK
  <2>5. Backends(n) \subseteq Services
    BY <2>3, CacheParts, KnownLive, LocationsAssumption DEF Quiet, Backends
  <2>6. s \in Backends(n) => ~rbPredicate(rb[s], new)
    BY <1>2, <2>1 DEF Quiet
  <2>7. \A t \in Backends(n) :
          /\ rb'[t] = NotFound <=> rb[t] = NotFound
          /\ rb[t] # NotFound =>
               obtainBindingClusters(rb'[t]) = obtainBindingClusters(rb[t])
    BY <2>4, <2>5, <2>6 DEF rbPredicate, obtainBindingClusters
  <2> QED BY <1>2, <1>3, <2>3, <2>7 DEF ViewKept
<1> QED BY <1>4, <1>5
-----------------------------------------------------------------------------
LocationsOK == /\ Phases
               /\ \A n \in Names : Located(n)
               /\ LocatedSoFar

\* A step outside the worker, whose work it leaves alone
LEMMA ViewKeptLocationsOK ==
  ASSUME IInv, CacheOK', UNCHANGED <<pc, key, mci, todo, svcLocations>>,
         \A n \in Names : Quiet(n)' => ViewKept(n)
  PROVE  LocationsOK'
<1>1. Phases'
  BY DEF IInv, Phases
<1>2. ASSUME NEW n \in Names PROVE Located(n)'
  <2> SUFFICES ASSUME Quiet(n)', pc = "idle" \/ key # n
               PROVE  store'[n].locations = ScheduledTo(Backends(n))'
    BY DEF Located
  <2>1. ViewKept(n)
    OBVIOUS
  <2>2. store[n].locations = ScheduledTo(Backends(n))
    BY <2>1 DEF IInv, Located, ViewKept
  <2>3. ScheduledTo(Backends(n))' = ScheduledTo(Backends(n))
    <3>1. Backends(n) \in SUBSET Backends(n)
      OBVIOUS
    <3>2. [s \in {t \in Backends(n) : rb'[t] # NotFound} |->
             obtainBindingClusters(rb'[s])] = ScheduledTo(Backends(n))
      BY <2>1, <3>1, ScheduledKept
    <3> QED BY <2>1, <3>2 DEF ViewKept, ScheduledTo
  <2> QED BY <2>1, <2>2, <2>3 DEF ViewKept
<1>3. LocatedSoFar'
  <2> SUFFICES ASSUME pc # "idle", Quiet(key)'
               PROVE  /\ todo \subseteq Backends(key)'
                      /\ svcLocations = ScheduledTo(Backends(key) \ todo)'
                      /\ mci.locations = store'[key].locations
                      /\ LocationsShown(key)'
    BY DEF LocatedSoFar
  <2>1. key \in Names
    BY DEF IInv, CacheOK, TypeOK
  <2>2. ViewKept(key)
    BY <2>1
  <2>3. /\ todo \subseteq Backends(key)
        /\ svcLocations = ScheduledTo(Backends(key) \ todo)
        /\ mci.locations = store[key].locations
        /\ LocationsShown(key)
    BY <2>2 DEF IInv, LocatedSoFar, ViewKept
  <2>4. ScheduledTo(Backends(key) \ todo)' = ScheduledTo(Backends(key) \ todo)
    <3>1. Backends(key) \ todo \in SUBSET Backends(key)
      OBVIOUS
    <3>2. [s \in {t \in Backends(key) \ todo : rb'[t] # NotFound} |->
             obtainBindingClusters(rb'[s])] = ScheduledTo(Backends(key) \ todo)
      BY <2>1, <2>2, <3>1, ScheduledKept
    <3> QED BY <2>2, <3>2 DEF ViewKept, ScheduledTo
  <2> QED BY <2>2, <2>3, <2>4 DEF ViewKept
<1> QED BY <1>1, <1>2, <1>3 DEF LocationsOK

LEMMA OutsideLocationsOK ==
  ASSUME IInv, InformerInTime,
         HandlerStep \/ UserStep \/ \E n \in Names : Relist(n)
  PROVE  LocationsOK'
<1>1. CacheOK' /\ ApiOK
  BY OutsideCacheOK, CacheParts DEF IInv
<1>2. UNCHANGED <<pc, key, mci, todo, svcLocations>>
  BY DEF HandlerStep, UserStep, Deliver, Relist, Observe, rbMapFunc, Others,
         Outdate, ResourceBindingEvent, workVars
<1>3. ASSUME NEW n \in Names, Quiet(n)' PROVE ViewKept(n)
  BY <1>1, <1>3, OthersKeepView, ObservedKeepsView, BindingKeepsView
  DEF HandlerStep, UserStep, IInv
<1> QED BY <1>1, <1>2, <1>3, ViewKeptLocationsOK

\* The worker returns: key is queued again or has its locations.
LEMMA ReturnLocationsOK ==
  ASSUME IInv, pc # "idle", Return, UNCHANGED <<cache, rb, rbEvents>>,
         \A n \in Names \ {key} : store'[n] = store[n] /\ watch'[n] = watch[n],
         \/ queue' = queue \cup {key}
         \/ /\ queue' = queue
            /\ \A n \in Names : n = key /\ Quiet(n)' =>
                 store'[n].locations = ScheduledTo(Backends(n))
  PROVE  LocationsOK'
<1>1. pc' = "idle" /\ svcLocations' = Nowhere
  BY DEF Return
<1>2. key \in Names
  BY DEF IInv, CacheOK, TypeOK
<1>3. ASSUME NEW n \in Names PROVE Located(n)'
  <2>1. Backends(n)' = Backends(n) /\ ScheduledTo(Backends(n))' = ScheduledTo(Backends(n))
    BY DEF Backends, ScheduledTo
  <2>2. CASE n = key
    BY <2>1, <2>2 DEF Located, Quiet
  <2>3. CASE n # key
    <3>1. Quiet(n)' => Quiet(n)
      BY <2>1, <2>3 DEF Quiet, Known
    <3> QED BY <2>1, <2>3, <3>1 DEF IInv, Located
  <2> QED BY <2>2, <2>3
<1> QED BY <1>1, <1>3 DEF LocationsOK, Phases, LocatedSoFar

\* The worker takes n from the queue, with the cache as it is.
LEMMA ReconcileLocationsOK ==
  ASSUME IInv, InformerInTime, NEW n \in Names, Reconcile(n)
  PROVE  LocationsOK'
<1>1. /\ pc = "idle" /\ n \in queue /\ queue' = queue \ {n}
      /\ OwnWritesCached(n)
      /\ UNCHANGED <<store, watch, cache, rb, rbEvents, svcLocations>>
      /\ svcLocations = Nowhere
  BY DEF Reconcile, InformerInTime, apiVars, rbVars, IInv, Phases
<1>2. /\ \A m \in Names : Backends(m)' = Backends(m)
      /\ \A m \in Names : ScheduledTo(Backends(m))' = ScheduledTo(Backends(m))
  BY <1>1 DEF Backends, ScheduledTo
<1>3. ASSUME NEW m \in Names \ {n} PROVE Located(m)'
  BY <1>1, <1>2 DEF Located, Quiet, Known, IInv
<1>4. CASE cache[n] = NotFound
  <2>1. UNCHANGED <<pc, key, todo>>
    BY <1>4 DEF Reconcile
  <2>2. ~Known(n)'
    BY <1>1, <1>4 DEF Known
  <2> QED
    BY <1>1, <1>3, <2>1, <2>2
    DEF LocationsOK, Phases, Located, LocatedSoFar, Quiet
<1>5. CASE cache[n] # NotFound
  <2>1. /\ pc' = "getBinding" /\ key' = n /\ mci' = cache[n]
        /\ todo' = Backends(n)
    BY <1>5 DEF Reconcile, Backends
  <2>2. LocatedSoFar'
    <3> SUFFICES ASSUME Quiet(n)'
                 PROVE  /\ svcLocations' = ScheduledTo(Backends(n) \ todo)'
                        /\ mci'.locations = store'[n].locations
                        /\ LocationsShown(n)'
      BY <1>1, <1>2, <2>1
      DEF LocatedSoFar, LocationsShown, Quiet, Known, Backends, ScheduledTo
    <3>1. Known(n)
      BY <1>1 DEF Quiet, Known
    <3>2. \A i \in 1 .. Len(watch[n]) : watch[n][i].locations = cache[n].locations
      BY <1>1, <3>1 DEF OwnWritesCached, Known
    <3>3. store[n].locations = cache[n].locations
      <4>1. CASE watch[n] = <<>>
        BY <4>1 DEF IInv, CacheOK, Coherent
      <4>2. CASE watch[n] # <<>>
        <5>1. Len(watch[n]) \in Nat \ {0}
          BY <4>2, EmptySeq DEF IInv, CacheOK, TypeOK
        <5> QED BY <3>2, <4>2, <5>1 DEF IInv, CacheOK, Coherent
      <4> QED BY <4>1, <4>2
    <3>4. ScheduledTo(Backends(n) \ todo)' = Nowhere
      BY <1>1, <1>2, <2>1 DEF ScheduledTo, Nowhere
    <3> QED BY <1>1, <2>1, <3>2, <3>3, <3>4 DEF LocationsShown
  <2>3. Located(n)'
    BY <2>1 DEF Located
  <2> QED BY <1>3, <2>1, <2>2, <2>3 DEF LocationsOK, Phases
<1> QED BY <1>4, <1>5

\* One more binding is looked up.
LEMMA GetBindingLocationsOK ==
  ASSUME IInv, GetBinding
  PROVE  LocationsOK'
<1>1. PICK s \in todo :
        /\ todo' = todo \ {s}
        /\ svcLocations' =
             IF rb[s] = NotFound THEN svcLocations
             ELSE [t \in DOMAIN svcLocations \cup {s} |->
                     IF t = s THEN obtainBindingClusters(rb[s])
                              ELSE svcLocations[t]]
  BY DEF GetBinding
<1>2. /\ UNCHANGED <<store, watch, cache, rb, rbEvents, queue, pc, key, mci>>
      /\ pc = "getBinding"
  BY DEF GetBinding, apiVars, rbVars
<1>3. \A n \in Names : Located(n)'
  BY <1>2 DEF Located, Quiet, Known, Backends, ScheduledTo, IInv
<1>4. LocatedSoFar'
  <2> SUFFICES ASSUME Quiet(key)
               PROVE  /\ todo' \subseteq Backends(key)
                      /\ svcLocations' = ScheduledTo(Backends(key) \ todo')
                      /\ mci.locations = store[key].locations
                      /\ LocationsShown(key)
    BY <1>2
    DEF LocatedSoFar, LocationsShown, Quiet, Known, Backends, ScheduledTo
  <2>1. /\ todo \subseteq Backends(key)
        /\ svcLocations = ScheduledTo(Backends(key) \ todo)
        /\ mci.locations = store[key].locations
        /\ LocationsShown(key)
    BY <1>2 DEF IInv, LocatedSoFar
  <2>2. Backends(key) \ todo' = (Backends(key) \ todo) \cup {s}
    BY <1>1, <2>1
  <2>3. ScheduledTo(Backends(key) \ todo') = svcLocations'
    BY <1>1, <2>1, <2>2 DEF ScheduledTo
  <2> QED BY <1>1, <2>1, <2>3
<1>5. Phases'
  BY <1>2 DEF Phases
<1> QED BY <1>3, <1>4, <1>5 DEF LocationsOK

\* The update is written, or the worker returns without one.
LEMMA UpdateLocationsOK ==
  ASSUME IInv, NEW ok \in BOOLEAN, UpdateLocations(ok)
  PROVE  LocationsOK'
<1>1. /\ pc = "update" /\ fresh /\ Return
      /\ Commit(key, [mci EXCEPT !.locations = svcLocations])
      /\ queue' = IF ok THEN queue ELSE queue \cup {key}
      /\ UNCHANGED <<rb, rbEvents>>
  BY DEF UpdateLocations, Accepted, Done, Requeue, rbVars
<1>2. ApiOK /\ key \in Names /\ mci \in MCI /\ svcLocations \in Locations
  BY <1>1 DEF IInv, CacheOK, TypeOK, ApiOK
<1> DEFINE new == [mci EXCEPT !.locations = svcLocations]
<1>3. new \in MCI /\ new.locations = svcLocations
  BY <1>2, LocationsAssumption
<1> HIDE DEF new
<1>4. /\ store' = [store EXCEPT ![key] = new] /\ cache' = cache
      /\ \A n \in Names \ {key} : watch'[n] = watch[n]
      /\ \A i \in 1 .. Len(watch[key]) : watch'[key][i] = watch[key][i]
      /\ \/ watch'[key] = watch[key]
         \/ Len(watch'[key]) = Len(watch[key]) + 1
  BY <1>1, <1>2, <1>3, Committed DEF new
<1>5. ASSUME NEW n \in Names, n = key, Quiet(n)', queue' = queue
      PROVE  store'[n].locations = ScheduledTo(Backends(n))
  <2>1. Len(watch[n]) \in Nat
    BY <1>2, LenProperties DEF ApiOK
  <2>2. \A i \in 1 .. Len(watch[n]) : i \in 1 .. Len(watch'[n])
    BY <1>4, <1>5, <2>1
  <2>3. Quiet(n)
    BY <1>1, <1>4, <1>5, <2>2 DEF Quiet, Known, Backends
  <2>4. svcLocations = ScheduledTo(Backends(n) \ todo) /\ todo = {}
    BY <1>1, <1>5, <2>3 DEF IInv, LocatedSoFar, Phases
  <2>5. Backends(n) \ todo = Backends(n)
    BY <2>4
  <2> QED BY <1>2, <1>3, <1>4, <1>5, <2>4, <2>5 DEF ApiOK
<1>6. \A n \in Names \ {key} : store'[n] = store[n]
  BY <1>2, <1>4 DEF ApiOK
<1> QED BY <1>1, <1>4, <1>5, <1>6, ReturnLocationsOK

\* The worker goes on, or gives up, without a write.
LEMMA NoUpdateLocationsOK ==
  ASSUME IInv, Calculated \/ NothingToUpdate \/ RetryUpdate \/ CallFails
  PROVE  LocationsOK'
<1>1. UNCHANGED <<store, watch, cache, rb, rbEvents>> /\ pc # "idle"
  BY DEF Calculated, NothingToUpdate, RetryUpdate, CallFails, apiVars, rbVars
<1>2. key \in Names
  BY <1>1 DEF IInv, CacheOK, TypeOK
<1>3. \A n \in Names \ {key} : store'[n] = store[n] /\ watch'[n] = watch[n]
  BY <1>1
<1>4. CASE Calculated
  <2>1. /\ todo = {} /\ pc' = "update"
        /\ UNCHANGED <<queue, key, mci, todo, svcLocations>>
    BY <1>4 DEF Calculated
  <2> QED
    BY <1>1, <2>1
    DEF IInv, LocationsOK, Phases, Located, LocatedSoFar, LocationsShown,
        Quiet, Known, Backends, ScheduledTo
<1>5. CASE NothingToUpdate
  <2>1. /\ pc = "update" /\ svcLocations = mci.locations
        /\ Return /\ queue' = queue
    BY <1>5 DEF NothingToUpdate, InSync, Done
  <2>2. ASSUME NEW n \in Names, n = key, Quiet(n)'
        PROVE  store'[n].locations = ScheduledTo(Backends(n))
    <3>1. Quiet(n)
      BY <1>1, <2>1, <2>2 DEF Quiet, Known, Backends
    <3>2. /\ svcLocations = ScheduledTo(Backends(n) \ todo) /\ todo = {}
          /\ mci.locations = store[n].locations
      BY <2>1, <2>2, <3>1 DEF IInv, LocatedSoFar, Phases
    <3>3. Backends(n) \ todo = Backends(n)
      BY <3>2
    <3> QED BY <1>1, <2>1, <3>2, <3>3
  <2> QED BY <1>1, <1>3, <2>1, <2>2, ReturnLocationsOK
<1>6. CASE RetryUpdate
  <2>1. CASE Requeue
    BY <1>1, <1>3, <2>1, ReturnLocationsOK DEF Requeue
  <2>2. CASE cache[key] = NotFound /\ Done
    <3>1. ASSUME NEW n \in Names, n = key PROVE ~Quiet(n)'
      BY <1>1, <2>2, <3>1 DEF Quiet, Known
    <3> QED BY <1>1, <1>3, <2>2, <3>1, ReturnLocationsOK DEF Done
  <2>3. CASE ~Requeue /\ ~(cache[key] = NotFound /\ Done)
    <3>1. /\ mci' = cache[key]
          /\ UNCHANGED <<pc, key, todo, svcLocations, queue>>
      BY <1>6, <2>3 DEF RetryUpdate
    <3>2. \A n \in Names : Located(n)'
      BY <1>1, <3>1 DEF Located, Quiet, Known, Backends, ScheduledTo, IInv
    <3>3. LocatedSoFar'
      BY <1>1, <3>1
      DEF IInv, LocatedSoFar, LocationsShown, Quiet, Known, Backends,
          ScheduledTo
    <3>4. Phases'
      BY <3>1 DEF IInv, Phases
    <3> QED BY <3>2, <3>3, <3>4 DEF LocationsOK
  <2> QED BY <2>1, <2>2, <2>3
<1>7. CASE CallFails
  BY <1>1, <1>3, <1>7, ReturnLocationsOK DEF CallFails, Requeue
<1> QED BY <1>4, <1>5, <1>6, <1>7

LEMMA RestartLocationsOK ==
  ASSUME IInv, Restart
  PROVE  LocationsOK'
<1>1. ASSUME NEW n \in Names, Known(n)' PROVE n \in queue'
  BY <1>1 DEF Restart, Known, mciPredicate
<1>2. pc' = "idle" /\ svcLocations' = Nowhere
  BY DEF Restart, Return
<1> QED
  BY <1>1, <1>2 DEF LocationsOK, Phases, Located, LocatedSoFar, Quiet

LEMMA InitIInv ==
  ASSUME Init
  PROVE  IInv
<1>1. \A n \in Names : ~Known(n)
  BY DEF Init, Known
<1> QED
  BY <1>1, InitCacheOK
  DEF Init, IInv, Phases, Located, LocatedSoFar, Quiet

LEMMA NextIInv ==
  ASSUME IInv, InformerInTime, [Next]_vars
  PROVE  IInv'
<1>1. CacheOK'
  BY NextCacheOK DEF IInv
<1>2. CASE UNCHANGED vars
  BY <1>1, <1>2
  DEF vars, apiVars, rbVars, workVars, IInv, Phases, Located, LocatedSoFar,
      LocationsShown, Quiet, Known, Backends, ScheduledTo
<1>3. CASE Next
  <2>1. LocationsOK'
    BY <1>3, OutsideLocationsOK, ReconcileLocationsOK, GetBindingLocationsOK,
       UpdateLocationsOK, NoUpdateLocationsOK, RestartLocationsOK
    DEF Next, WorkStep, FaultStep
  <2> QED BY <1>1, <2>1 DEF IInv, LocationsOK
<1> QED BY <1>2, <1>3
-----------------------------------------------------------------------------
\* With nothing pending the cache shows the live version, whose locations are
\* right.
LEMMA SettledLocated ==
  ASSUME IInv
  PROVE  LocationsNotForgotten
<1> SUFFICES ASSUME NEW n \in Names, store[n] # NotFound, ~Pending(n)
             PROVE  store[n].locations = Expected(n)
  BY DEF LocationsNotForgotten
<1>1. /\ n \notin queue /\ (pc = "idle" \/ key # n) /\ watch[n] = <<>>
      /\ rbEvents \cap ServiceRefs[store[n].cfg] = {}
  BY DEF Pending
<1>2. cache[n] = store[n]
  BY <1>1 DEF IInv, CacheOK, Coherent
<1>3. Len(<<>>) = 0
  OBVIOUS
<1>4. Quiet(n)
  BY <1>1, <1>2, <1>3 DEF Quiet, Known, Backends
<1>5. store[n].locations = ScheduledTo(ServiceRefs[store[n].cfg])
  BY <1>1, <1>2, <1>4 DEF IInv, Located, Backends
<1>6. ASSUME NEW s \in ServiceRefs[store[n].cfg], rb[s] # NotFound
      PROVE  obtainBindingClusters(rb[s]) =
               {c \in Clusters : c \in rb[s].clusters \/ c \in rb[s].requiredBy}
  <2>1. s \in Services
    BY LocationsAssumption DEF IInv, CacheOK, TypeOK
  <2>2. rb[s] \in RBSpec
    BY <1>6, <2>1, LocationsAssumption DEF IInv, CacheOK, TypeOK
  <2> QED BY <2>2 DEF RBSpec, obtainBindingClusters
<1> QED BY <1>5, <1>6 DEF ScheduledTo, Expected

\* An MCI whose backends moved is never forgotten: its status has the clusters
\* of the backends it has now, or something that leads to a reconcile is
\* pending, whatever was lost, retried or read from an old cache on the way, as
\* long as the cache shows the controller its own last write before the next
\* reconcile and never takes an MCI that was created again for an update.
THEOREM LocationsKept ==
  ASSUME InformerInTime
  PROVE  Spec => []LocationsNotForgotten
<1>1. Init => IInv
  BY InitIInv
<1>2. IInv /\ [Next]_vars => IInv'
  BY NextIInv
<1>3. IInv => LocationsNotForgotten
  BY SettledLocated
<1> QED BY <1>1, <1>2, <1>3, PTL DEF Spec
=============================================================================
