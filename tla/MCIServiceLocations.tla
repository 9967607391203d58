------------------------- MODULE MCIServiceLocations -------------------------
(***************************************************************************)
(* The MCI service locations controller: it keeps in                       *)
(* status.serviceLocations of every MultiClusterIngress the clusters that  *)
(* its backend Services are scheduled to.  store, watch, cache and fresh   *)
(* are those of MCIController, which writes other parts of the same        *)
(* objects; here these writes are Others.  ResourceBindings are shown as   *)
(* the manager's cache has them; their map function reads the cache of     *)
(* MCIs, so it is a step of its own.                                       *)
(***************************************************************************)
EXTENDS Naturals, Sequences

CONSTANTS
  Names,                  \* MultiClusterIngresses
  MCI,                    \* their objects, with fields cfg and locations
  Services, ServiceRefs,  \* as in MCIController
  Rules,                  \* Rules[c]: default backend and rules of c
  Clusters,               \* member clusters
  Bindings,               \* specs that ResourceBindings of Services may have
  NotFound,               \* in place of an object that does not exist
  RetrySteps,             \* attempts of retry.RetryOnConflict
  MaxLag,                 \* bound: nobody writes n while MaxLag events wait
  Assumes                 \* what the informer does in time

RBSpec == [clusters : SUBSET Clusters, requiredBy : SUBSET Clusters]
Locations == UNION {[S -> SUBSET Clusters] : S \in SUBSET Services}

ASSUME LocationsAssumption ==
  /\ \A m \in MCI : m.locations \in Locations
                    /\ ServiceRefs[m.cfg] \subseteq Services
  /\ \A m1, m2 \in MCI : Rules[m1.cfg] = Rules[m2.cfg] =>
                           ServiceRefs[m1.cfg] = ServiceRefs[m2.cfg]
  \* A status update changes nothing else.
  /\ \A m \in MCI, l \in Locations :
       LET new == [m EXCEPT !.locations = l]
       IN  new \in MCI /\ new.cfg = m.cfg /\ new.locations = l
  /\ Bindings \subseteq RBSpec
  /\ NotFound \notin MCI \cup RBSpec \cup Names
  /\ RetrySteps \in Nat \ {0} /\ MaxLag \in Nat \ {0}
  /\ Assumes \subseteq {"ownWritesCached", "recreationSeen"}

VARIABLES
  store, watch, cache,    \* the MCIs in the API server, and the informer
  rb,                     \* ResourceBindings, as the cache shows them
  rbEvents,               \* Services whose ResourceBinding the map function
                          \* is still to be called for
  queue,                  \* the work queue
  pc, key,                \* next call of the one worker, and its MCI
  mci, fresh,             \* its copy; has it the live version?
  todo, svcLocations,     \* backends still to be looked up, and the result
  tries                   \* attempts of the update under way

apiVars == <<store, watch, cache>>
rbVars == <<rb, rbEvents>>
workVars == <<pc, key, mci, fresh, todo, svcLocations, tries>>
vars == <<apiVars, rbVars, queue, workVars>>

Nowhere == [s \in {} |-> {}]

TypeOK ==
  /\ store \in [Names -> MCI \cup {NotFound}]
  /\ watch \in [Names -> Seq(MCI \cup {NotFound})]
  /\ cache \in [Names -> MCI \cup {NotFound}]
  /\ rb \in [Services -> Bindings \cup {NotFound}]
  /\ rbEvents \subseteq Services
  /\ queue \subseteq Names
  /\ pc \in {"idle", "getBinding", "update"}
  /\ key \in Names \cup {NotFound}
  /\ mci \in MCI \cup {NotFound} /\ fresh \in BOOLEAN
  /\ todo \subseteq Services /\ svcLocations \in Locations
  /\ tries \in 0 .. RetrySteps - 1
  /\ pc # "idle" => key # NotFound /\ mci # NotFound
  /\ fresh => store[key] = mci

Init ==
  /\ store = [n \in Names |-> NotFound]
  /\ watch = [n \in Names |-> <<>>]
  /\ cache = [n \in Names |-> NotFound]
  /\ rb = [s \in Services |-> NotFound] /\ rbEvents = {}
  /\ queue = {}
  /\ pc = "idle" /\ key = NotFound
  /\ mci = NotFound /\ fresh = FALSE
  /\ todo = {} /\ svcLocations = Nowhere /\ tries = 0
-----------------------------------------------------------------------------
(***************************************************************************)
(* The API server (external), and the other writers of MCIs.               *)
(***************************************************************************)

Commit(n, obj) ==
  /\ Len(watch[n]) < MaxLag
  /\ store' = [store EXCEPT ![n] = obj]
  /\ watch' = IF obj = store[n] THEN watch
              ELSE [watch EXCEPT ![n] = Append(@, obj)]
  /\ UNCHANGED cache

\* The worker's copy of n has the live version no more.
Outdate(n) ==
  /\ fresh' = (fresh /\ key # n)
  /\ UNCHANGED <<rbVars, queue, pc, key, mci, todo, svcLocations, tries>>

\* Users and the MCI controller leave the locations as they are.
Others(n) ==
  /\ \E obj \in (MCI \cup {NotFound}) \ {store[n]} :
       /\ obj # NotFound =>
            obj.locations = IF store[n] = NotFound THEN Nowhere
                                                   ELSE store[n].locations
       /\ Commit(n, obj)
  /\ Outdate(n)
-----------------------------------------------------------------------------
(***************************************************************************)
(* Predicates and map function of SetupWithManager.                        *)
(***************************************************************************)

\* Mutant: updates are filtered out.
mciPredicate_CreateOnly(old, new) == old = NotFound /\ new # NotFound

mciPredicate(old, new) ==
  /\ new # NotFound
  /\ old # NotFound => Rules[old.cfg] # Rules[new.cfg]

Observe(n, new) ==
  /\ cache' = [cache EXCEPT ![n] = new]
  /\ queue' = IF mciPredicate(cache[n], new) THEN queue \cup {n} ELSE queue
  /\ UNCHANGED <<store, rbVars, workVars>>

Deliver(n) ==
  /\ watch[n] # <<>>
  /\ Observe(n, Head(watch[n]))
  /\ watch' = [watch EXCEPT ![n] = Tail(@)]

\* The cache has an MCI that was deleted and created again.
Recreated(n) ==
  /\ cache[n] # NotFound /\ store[n] # NotFound
  /\ \E i \in 1 .. Len(watch[n]) : watch[n][i] = NotFound

\* The watch broke: a new list replaces what was not delivered.
Relist(n) ==
  /\ Len(watch[n]) > 1
  /\ "recreationSeen" \in Assumes => ~Recreated(n)
  /\ Observe(n, store[n])
  /\ watch' = [watch EXCEPT ![n] = <<>>]

\* rbPredicateFuncs: all but an update of neither clusters nor requiredBy
rbPredicate(old, new) ==
  \/ NotFound \in {old, new}
  \/ old.clusters # new.clusters
  \/ old.requiredBy # new.requiredBy

ResourceBindingEvent(s) ==
  /\ \E new \in (Bindings \cup {NotFound}) \ {rb[s]} :
       /\ rb' = [rb EXCEPT ![s] = new]
       /\ rbEvents' = IF rbPredicate(rb[s], new) THEN rbEvents \cup {s}
                                                 ELSE rbEvents
  /\ UNCHANGED <<apiVars, queue, workVars>>

\* The cached MCIs by their backends
ReferTo(s) == {n \in Names : cache[n] # NotFound /\ s \in ServiceRefs[cache[n].cfg]}

rbMapFunc(s) ==
  /\ s \in rbEvents
  /\ rbEvents' = rbEvents \ {s}
  /\ queue' = queue \cup ReferTo(s)
  /\ UNCHANGED <<apiVars, rb, workVars>>
-----------------------------------------------------------------------------
(***************************************************************************)
(* Reconcile.                                                              *)
(***************************************************************************)

Return ==
  /\ pc' = "idle" /\ key' = NotFound
  /\ mci' = NotFound /\ fresh' = FALSE
  /\ todo' = {} /\ svcLocations' = Nowhere /\ tries' = 0
Done == Return /\ UNCHANGED queue
Requeue == Return /\ queue' = queue \cup {key}

\* The cache shows this controller's own writes to n.
OwnWritesCached(n) ==
  \A i \in 1 .. Len(watch[n]) :
    NotFound \notin {cache[n], watch[n][i]} =>
      watch[n][i].locations = cache[n].locations

Reconcile(n) ==
  /\ pc = "idle"
  /\ n \in queue
  /\ "ownWritesCached" \in Assumes => OwnWritesCached(n)
  /\ queue' = queue \ {n}
  /\ IF cache[n] = NotFound
     THEN UNCHANGED <<pc, key, mci, fresh, todo>>
     ELSE /\ pc' = "getBinding" /\ key' = n
          /\ mci' = cache[n] /\ fresh' = (watch[n] = <<>>)
          /\ todo' = ServiceRefs[cache[n].cfg]
  /\ UNCHANGED <<apiVars, rbVars, svcLocations, tries>>

obtainBindingClusters(b) == b.clusters \cup b.requiredBy

\* One turn of the loop of calculateServiceLocations
GetBinding ==
  /\ pc = "getBinding"
  /\ \E s \in todo :
       /\ todo' = todo \ {s}
       /\ svcLocations' =
            IF rb[s] = NotFound THEN svcLocations
            ELSE [t \in DOMAIN svcLocations \cup {s} |->
                    IF t = s THEN obtainBindingClusters(rb[s])
                             ELSE svcLocations[t]]
  /\ UNCHANGED <<apiVars, rbVars, queue, pc, key, mci, fresh, tries>>

Calculated ==
  /\ pc = "getBinding" /\ todo = {}
  /\ pc' = "update"
  /\ UNCHANGED <<apiVars, rbVars, queue, key, mci, fresh, todo, svcLocations,
                 tries>>

\* reflect.DeepEqual(svcLocations, mci.Status.ServiceLocations): a list of
\* clusters that is empty comes back from the API server as nil, not equal.
InSync == /\ svcLocations = mci.locations
          /\ \A s \in DOMAIN svcLocations : svcLocations[s] # {}

NothingToUpdate ==
  /\ pc = "update"
  /\ InSync
  /\ Done
  /\ UNCHANGED <<apiVars, rbVars>>

\* Mutant: the copy that is written lacks a version.
Accepted_NoVersion == store[key] # NotFound

\* The API server accepts Status().Update of the copy.
Accepted == fresh

UpdateLocations(ok) ==
  /\ pc = "update"
  /\ ~InSync
  /\ Accepted
  /\ Commit(key, [mci EXCEPT !.locations = svcLocations])
  /\ IF ok THEN Done ELSE Requeue
  /\ UNCHANGED rbVars

\* Mutant: the loop ends without an error.
RetryUpdate_Swallowed ==
  /\ pc = "update"
  /\ ~InSync
  /\ ~Accepted
  /\ Done
  /\ UNCHANGED <<apiVars, rbVars>>

\* Mutant: one attempt more.
RetryUpdate_OneMore ==
  /\ pc = "update" /\ ~InSync /\ ~Accepted
  /\ IF store[key] = NotFound \/ tries = RetrySteps THEN Requeue
     ELSE IF cache[key] = NotFound THEN Done
     ELSE /\ tries' = tries + 1
          /\ mci' = cache[key] /\ fresh' = (watch[key] = <<>>)
          /\ UNCHANGED <<pc, key, todo, svcLocations, queue>>
  /\ UNCHANGED <<apiVars, rbVars>>

\* A conflict is tried again with the cached copy.  When that is gone, the
\* next attempt finds svcLocations in the copy it has, and nothing to do.
RetryUpdate ==
  /\ pc = "update"
  /\ ~InSync
  /\ ~Accepted
  /\ IF store[key] = NotFound \/ tries + 1 = RetrySteps THEN Requeue
     ELSE IF cache[key] = NotFound THEN Done
     ELSE /\ tries' = tries + 1
          /\ mci' = cache[key] /\ fresh' = (watch[key] = <<>>)
          /\ UNCHANGED <<pc, key, todo, svcLocations, queue>>
  /\ UNCHANGED <<apiVars, rbVars>>

\* A call fails without effect.
CallFails ==
  /\ pc # "idle"
  /\ Requeue
  /\ UNCHANGED <<apiVars, rbVars>>

\* A new process lists every MCI and every ResourceBinding.
Restart ==
  /\ cache' = store
  /\ watch' = [n \in Names |-> <<>>]
  /\ queue' = {n \in Names : mciPredicate(NotFound, store[n])}
  /\ rbEvents' = {s \in Services : rb[s] # NotFound}
  /\ Return
  /\ UNCHANGED <<store, rb>>
-----------------------------------------------------------------------------
HandlerStep == \/ \E n \in Names : Deliver(n)
               \/ \E s \in Services : rbMapFunc(s)

WorkStep ==
  \/ \E n \in Names : Reconcile(n)
  \/ GetBinding \/ Calculated
  \/ NothingToUpdate \/ UpdateLocations(TRUE) \/ RetryUpdate

UserStep == \/ \E n \in Names : Others(n)
            \/ \E s \in Services : ResourceBindingEvent(s)

FaultStep ==
  \/ UpdateLocations(FALSE) \/ CallFails
  \/ \E n \in Names : Relist(n)
  \/ Restart

Next == HandlerStep \/ WorkStep \/ UserStep \/ FaultStep

Spec == Init /\ [][Next]_vars
-----------------------------------------------------------------------------
\* Where the backends of the MCI n are scheduled to now
Expected(n) ==
  [s \in {t \in ServiceRefs[store[n].cfg] : rb[t] # NotFound} |->
     {c \in Clusters : c \in rb[s].clusters \/ c \in rb[s].requiredBy}]

Pending(n) ==
  \/ n \in queue
  \/ pc # "idle" /\ key = n
  \/ watch[n] # <<>>
  \/ rbEvents \cap ServiceRefs[store[n].cfg] # {}

\* "Controller is used to maintain information about the clusters in which the
\* Service backend of the MultiClusterIngress resource resides"
\* (mci_service_locations.go:30): an MCI has the locations of its present
\* backends, or work on it is pending, although they are calculated from one
\* copy, binding by binding, and written into another one read after a
\* conflict.
LocationsNotForgotten ==
  \A n \in Names :
    (store[n] # NotFound /\ ~Pending(n)) => store[n].locations = Expected(n)
=============================================================================
