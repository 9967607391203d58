----------------------------- MODULE MCILiveness -----------------------------
(***************************************************************************)
(* MCIController with fairness and with at most MaxDisturbances steps from *)
(* outside the controller, as MCSLiveness is for MCSController.            *)
(***************************************************************************)
EXTENDS MCMCIController

CONSTANT MaxDisturbances

VARIABLE disturbances          \* how many there have been

mcVars == <<vars, disturbances>>

MCInit == Init /\ disturbances = 0

Disturbance ==
  \/ \E n \in Names : OthersStep(n) \/ FaultStep(n)
  \/ BackendStep
  \/ Restart

MCNext ==
  \/ /\ disturbances < MaxDisturbances
     /\ Disturbance
     /\ disturbances' = disturbances + 1
  \/ /\ HandlerStep \/ \E n \in Names : WorkStep(n)
     /\ UNCHANGED disturbances

\* Informers deliver, channels drain, the worker takes queued keys and its
\* calls return.
Fairness ==
  /\ \A n \in Names : /\ WF_mcVars(Deliver(n) /\ UNCHANGED disturbances)
                      /\ WF_mcVars(MCIGeneric(n) /\ UNCHANGED disturbances)
                      /\ WF_mcVars(WorkStep(n) /\ UNCHANGED disturbances)
  /\ \A s \in Services : WF_mcVars(ServiceGeneric(s) /\ UNCHANGED disturbances)

MCSpec == MCInit /\ [][MCNext]_mcVars /\ Fairness
-----------------------------------------------------------------------------
Served(n) == store[n] # NotFound /\ CheckIngressClassMatched(store[n].class)

Wanted(n) == Served(n) /\ ~store[n].deleting

\* What the provider should have programmed for a backend, a secret and a
\* slice of the MCI n.
Current(n) ==
  /\ lb[n] # NoLB
  /\ lb[n].cfg = store[n].cfg
  /\ \A s \in ServiceRefs[store[n].cfg] : lb[n].svc[s] = service[s]
  /\ \A s \in SecretRefs[store[n].cfg] : lb[n].sec[s] = secret[s]
  /\ \A s \in Slices : SliceLabel[s] # NoLabel =>
       (SliceLabel[s].base \in ServiceRefs[store[n].cfg] =>
          lb[n].eps[s] = slice[s])

\* An MCI of a served class ends up with a load balancer behind the finalizer
\* and programmed from its current configuration, Services, EndpointSlices
\* and Secrets: no event is lost between handlers, indexes, channels and queue.
EventuallyProvisioned ==
  <>[](\A n \in Names : Wanted(n) => Guarded(n) /\ Current(n))

\* The address of the load balancer ends up in the status, although the patch
\* of the finalizer leaves the reconciler with an old version and both updates
\* of the status retry on cached copies.
EventuallyPublished ==
  <>[](\A n \in Names : Wanted(n) => store[n].status \in ProviderStatus)

\* A cluster that TrafficControl blocks, or blocks no longer, ends up so in
\* status.trafficBlockClusters and in the load balancer, if clusters and
\* the MCIs located in them change more slowly than the cache follows (Paced).
EventuallyBlocked ==
  <>[](\A n \in Names :
         Wanted(n) => /\ store[n].block = Located(store[n].locations) \cap Blocked
                      /\ lb[n] # NoLB
                      /\ lb[n].block = store[n].block)

\* A deleted MCI of a served class ends without load balancer and without
\* this controller's finalizer.
EventuallyReleased ==
  <>[](\A n \in Names :
         Served(n) => (store[n].deleting => lb[n] = NoLB /\ ~Guarded(n)))

\* "Since finalizer is added to the multiClusterIngress object, the delete
\* event is processed by the update event" (eventhandlers.go:74): the
\* controller does not keep a deleted MCI from going away.
DeletionCompletes ==
  <>[](\A n \in Names : ~(Guarded(n) /\ store[n].deleting))
=============================================================================
