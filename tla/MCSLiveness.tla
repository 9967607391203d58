----------------------------- MODULE MCSLiveness -----------------------------
(***************************************************************************)
(* MCSController with fairness and with at most MaxDisturbances steps from *)
(* outside the controller (users, backends, failing calls, broken watches, *)
(* restarts).  Once they are used up only the controller moves, so what    *)
(* must eventually hold is what it brings about by itself.                 *)
(***************************************************************************)
EXTENDS MCMCSController

CONSTANT MaxDisturbances

VARIABLE disturbances          \* how many there have been

mcVars == <<vars, disturbances>>

MCInit == Init /\ disturbances = 0

Disturbance ==
  \/ \E n \in Names : UserStep(n) \/ FaultStep(n)
  \/ BackendStep
  \/ Restart

MCNext ==
  \/ /\ disturbances < MaxDisturbances
     /\ Disturbance
     /\ disturbances' = disturbances + 1
  \/ /\ \E n \in Names : HandlerStep(n) \/ WorkStep(n)
     /\ UNCHANGED disturbances

\* Informers deliver, channels drain, the worker takes queued keys and its
\* calls return.
Fairness ==
  \A n \in Names : /\ WF_mcVars(HandlerStep(n) /\ UNCHANGED disturbances)
                   /\ WF_mcVars(WorkStep(n) /\ UNCHANGED disturbances)

MCSpec == MCInit /\ [][MCNext]_mcVars /\ Fairness
-----------------------------------------------------------------------------
Wanted(n) == /\ store[n] # NotFound
             /\ ~store[n].deleting
             /\ MCSContainLoadBalanceType(store[n])

\* Whatever happened before, an MCS that wants a load balancer ends up with
\* one, behind the finalizer, programmed from its current configuration, its
\* current Service and the current EndpointSlices of that Service: no event
\* that matters is lost between handlers, channels, queue and retries.
EventuallyProvisioned ==
  <>[](\A n \in Names :
         Wanted(n) => /\ store[n].finalizer
                      /\ lb[n] # NoLB
                      /\ lb[n].cfg = store[n].cfg
                      /\ lb[n].svc = service[n]
                      /\ \A s \in Slices :
                           SliceLabel[s] # NoLabel =>
                             (SliceLabel[s].base = n => lb[n].eps[s] = slice[s]))

\* If a load balancer keeps its address, that address ends up in the status
\* of the MCS, although updateMCSStatus compares with a cached status and
\* retries on a cached copy.
EventuallyPublished ==
  <>[](\A n \in Names :
         Wanted(n) => lb[n] # NoLB /\ store[n].status = lb[n].status)

\* An MCS that is deleted while it has the LoadBalancer type ends without
\* load balancer and without the controller's finalizer.
EventuallyReleased ==
  <>[](\A n \in Names :
         store[n] # NotFound =>
           (store[n].deleting /\ MCSContainLoadBalanceType(store[n]) =>
              lb[n] = NoLB /\ ~store[n].finalizer))

\* An MCS that lost the LoadBalancer type ends without load balancer, if it
\* has a Service, whose events are not filtered by type.
EventuallyDeprovisioned ==
  <>[](\A n \in Names :
         store[n] # NotFound /\ service[n] # NotFound =>
           (~MCSContainLoadBalanceType(store[n]) => lb[n] = NoLB))

\* "Since finalizer is added to the MultiClusterService object, the delete
\* event is processed by the update event" (eventhandlers.go:64): the
\* controller does not keep a deleted MCS from going away.
DeletionCompletes ==
  <>[](\A n \in Names :
         ~(store[n] # NotFound /\ store[n].deleting /\ store[n].finalizer))
=============================================================================
