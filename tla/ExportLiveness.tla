--------------------------- MODULE ExportLiveness ---------------------------
(***************************************************************************)
(* ServiceExportPropagation with fairness and with at most MaxDisturbances *)
(* steps of users and faults, as MCSLiveness is for MCSController.         *)
(***************************************************************************)
EXTENDS MCServiceExport

CONSTANT MaxDisturbances

VARIABLE disturbances          \* how many there have been

mcVars == <<vars, disturbances>>

MCInit == Init /\ disturbances = 0

MCNext ==
  \/ /\ disturbances < MaxDisturbances
     /\ UserStep \/ FaultStep
     /\ disturbances' = disturbances + 1
  \/ /\ (\E s \in Services : HandlerStep(s)) \/ WorkStep
     /\ UNCHANGED disturbances

\* Informers deliver, the channel drains, the garbage collector collects, the
\* worker takes queued keys and its calls return.
Fairness ==
  /\ \A s \in Services :
       /\ WF_mcVars(DeliverService(s) /\ UNCHANGED disturbances)
       /\ WF_mcVars(DeliverExport(s) /\ UNCHANGED disturbances)
       /\ WF_mcVars(DeliverPolicy(s) /\ UNCHANGED disturbances)
       /\ WF_mcVars(ServiceCreate(s) /\ UNCHANGED disturbances)
       /\ WF_mcVars(ServiceGeneric(s) /\ UNCHANGED disturbances)
       /\ WF_mcVars(CollectExport(s) /\ UNCHANGED disturbances)
       /\ WF_mcVars(CollectPolicy(s) /\ UNCHANGED disturbances)
  /\ WF_mcVars(WorkStep /\ UNCHANGED disturbances)

MCSpec == MCInit /\ [][MCNext]_mcVars /\ Fairness
-----------------------------------------------------------------------------
\* A Service that an MCI or a load balancer needs ends up with its own
\* ServiceExport and, if it is scheduled to clusters, with a policy for just
\* these clusters, whatever failed before: ServiceExport and policy are two
\* writes, retried by the queue alone.
EventuallyPropagated ==
  <>[](\A s \in Services :
         Live(s) /\ Needed(s) =>
           /\ export[s] = service[s].uid
           /\ Scheduled(s) # {} => Right(s))

\* A Service with a ResourceBinding that nobody needs any more ends up without
\* ServiceExport and policy, whatever failed before.
EventuallyWithdrawn ==
  <>[](\A s \in Services :
         Live(s) /\ Unneeded(s) /\ rb[s] # NotFound =>
           export[s] = NotFound /\ policy[s] = NotFound)
=============================================================================
