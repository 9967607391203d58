-------------------------- MODULE MCCRDInstallation --------------------------
(***************************************************************************)
(* CRDInstallation for TLC: a fair specification                           *)
(* with at most MaxDisturbances steps of users and faults.                 *)
(***************************************************************************)
EXTENDS CRDInstallation

CONSTANT MaxDisturbances

VARIABLE disturbances          \* how many there have been

mcVars == <<vars, disturbances>>

MCInit == Init /\ disturbances = 0

MCNext ==
  \/ /\ disturbances < MaxDisturbances
     /\ UserStep \/ FaultStep
     /\ disturbances' = disturbances + 1
  \/ (HandlerStep \/ WorkStep) /\ UNCHANGED disturbances

\* Each informer delivers, and the worker takes keys and gets answers.
Fairness ==
  /\ WF_mcVars(DeliverPolicy /\ UNCHANGED disturbances)
  /\ \A c \in Clusters : WF_mcVars(DeliverCluster(c) /\ UNCHANGED disturbances)
  /\ \A k \in Keys : WF_mcVars(Reconcile(k) /\ UNCHANGED disturbances)
  /\ WF_mcVars(WorkStep /\ UNCHANGED disturbances)

MCSpec == MCInit /\ [][MCNext]_mcVars /\ Fairness
-----------------------------------------------------------------------------
\* The reason the controller exists, "to install ServiceExport CRD in the
\* member clusters": a cluster that has joined is named by the policy in the
\* end, through deletions of the policy, conflicts and restarts.
EventuallyInstalled ==
  <>[](\A c \in Clusters :
         cluster[c] = "live" => policy # NotFound /\ Listed(policy, c))

\* "target cluster have been removed form cpp clusterNames"
\* (crd_installation_controller.go:94): a cluster that is gone is in the end
\* not named any more.
EventuallyUninstalled ==
  <>[](\A c \in Clusters :
         cluster[c] = "absent" => policy = NotFound \/ ~Listed(policy, c))
=============================================================================
