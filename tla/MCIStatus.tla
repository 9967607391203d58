------------------------------ MODULE MCIStatus ------------------------------
(***************************************************************************)
(* The MCI controller and the service locations controller in one process: *)
(* they share the API server's MCIs and the manager's cache of them, each  *)
(* writes the whole status of its copies, and each one's writes make the   *)
(* other's copies old.  Users and faults disturb at most MaxDisturbances   *)
(* times.                                                                  *)
(***************************************************************************)
EXTENDS MCILiveness

CONSTANTS Bindings, Assumes    \* of MCIServiceLocations

VARIABLES rb, rbEvents, locQueue, locPc, locKey, locMCI, locFresh, todo,
          svcLocations, locTries

\* The patch of the finalizer needs no live copy: it adds one event to those
\* that others leave waiting.
Slack == MaxLag + 1

Loc == INSTANCE MCIServiceLocations
         WITH Rules <- ServiceRefs, MaxLag <- Slack, queue <- locQueue,
              pc <- locPc, key <- locKey, mci <- locMCI, fresh <- locFresh,
              tries <- locTries

\* Clusters come and go as they like, and the conditions of MCIServiceLocations.
ASSUME BothAssumption ==
  /\ ~Paced
  /\ Bindings \subseteq Loc!RBSpec
  /\ NotFound \notin Loc!RBSpec \cup Names
  /\ Assumes \subseteq {"ownWritesCached", "recreationSeen"}

locVars == <<rb, rbEvents, locQueue, locPc, locKey, locMCI, locFresh, todo,
             svcLocations, locTries>>
bothVars == <<mcVars, locVars>>

BothInit == MCInit /\ Loc!Init

\* What a step of one controller means for the other.
LocFollows(n) == IF store' = store THEN UNCHANGED locVars ELSE Loc!Outdate(n)
MCIFollows(n) ==
  /\ IF store' = store THEN UNCHANGED <<fresh, retriedFresh>> ELSE Outdate(n)
  /\ UNCHANGED <<backendVars, chanVars, queue, pc, mci, retried, newBlock,
                 newStatus, tries, lb>>

\* Both have their handlers on the one informer of MCIs.
BothDeliver(n) == Deliver(n) /\ Loc!Deliver(n)
LocMap(s) == Loc!rbMapFunc(s) /\ MCIFollows(NotFound)
LocWork == Loc!WorkStep /\ MCIFollows(locKey)
MCIWork(n) == WorkStep(n) /\ LocFollows(n)
MCIHandler(n) == MCIGeneric(n) /\ UNCHANGED locVars

BothDisturbance ==
  \/ \E n \in Names :
       \/ /\ \/ CreateMCI(n) \/ EditMCI(n) \/ DeleteMCI(n)
             \/ FailedCall(n)
          /\ LocFollows(n)
       \/ Relist(n) /\ Loc!Relist(n)
  \/ BackendStep /\ UNCHANGED locVars
  \/ \E s \in Services : Loc!ResourceBindingEvent(s) /\ MCIFollows(NotFound)
  \/ (Loc!UpdateLocations(FALSE) \/ Loc!CallFails) /\ MCIFollows(locKey)
  \/ Restart /\ Loc!Restart

BothNext ==
  \/ /\ disturbances < MaxDisturbances
     /\ BothDisturbance
     /\ disturbances' = disturbances + 1
  \/ /\ \/ \E n \in Names : BothDeliver(n) \/ MCIHandler(n) \/ MCIWork(n)
        \/ \E s \in Services : LocMap(s)
        \/ LocWork
     /\ UNCHANGED disturbances

\* As for each controller alone
BothFairness ==
  /\ \A n \in Names : /\ WF_bothVars(BothDeliver(n) /\ UNCHANGED disturbances)
                      /\ WF_bothVars(MCIHandler(n) /\ UNCHANGED disturbances)
                      /\ WF_bothVars(MCIWork(n) /\ UNCHANGED disturbances)
  /\ \A s \in Services : WF_bothVars(LocMap(s) /\ UNCHANGED disturbances)
  /\ WF_bothVars(LocWork /\ UNCHANGED disturbances)

BothSpec == BothInit /\ [][BothNext]_bothVars /\ BothFairness
-----------------------------------------------------------------------------
\* Bindings: scheduled nowhere yet, or to one cluster
MCBindings == {[clusters |-> {}, requiredBy |-> {}],
               [clusters |-> Clusters, requiredBy |-> {}]}
-----------------------------------------------------------------------------
\* With the real service locations controller in place of the action
\* LocateServices, the MCI controller behaves as MCIController says: the other
\* one's status updates change the locations alone, so that all that is checked
\* of MCIController holds of the two together.
MCIControllerAlone == Spec

\* The same for MCIServiceLocations, with the real MCI controller in place of
\* Others: its patch and its two status updates, made from copies that may be
\* old, never change the locations.
LocationsAlone == Loc!Spec

\* Whatever conflicts the two cause each other, the locations end up right.
EventuallyLocated ==
  <>[](\A n \in Names :
         store[n] # NotFound => store[n].locations = Loc!Expected(n))
=============================================================================
