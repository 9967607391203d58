--------------------------- MODULE MCMCIController ---------------------------
(***************************************************************************)
(* Constants of MCIController for TLC.                                     *)
(***************************************************************************)
EXTENDS MCIController

CONSTANTS n1, k1, k2, s1, s2

OneName == {n1}

\* IngressClasses: ours and the default; or ours, and another's the default.
Ours(default) == [controller |-> ProviderClassName, default |-> default]
Others(default) == [controller |-> OtherController, default |-> default]
OneClass == {k1}
TwoClasses == {k1, k2}
OursDefault == {[k \in Classes |-> Ours(TRUE)]}
OursAndOthers ==
  {[k \in Classes |-> IF k = k1 THEN Ours(FALSE) ELSE Others(TRUE)]}

AnyClass == Classes \cup {NilClass}
OnlyOurs == {k1}
NoClass == {NilClass}

NoRefs == [c \in Cfgs |-> {}]
\* cfg1 has no backends, every other configuration has them all.
MCServiceRefs == [c \in Cfgs |-> IF c = "cfg1" THEN {} ELSE Services]
MCSecretRefs == [c \in Cfgs |-> IF c = "cfg1" THEN {} ELSE Secrets]
\* A slice derived from a ServiceImport
OneSlice == {s2}
OneService == {s1}
MCSliceLabel == [s \in Slices |-> [derived |-> TRUE, base |-> s1]]

AddrOrNil == (Statuses \ {EmptyStatus}) \cup {NilStatus}
-----------------------------------------------------------------------------
\* A bound for safety runs: classes that are not the default or finalizers of
\* others; a Service; an EndpointSlice; located or blocked clusters: there is
\* at most one of these four at a time.
Copies(n) == {store[n], cache[n], mci[n]} \ {NotFound}
ForeignHands ==
  \/ ingClass \notin InitIngClasses
  \/ \E n \in Names : \E m \in Copies(n) : m.held \/ m.class # NilClass
ServiceThere ==
  \E s \in Services : \/ service[s] # NotFound
                      \/ \E n \in Names : lb[n] # NoLB /\ lb[n].svc[s] # NotFound
SliceThere ==
  \/ svcEventChan # {}
  \/ \E s \in Slices : \/ slice[s] # NotFound
                       \/ \E n \in Names : lb[n] # NoLB /\ lb[n].eps[s] # NotFound
ClustersThere ==
  \/ \E c \in Clusters : cluster[c] # "clean"
  \/ \E n \in Names : \E m \in Copies(n) : m.locations # <<>> \/ m.block # {}
OneConcern ==
  LET concerns == <<ForeignHands, ServiceThere, SliceThere, ClustersThere>>
  IN  \A i, j \in 1 .. 4 : i < j => ~(concerns[i] /\ concerns[j])
=============================================================================
