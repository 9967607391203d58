--------------------------- MODULE MCMCSController ---------------------------
(***************************************************************************)
(* Constants of MCSController for TLC.                                     *)
(***************************************************************************)
EXTENDS MCSController

CONSTANTS n1, s1, s2, s3

OneName == {n1}
\* Slices of n1: the Service's own, one derived from a ServiceImport, and one
\* without the label.
ThreeSlices == {s1, s2, s3}
OneSlice == {s2}
MCSliceLabel ==
  [s \in Slices |-> CASE s = s1 -> [derived |-> FALSE, base |-> n1]
                      [] s = s2 -> [derived |-> TRUE, base |-> n1]
                      [] OTHER -> NoLabel]

\* A provider that may answer anything, and one whose load balancer keeps its
\* address.
AnyStatus == [c \in Cfgs |-> Statuses \cup {NilStatus}]
FixedStatus == [c \in Cfgs |-> {"addr1"}]
=============================================================================
