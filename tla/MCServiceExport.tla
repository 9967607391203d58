--------------------------- MODULE MCServiceExport ---------------------------
(***************************************************************************)
(* ServiceExportPropagation for TLC: the bindings of the small instances.  *)
(***************************************************************************)
EXTENDS ServiceExportPropagation

\* Scheduled nowhere, to one cluster, and to another through RequiredBy alone
MCBindings == {[clusters |-> {}, requiredBy |-> {}],
               [clusters |-> {"member1"}, requiredBy |-> {}],
               [clusters |-> {}, requiredBy |-> {"member2"}]}
=============================================================================
