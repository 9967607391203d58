----------------------------- MODULE MCLocations -----------------------------
(***************************************************************************)
(* Constants of MCIServiceLocations for TLC; the objects have one more     *)
(* field that others write.                                                *)
(***************************************************************************)
EXTENDS MCIServiceLocations

MCMCI == [cfg : {"one", "all"}, locations : Locations,
          status : {"empty", "addr1"}]
MCServiceRefs == [one |-> {"web"}, all |-> Services]
MCRules == [one |-> "rules1", all |-> "rules2"]
\* Scheduled to one cluster through RequiredBy alone
MCBindings == {[clusters |-> {}, requiredBy |-> Clusters]}
=============================================================================
