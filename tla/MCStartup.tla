------------------------------ MODULE MCStartup ------------------------------
(***************************************************************************)
(* Startup for TLC, and the pure functions that the start and the indexes  *)
(* it sets up rely on, checked against reference definitions for every     *)
(* list of at most MaxFlags flags and every MCI with at most MaxRules      *)
(* rules of at most MaxPaths paths and as many TLS secrets.                *)
(***************************************************************************)
EXTENDS Startup, ReferenceIndexes

CONSTANTS MaxFlags, MaxRules, MaxPaths

\* The controllers of app.init.
MCNames == {"multiclusteringress", "multiclusterservice", "crd-installation",
            "serviceexport-propagation", "mci-service-locations"}

MCClouds == {[lb |-> "ok", mcs |-> "ok"], [lb |-> "ok", mcs |-> "unsupported"],
             [lb |-> "nil", mcs |-> "ok"]}

MCIs == [default : Services \cup {NilBackend},
         rules : BoundedSeq(BoundedSeq(Services, MaxPaths) \cup {NilHTTP}, MaxRules),
         tls : BoundedSeq(Secrets, MaxPaths)]
-----------------------------------------------------------------------------
\* The functions are pure: one state is enough to evaluate them in, that of a
\* process which starts without any flag or provider.
BareStart ==
  /\ pc = "register" /\ faults = 0
  /\ registrations = <<>> /\ cloud = NoProvider
  /\ opts = [name |-> "", class |-> "", file |-> ""]

\* "if we get here, there was no explicit choice" (context.go:49): the first
\* flag that names a controller decides about it, wherever a star stands, and
\* without one a star enables all but those disabled by default.
FirstChoiceWins ==
  BareStart =>
    \A flags \in BoundedSeq(Flags, MaxFlags), name \in Names, off \in SUBSET Names :
      LET choices == {i \in 1 .. Len(flags) : flags[i].name = name}
      IN  IsControllerEnabled(name, flags, off) <=>
            IF choices # {}
            THEN \E i \in choices : /\ flags[i].on
                                    /\ \A j \in choices : i <= j
            ELSE name \notin off /\ \E i \in 1 .. Len(flags) : flags[i] = Star

Refers(mci, s) ==
  \/ mci.default = s
  \/ \E i \in 1 .. Len(mci.rules) : mci.rules[i] # NilHTTP /\ Contains(mci.rules[i], s)

\* A sorted list without repetitions of the names in S.
IndexOf(index, S) ==
  /\ ToSet(index) = S
  /\ \A i \in 1 .. Len(index) - 1 : index[i] < index[i + 1]

\* BuildServiceRefIndexes finds every Service that the default backend or any
\* path names, those after a rule without HTTP part included, each once and in
\* order (the export controller's handler compares two such lists); and
\* BuildSecretRefIndexes does so for TLS secrets.
IndexesExact ==
  BareStart =>
    \A mci \in MCIs :
      /\ IndexOf(BuildServiceRefIndexes(mci), {s \in Services : Refers(mci, s)})
      /\ IndexOf(BuildSecretRefIndexes(mci), {s \in Secrets : Contains(mci.tls, s)})
=============================================================================
