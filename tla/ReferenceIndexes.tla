--------------------------- MODULE ReferenceIndexes ---------------------------
(***************************************************************************)
(* The index of MultiClusterIngresses by the Services and Secrets they     *)
(* refer to.  An MCI has an optional default backend, rules that are nil   *)
(* (no HTTP part) or a list of backends, one for each path, and a list of  *)
(* TLS secrets.  Names are numbers, for their order.                       *)
(***************************************************************************)
EXTENDS SequencesExt, Integers

CONSTANTS
  Services,        \* names of Services
  Secrets,         \* names of Secrets
  ResourceBackend, \* a backend that is a resource and no Service
  NilBackend,      \* no default backend
  NilHTTP,         \* a rule without HTTP part
  Panic            \* dereference of nil

ASSUME IndexAssumption ==
  /\ Services \subseteq Nat /\ Secrets \subseteq Nat
  /\ {ResourceBackend, NilBackend} \cap Services = {}

\* The List of a set of names: each once, in ascending order
Sorted(names) ==
  CHOOSE list \in [1 .. Cardinality(names) -> names] :
    \A i, j \in DOMAIN list : i < j => list[i] < list[j]

\* Mutant: the walk ends at a rule without HTTP part.
Paths_Break(rules) ==
  LET nils == {i \in 1 .. Len(rules) : rules[i] = NilHTTP}
      end == IF nils = {} THEN Len(rules) ELSE CHOOSE i \in nils : \A j \in nils : i <= j
  IN  FlattenSeq([i \in 1 .. end |-> IF rules[i] = NilHTTP THEN <<>> ELSE rules[i]])

\* The backends of all rules, those without HTTP part passed over.
Paths(rules) ==
  FlattenSeq([i \in 1 .. Len(rules) |-> IF rules[i] = NilHTTP THEN <<>> ELSE rules[i]])

BuildServiceRefIndexes(mci) ==
  LET backends == (IF mci.default = NilBackend THEN <<>> ELSE <<mci.default>>)
                  \o Paths(mci.rules)
  IN  IF Contains(backends, ResourceBackend) THEN Panic ELSE Sorted(ToSet(backends))

BuildSecretRefIndexes(mci) == Sorted(ToSet(mci.tls))
=============================================================================
