----------------------------- MODULE PlacePaths -----------------------------
(***************************************************************************)
(* The places of one variable as the code writes them, paths of projection *)
(* steps (src/src/analysis/mod.rs), and which of them lies in which.       *)
(***************************************************************************)
EXTENDS Sequences, SequencesExt

CONSTANTS
  Key,    \* the projection steps: field names, the wildcard index, variants
  Places  \* the place paths: sequences of keys

ASSUME PlacesAssumption ==
  /\ Places \subseteq Seq(Key)
  /\ <<>> \in Places
  /\ \A p \in Places : Prefixes(p) \subseteq Places

Prefixed == {pq \in Places \X Places : IsPrefix(pq[1], pq[2])}
=============================================================================
