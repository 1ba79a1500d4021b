-------------------------- MODULE ContributionDag ---------------------------
(***************************************************************************)
(* What the contribution graph promises (zerochain-memory graph_store.rs): *)
(* a set of immutable records that only grows, each added when everything  *)
(* it refers to is there, and no verification of a verification.           *)
(***************************************************************************)
CONSTANTS Records,        \* records, named by the hash of their content
          Parents,        \* Parents[r]: the records r builds on
          Targets,        \* Targets[r]: {} or the record that r verifies
          Verifications

VARIABLE dag

DagInit == dag = {}

Add(r) ==
  /\ r \notin dag
  /\ Parents[r] \cup Targets[r] \subseteq dag
  /\ Targets[r] \cap Verifications = {}
  /\ dag' = dag \cup {r}

DagNext == \E r \in Records : Add(r)

Dag == DagInit /\ [][DagNext]_dag
=============================================================================
