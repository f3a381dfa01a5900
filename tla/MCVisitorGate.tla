--------------------------- MODULE MCVisitorGate ---------------------------
(* Symmetry for the safety runs of VisitorGate.                             *)
EXTENDS VisitorGate, TLC

Symmetry == Permutations(Sites) \cup Permutations(Sids) \cup Permutations(Reqs)
=============================================================================
