------------------------------ MODULE MCEdits ------------------------------
(* Symmetry of the requests.                                                *)
EXTENDS Edits, TLC

Symmetry == Permutations(Reqs)
=============================================================================
