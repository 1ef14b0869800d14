---------------------------- MODULE MCMaterialize ----------------------------
(***************************************************************************)
(* Materialize for TLC: nothing tells two cases or two materializers apart. *)
(***************************************************************************)
EXTENDS Materialize, TLC

Symmetry == Permutations(Cases) \union Permutations(Materializers)
=============================================================================
