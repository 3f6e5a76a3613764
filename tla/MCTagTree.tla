------------------------------ MODULE MCTagTree ------------------------------
(***************************************************************************)
(* Constants for model checking TagTree.                                   *)
(***************************************************************************)
EXTENDS TagTree, TLC

(* Threads and addresses are interchangeable in Spec and CarefulSpec.      *)
Symmetry == Permutations(Threads) \cup Permutations(Nodes)

=============================================================================
