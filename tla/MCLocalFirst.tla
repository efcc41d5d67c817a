---------------------------- MODULE MCLocalFirst ----------------------------
(***************************************************************************)
(* LocalFirst with small sets of calls and documents.                      *)
(***************************************************************************)
EXTENDS LocalFirst, TLC

Symmetry == Permutations(Calls \ Recoveries)
=============================================================================
