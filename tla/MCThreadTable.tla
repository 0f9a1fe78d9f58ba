--------------------------- MODULE MCThreadTable ---------------------------
(***************************************************************************)
(* Instances of ThreadTable for TLC.                                       *)
(***************************************************************************)
EXTENDS ThreadTable, TLC

Symmetry == Permutations(Structs) \cup Permutations(Callers)
=============================================================================
