--------------------------- MODULE MCStoreBuffers ---------------------------
(***************************************************************************)
(* StoreBuffers with small sets.                                           *)
(***************************************************************************)
EXTENDS StoreBuffers, TLC

Symmetry == Permutations(Objects) \cup Permutations(Values)

=============================================================================
