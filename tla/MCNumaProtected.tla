--------------------------- MODULE MCNumaProtected ---------------------------
(***************************************************************************)
(* NumaProtected with small sets; addresses are interchangeable.           *)
(***************************************************************************)
EXTENDS NumaProtected, TLC

ObjectSymmetry == Permutations(Objects)

=============================================================================
