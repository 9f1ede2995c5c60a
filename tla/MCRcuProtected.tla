--------------------------- MODULE MCRcuProtected ---------------------------
(***************************************************************************)
(* RcuProtected with small sets; addresses are interchangeable.            *)
(***************************************************************************)
EXTENDS RcuInvariant, TLC

ObjectSymmetry == Permutations(Objects)

=============================================================================
