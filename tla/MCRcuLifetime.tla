---------------------------- MODULE MCRcuLifetime ----------------------------
(***************************************************************************)
(* RcuLifetime with small sets; addresses are interchangeable.             *)
(***************************************************************************)
EXTENDS RcuLifetime, TLC

ObjectSymmetry == Permutations(Objects)

=============================================================================
