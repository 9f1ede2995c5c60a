------------------------- MODULE MCEpochReclamation -------------------------
(***************************************************************************)
(* EpochReclamation with small sets, and with the history of EpochMemory.  *)
(* Readers, addresses and contents are interchangeable, and no property    *)
(* checked with symmetry is a liveness property.                           *)
(***************************************************************************)
EXTENDS EpochMemory, TLC

Symmetry ==
  Permutations(Readers) \cup Permutations(Objects) \cup Permutations(Values)

=============================================================================
