------------------------------ MODULE MCDynaMap ------------------------------
(* Small instances of DynaMap for TLC.  Tags are interchangeable in every  *)
(* property that is checked with this symmetry (no liveness).              *)
EXTENDS DynaMap, TLC

TagSymmetry == Permutations(Tag)
=============================================================================
