---------------------------- MODULE MCImplicitView ----------------------------
(* Instances of ImplicitView for TLC.                                      *)
EXTENDS ImplicitView, TLC

RegionSymmetry == Permutations(Regions)
=============================================================================
