-------------------------- MODULE MCSatelliteFrames --------------------------
(* Instances of SatelliteFrames for TLC.                                   *)
EXTENDS SatelliteFrames, TLC

RegionSymmetry == Permutations(Regions)
=============================================================================
