--------------------------- MODULE MCViewLifecycle ---------------------------
(* Instances of ViewLifecycle for TLC.                                     *)
EXTENDS ViewLifecycle, TLC

ViewSymmetry == Permutations(Windows) \cup Permutations(Offscreen)
=============================================================================
