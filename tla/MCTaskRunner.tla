---------------------------- MODULE MCTaskRunner ----------------------------
(* Instances of TaskRunner for TLC.                                        *)
EXTENDS TaskRunner, TLC

PosterSymmetry == Permutations(Posters)
=============================================================================
