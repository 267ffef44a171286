-------------------------- MODULE MCOverlayManager --------------------------
(* Instances of OverlayManager for TLC.                                    *)
EXTENDS OverlayManager, TLC

\* Taking out the first place is what retain does when no identifier is repeated.
ASSUME WithoutIsRetain ==
  \A s \in UNION {[1 .. n -> Ids] : n \in 0 .. Cardinality(Ids)} :
    IsInjective(s) => \A o \in Ids : Without(s, o) = Remove(s, o)
=============================================================================
