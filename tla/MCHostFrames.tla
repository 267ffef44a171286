---------------------------- MODULE MCHostFrames ----------------------------
(* Instance of HostFrames for TLC.                                         *)
EXTENDS HostFrames
=============================================================================
