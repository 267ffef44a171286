--------------------------- MODULE MCTextEditing ---------------------------
(* Instance of TextEditing for TLC: the host's window and a satellite, and *)
(* characters that differ in both of their lengths.                        *)
EXTENDS TextEditing, TLC

MCTyped == {"accent"}
MCValues == {[text |-> <<>>, base |-> -1, extent |-> -1],
             [text |-> <<"emoji", "accent">>, base |-> 1, extent |-> 3]}

ThreadSymmetry == Permutations(Threads)
=============================================================================
