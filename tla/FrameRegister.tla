---------------------------- MODULE FrameRegister ----------------------------
(***************************************************************************)
(* What a hand-off of frames promises the host: a register that holds the  *)
(* newest frame.  The host sees the newest frame published, never an older *)
(* one after it and never half of one, however seldom it looks.  A host    *)
(* texture that is replaced starts blank (0).  The promise is kept until   *)
(* `ok' is given up.                                                       *)
(***************************************************************************)
EXTENDS Naturals

VARIABLES
  latest,   \* the newest frame published
  shown,    \* the frame in the host's texture
  ok        \* the promise still stands

vars == <<latest, shown, ok>>

Init == latest = 0 /\ shown = 0 /\ ok \in BOOLEAN

Publish == latest' \in Nat /\ latest' >= latest /\ UNCHANGED shown
Show    == shown' = latest /\ UNCHANGED latest
Blank   == shown' = 0 /\ UNCHANGED latest

Next == ~ ok' \/ (ok /\ ok' /\ (Publish \/ Show \/ Blank))

Spec == Init /\ [][Next]_vars
=============================================================================
