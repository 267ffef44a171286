------------------------------ MODULE TaskQueue ------------------------------
(***************************************************************************)
(* What the platform task runner promises the engine of its tasks: each is *)
(* run once, not before its target time, and never overtakes a task that   *)
(* was posted before it for an earlier time.  Identifiers are given in the *)
(* order of posting.                                                       *)
(***************************************************************************)
EXTENDS Naturals

VARIABLES
  waiting,  \* the tasks posted and not yet run, each an identifier and a target time
  ran,      \* the identifiers of the tasks run
  clock

vars == <<waiting, ran, clock>>

Init == waiting = {} /\ ran = {} /\ clock = 0

Newer(id) == (\A u \in waiting : u.id < id) /\ (\A i \in ran : i < id)

Post ==
  /\ \E t \in waiting' \ waiting : Newer(t.id) /\ waiting' = waiting \cup {t}
  /\ UNCHANGED <<ran, clock>>

Run ==
  /\ \E t \in waiting :
       /\ t.at <= clock
       /\ \A u \in waiting : u.id < t.id => t.at <= u.at
       /\ waiting' = waiting \ {t}
       /\ ran' = ran \cup {t.id}
  /\ UNCHANGED clock

Pass == clock' > clock /\ UNCHANGED <<waiting, ran>>

Next == Post \/ Run \/ Pass

Spec == Init /\ [][Next]_vars
=============================================================================
