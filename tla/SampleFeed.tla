---------------------------- MODULE SampleFeed ----------------------------
(***************************************************************************)
(* What the two threads of Kernel Monitor promise together, with neither   *)
(* threads nor lock: samples 0, 1, 2, ... are published one at a time, and *)
(* the screen is only ever filled from one whole sample, the latest.       *)
(*                                                                         *)
(* A frame has three parts because the program keeps a sample in three     *)
(* places: the process array, its length, and the system figures.          *)
(***************************************************************************)
EXTENDS Integers

VARIABLES latest,   \* the number of the latest published sample
          shown,    \* what the screen shows
          session   \* "starting", "open" or "closed"

feed == <<latest, shown, session>>

Whole(n) == [items |-> n, count |-> n, sys |-> n]
Blank    == Whole(-1)

Init == latest = 0 /\ shown = Blank /\ session = "starting"

Open    == session = "starting" /\ session' = "open" /\ UNCHANGED <<latest, shown>>
Close   == session # "closed" /\ session' = "closed" /\ UNCHANGED <<latest, shown>>
Publish == latest' = latest + 1 /\ UNCHANGED <<shown, session>>
Show    == session # "starting" /\ shown' = Whole(latest) /\ UNCHANGED <<latest, session>>

Next == Open \/ Close \/ Publish \/ Show

Safe == Init /\ [][Next]_feed

(* As long as the session is open, a sample that is not on the screen is   *)
(* drawn, or a newer one is.                                               *)
Catchup == session = "open" /\ Show

Progress == WF_feed(Catchup)

Spec == Safe /\ Progress
=============================================================================
