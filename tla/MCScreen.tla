------------------------------ MODULE MCScreen ------------------------------
(***************************************************************************)
(* The instances of Ui and of SystemMonitor, the views with their keys and *)
(* the figures of the header above them, checked in one run.  Neither      *)
(* reads what the other writes, so a behaviour is of one of the two.       *)
(***************************************************************************)
EXTENDS MCUi, MCSystemMonitor

VARIABLE part     \* "view" or "header"

Start ==
    \/ /\ part = "view" /\ Init
       /\ SystemInit /\ busy = 1
    \/ /\ part = "header" /\ SystemInit
       /\ Init /\ sample = <<>> /\ \A h \in Heights : tty_height <= h

Step ==
    \/ part = "view" /\ Next /\ UNCHANGED <<part, systemVars>>
    \/ part = "header" /\ SystemNext /\ UNCHANGED <<part, vars>>

Screen == Start /\ [][Step]_<<part, vars, systemVars>>
=============================================================================
