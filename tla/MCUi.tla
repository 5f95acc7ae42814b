-------------------------------- MODULE MCUi --------------------------------
(***************************************************************************)
(* Instances of Ui for TLC.  Three processes with two values of CPU% are   *)
(* enough for the selected one to be overtaken, to climb, to leave and to  *)
(* come back while others leave, and for a list longer than the two rows   *)
(* of an 11 line terminal.  A terminal of 8 lines has no rows and no room  *)
(* for a question, one of 9 lines no rows either, but room for a question. *)
(* A page of two rows can stop short of either end.                        *)
(***************************************************************************)
EXTENDS Ui
=============================================================================
