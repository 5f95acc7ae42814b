-------------------------------- MODULE MCIpc --------------------------------
(***************************************************************************)
(* An instance of Ipc for TLC.  A pipe that holds two of three messages    *)
(* makes the writer wait; three workers are a leader, a second and one     *)
(* that joins a group of two; two failures and two Ctrl+C can come at any  *)
(* steps, the second Ctrl+C while the first one is being handled.          *)
(***************************************************************************)
EXTENDS Ipc
=============================================================================
