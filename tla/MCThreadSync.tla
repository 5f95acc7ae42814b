---------------------------- MODULE MCThreadSync ----------------------------
(***************************************************************************)
(* An instance of ThreadSync for TLC.  Two increments by three threads are *)
(* enough for the counter to end at every total from two to six; two slots *)
(* fill and wrap with four items and three markers, and three consumers,   *)
(* more than the slots, can all sleep at once, be woken by one signal each *)
(* and be overtaken, one of them without a signal; three visitors compete  *)
(* for two permits and, like the three readers, for the maximum, so that a *)
(* compare and swap can fail twice.                                        *)
(***************************************************************************)
EXTENDS ThreadSync
=============================================================================
