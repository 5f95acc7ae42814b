---------------------------- MODULE MCCollector ----------------------------
(***************************************************************************)
(* Instances of Collector for TLC.  With two intervals, two keys and two   *)
(* ticks every action is reached: a key arrives in every phase of a sweep, *)
(* a request meets another, a timeout meets a request or the stop, and the *)
(* interval is clamped at both ends.  CollectorProofs has no such bounds.  *)
(***************************************************************************)
EXTENDS Collector
=============================================================================
