-------------------------- MODULE MCSystemMonitor --------------------------
(***************************************************************************)
(* Instances of SystemMonitor for TLC.  Words of four bits and counters    *)
(* that add up to four at most give every fraction of growths up to three, *)
(* with and without growth, with iowait that falls, and leave room for a   *)
(* difference that wraps; so do figures of memory up to one, of kernels    *)
(* with and without swap.                                                  *)
(***************************************************************************)
EXTENDS SystemMonitor

WithAndWithoutSwap == {Fields, Fields \ {"SwapTotal", "SwapFree"}}
=============================================================================
