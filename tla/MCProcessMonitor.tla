-------------------------- MODULE MCProcessMonitor --------------------------
(***************************************************************************)
(* Instances of ProcessMonitor for TLC.  Two or three PIDs and one fork    *)
(* let a PID be left and taken again within one sweep or between two; a    *)
(* first capacity of one entry makes the two buffers grow apart and change *)
(* places; a window of three events overflows with the second sample.      *)
(* In a behaviour either time passes (two ticks: the gap between two       *)
(* sweeps and the length of a sweep can each be one or more) or a call     *)
(* fails, so that the two together stay within reach.                      *)
(***************************************************************************)
EXTENDS ProcessMonitor

CallsFail   == {[pids |-> 3, forks |-> 1, time |-> 0, faults |-> 1]}
TimePasses  == {[pids |-> 2, forks |-> 1, time |-> 2, faults |-> 0]}
FailOrPass  == CallsFail \cup TimePasses

\* Smaller or longer, to find a behaviour soon.
FewCallsFail  == {[pids |-> 2, forks |-> 1, time |-> 0, faults |-> 1]}
MoreTime      == {[pids |-> 2, forks |-> 1, time |-> 4, faults |-> 0]}
=============================================================================
