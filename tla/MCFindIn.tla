------------------------------ MODULE MCFindIn ------------------------------
(***************************************************************************)
(* FindIn over every strictly increasing array of up to six PIDs out of    *)
(* eight and every PID to look for.  The largest array leaves no slack     *)
(* below SizeLimit, so that a sum of two indices can wrap.                 *)
(***************************************************************************)
EXTENDS FindIn
=============================================================================
