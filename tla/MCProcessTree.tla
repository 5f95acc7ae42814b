--------------------------- MODULE MCProcessTree ---------------------------
(***************************************************************************)
(* Instances of ProcessTree for TLC.  Four PIDs and four forks are enough  *)
(* for a PID that is used again by a child of its former child, which      *)
(* makes PPIDs that go in a circle, for two levels with siblings, and for  *)
(* several roots.  A terminal of 12 or 14 lines has no or two rows for the *)
(* tree, one of 17 lines has room for all.  A prefix of 6 bytes has room   *)
(* for one bar or blanks: the trees are as deep as three levels.  Three    *)
(* processes have names that look like the end of the name and what        *)
(* follows it, one of them longer than the room for it.                    *)
(***************************************************************************)
EXTENDS ProcessTree

TrickyNames == <<<<Letter>>, <<Close, Letter, 3>>, <<2, Close>>, <<Open, Letter>>>>
=============================================================================
