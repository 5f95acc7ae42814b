------------------------------- MODULE MCTree -------------------------------
(***************************************************************************)
(* The instances of ProcessTree and of FindIn, whose find_in() is every    *)
(* lookup that the tree makes, checked in one run: a behaviour is either   *)
(* one of the tree, on samples that a sweep returns, or a single call of   *)
(* find_in() on any sorted array.                                          *)
(***************************************************************************)
EXTENDS MCProcessTree, MCFindIn

VARIABLE part     \* "tree" or "lookup"

Start ==
    \/ part = "tree" /\ Init /\ CallFindIn /\ count = 0 /\ pid = 0
    \/ part = "lookup" /\ CallFindIn /\ Init /\ \A h \in Heights : term_height <= h

Step ==
    \/ part = "tree" /\ Next /\ UNCHANGED <<part, search>>
    \/ part = "lookup" /\ Probe /\ UNCHANGED <<part, vars>>

TreeAndLookups == Start /\ [][Step]_<<part, vars, search>> /\ WF_vars(Build \/ Draw)
=============================================================================
