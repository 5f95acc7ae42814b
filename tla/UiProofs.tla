------------------------------ MODULE UiProofs ------------------------------
(***************************************************************************)
(* The selection never leaves the list, the highlight follows its process, *)
(* and only the highlighted process is signalled, after a yes: for any     *)
(* number of processes, any heights of the terminal and any page size.     *)
(***************************************************************************)
EXTENDS Ui, SequenceTheorems, TLAPS

Types ==
    /\ DOMAIN sample \subseteq Pid
    /\ displayed_pids \in Seq(Pid)
    /\ selected_index \in Nat /\ scroll_offset \in Nat /\ tty_height \in Nat
    /\ pc \in {"input", "find", "prompt", "draw"}

\* Between two frames the screen shows the view, and no signal has been sent.
Settled == pc # "draw" => screen.view = view_mode /\ signalled = NoSignal

\* The question is about the selected process of the list.
Question ==
    pc \in {"find", "prompt"} =>
        view_mode = "list" /\ asked.pid = SelectedPid /\ asked.sig \in Asking

Inv == Types /\ IndexInRange /\ HighlightIsSelected /\ Settled /\ Question /\ OnlyConfirmed

----------------------------------------------------------------------------
(* Lists.                                                                  *)

LEMMA ListIsSeq ==
    ASSUME NEW list \in Lists
    PROVE  list \in Seq(Pid) /\ Len(list) \in Nat /\ DOMAIN list = 1 .. Len(list)
  <1>1. PICK n \in 0 .. MaxPid : list \in [1 .. n -> Pid]
    BY DEF Lists
  <1>2. n \in Nat
    BY UiAssumption
  <1>3. list \in Seq(Pid)
    BY <1>1, <1>2, SeqDef
  <1> QED
    BY <1>3, LenProperties

\* The row of the process selected so far.
LEMMA Follows ==
    ASSUME Types, NEW list \in Lists, Ranked(list)
    PROVE  /\ Followed(list) \in Nat
           /\ SelectedPid \in DOMAIN sample =>
                 Followed(list) < Len(list) /\ list[Followed(list) + 1] = SelectedPid
  <1>1. /\ Len(list) \in Nat /\ DOMAIN list = 1 .. Len(list)
        /\ {list[i] : i \in DOMAIN list} = DOMAIN sample
    BY ListIsSeq DEF Ranked
  <1>2. CASE \E i \in DOMAIN list : list[i] = SelectedPid
    <2> DEFINE row == CHOOSE i \in DOMAIN list : list[i] = SelectedPid
    <2>1. row \in DOMAIN list /\ list[row] = SelectedPid
      BY <1>2
    <2>2. Followed(list) = row - 1
      BY <1>2 DEF Followed
    <2> HIDE DEF row
    <2> QED
      BY <1>1, <2>1, <2>2
  <1>3. CASE ~ \E i \in DOMAIN list : list[i] = SelectedPid
    BY <1>1, <1>3 DEF Followed, Types
  <1> QED
    BY <1>2, <1>3

\* The last valid row at most.
LEMMA Clamps ==
    ASSUME NEW i \in Nat, NEW n \in Nat
    PROVE  /\ Clamped(i, n) \in Nat /\ (n > 0 => Clamped(i, n) < n)
           /\ i < n => Clamped(i, n) = i
  BY DEF Clamped

\* A window that is not empty includes the selection.
LEMMA Scrolls ==
    ASSUME scroll_offset \in Nat, NEW i \in Nat, NEW visible \in Nat
    PROVE  /\ Scrolled(i, visible) \in Nat
           /\ visible > 0 => Scrolled(i, visible) <= i /\ i < Scrolled(i, visible) + visible
  BY DEF Scrolled

LEMMA RowsAreNat == ASSUME NEW h \in Nat PROVE Rows(h) \in Nat
  BY DEF Rows

(* A frame of the list: what it stores and what it shows.                  *)
LEMMA Frame ==
    ASSUME Types, NEW list \in Lists, Ranked(list),
           NEW index, index = Clamped(Followed(list), Len(list)),
           NEW visible, visible = IF Rows(tty_height) < Len(list) THEN Rows(tty_height)
                                  ELSE Len(list),
           NEW top, top = Scrolled(index, visible),
           NEW bottom, bottom = IF top + visible < Len(list) THEN top + visible ELSE Len(list)
    PROVE  /\ index \in Nat /\ top \in Nat
           /\ list # <<>> => index < Len(list)
           /\ SubSeq(list, top + 1, bottom) # <<>> => index < Len(list) /\ index \in top .. bottom - 1
           /\ SelectedPid \in DOMAIN sample => index < Len(list) /\ list[index + 1] = SelectedPid
  <1>1. list \in Seq(Pid) /\ Len(list) \in Nat
    BY ListIsSeq
  <1>2. Followed(list) \in Nat
    BY Follows
  <1>3. /\ index \in Nat /\ (Len(list) > 0 => index < Len(list))
        /\ Followed(list) < Len(list) => index = Followed(list)
    BY <1>1, <1>2, Clamps
  <1>4. visible \in Nat /\ visible <= Len(list)
    BY <1>1, RowsAreNat DEF Types
  <1>5. /\ top \in Nat
        /\ visible > 0 => top <= index /\ index < top + visible
    BY <1>3, <1>4, Scrolls DEF Types
  <1>6. list # <<>> => index < Len(list)
    BY <1>1, <1>3, EmptySeq
  <1>7. ASSUME SubSeq(list, top + 1, bottom) # <<>>
        PROVE  index < Len(list) /\ index \in top .. bottom - 1
    <2>1. bottom \in Nat /\ bottom <= Len(list)
      BY <1>1, <1>4, <1>5
    <2>2. top + 1 <= bottom
      <3>1. SUFFICES ASSUME bottom < top + 1 PROVE FALSE
        BY <2>1, <1>5
      <3>2. SubSeq(list, top + 1, bottom) = <<>>
        BY <1>1, <1>5, <2>1, <3>1, SubSeqProperties
      <3> QED
        BY <1>7, <3>2
    <2>3. visible > 0
      BY <1>1, <1>4, <1>5, <2>1, <2>2
    <2> QED
      BY <1>1, <1>3, <1>4, <1>5, <2>1, <2>3
  <1>8. SelectedPid \in DOMAIN sample => index < Len(list) /\ list[index + 1] = SelectedPid
    BY <1>3, Follows
  <1> QED
    BY <1>3, <1>5, <1>6, <1>7, <1>8

----------------------------------------------------------------------------
(* The invariant.                                                          *)

LEMMA Selected ==
    ASSUME Types, IndexInRange
    PROVE  SelectedPid # NoPid => SelectedPid \in Pid
  BY LenProperties, ElementOfSeq DEF Types, IndexInRange, SelectedPid

LEMMA Initial == Init => Inv
  <1> SUFFICES ASSUME Init PROVE Inv
    OBVIOUS
  <1>1. Types
    BY EmptySeq, UiAssumption DEF Init, Types, Samples
  <1>2. IndexInRange /\ HighlightIsSelected
    BY DEF Init, IndexInRange, HighlightIsSelected
  <1>3. Settled /\ Question
    BY DEF Init, Settled, Question
  <1>4. OnlyConfirmed
    BY DEF Init, OnlyConfirmed, NoSignal, Asking
  <1> QED
    BY <1>1, <1>2, <1>3, <1>4 DEF Inv

\* A step that leaves the list, the selection and the screen alone.
LEMMA Unmoved ==
    ASSUME Inv, UNCHANGED <<displayed_pids, selected_index, scroll_offset, screen>>,
           DOMAIN sample' \subseteq Pid, tty_height' \in Nat,
           pc' \in {"input", "find", "prompt", "draw"}, pc # "draw" \/ pc' = "draw"
    PROVE  Types' /\ IndexInRange' /\ HighlightIsSelected' /\ SelectedPid' = SelectedPid
  <1>1. SelectedPid' = SelectedPid
    BY DEF SelectedPid
  <1>2. Types' /\ IndexInRange'
    BY DEF Inv, Types, IndexInRange
  <1>3. HighlightIsSelected'
    BY <1>1 DEF Inv, HighlightIsSelected, Types
  <1> QED
    BY <1>1, <1>2, <1>3

\* What a frame leaves behind.
LEMMA DrawStep == Inv /\ Draw => Inv'
  <1> SUFFICES ASSUME Inv, Draw PROVE Inv'
    OBVIOUS
  <1>1. /\ pc = "draw" /\ pc' = "input" /\ signalled' = NoSignal /\ view_mode' = view_mode
        /\ sample' = sample /\ tty_height' = tty_height
    BY DEF Draw
  <1>2. Question' /\ OnlyConfirmed'
    BY <1>1 DEF Question, OnlyConfirmed, NoSignal, Asking
  <1>3. CASE DrawProcessList
    <2>1. PICK list \in Lists :
            LET count   == Len(list)
                index   == Clamped(Followed(list), count)
                visible == IF Rows(tty_height) < count THEN Rows(tty_height) ELSE count
                top     == Scrolled(index, visible)
                bottom  == IF top + visible < count THEN top + visible ELSE count
            IN  /\ Ranked(list)
                /\ displayed_pids' = list /\ selected_index' = index /\ scroll_offset' = top
                /\ screen' = [view |-> "list", rows |-> SubSeq(list, top + 1, bottom),
                              highlight |-> IF index \in top .. bottom - 1 THEN list[index + 1]
                                                                           ELSE NoPid]
      BY <1>3 DEF DrawProcessList
    <2> DEFINE count   == Len(list)
               index   == Clamped(Followed(list), count)
               visible == IF Rows(tty_height) < count THEN Rows(tty_height) ELSE count
               top     == Scrolled(index, visible)
               bottom  == IF top + visible < count THEN top + visible ELSE count
    <2>2. /\ Ranked(list) /\ view_mode = "list"
          /\ displayed_pids' = list /\ selected_index' = index /\ scroll_offset' = top
          /\ screen' = [view |-> "list", rows |-> SubSeq(list, top + 1, bottom),
                        highlight |-> IF index \in top .. bottom - 1 THEN list[index + 1]
                                                                     ELSE NoPid]
      BY <1>3, <2>1 DEF DrawProcessList
    <2>3. /\ index \in Nat /\ top \in Nat /\ (list # <<>> => index < Len(list))
          /\ SubSeq(list, top + 1, bottom) # <<>>
                => index < Len(list) /\ index \in top .. bottom - 1
      BY <2>2, Frame DEF Inv
    <2> HIDE DEF index, top, bottom
    <2>4. Types'
      BY <1>1, <2>2, <2>3, ListIsSeq DEF Types, Inv
    <2>5. IndexInRange'
      BY <2>2, <2>3 DEF IndexInRange
    <2>6. HighlightIsSelected'
      BY <2>2, <2>3, ListIsSeq DEF HighlightIsSelected, SelectedPid
    <2>7. Settled'
      BY <1>1, <2>2 DEF Settled
    <2> QED
      BY <1>2, <2>4, <2>5, <2>6, <2>7 DEF Inv
  <1>4. CASE DrawOutOfMemory \/ DrawProcessDetail \/ DrawOther
    <2>1. /\ UNCHANGED <<displayed_pids, selected_index, scroll_offset>>
          /\ screen'.rows = <<>> /\ screen'.view = view_mode
      BY <1>4 DEF DrawOutOfMemory, DrawProcessDetail, DrawOther
    <2>2. Types' /\ IndexInRange'
      BY <1>1, <2>1 DEF Inv, Types, IndexInRange
    <2>3. HighlightIsSelected' /\ Settled'
      BY <1>1, <2>1 DEF HighlightIsSelected, Settled
    <2> QED
      BY <1>2, <2>2, <2>3 DEF Inv
  <1> QED
    BY <1>3, <1>4 DEF Draw

\* The keys that move the selection within the list.
LEMMA Moves ==
    ASSUME Types, IndexInRange,
           NEW i, i \in {PageUp, PageDown, SelectPrevious, SelectNext}
    PROVE  i \in Nat /\ (displayed_pids # <<>> => i < Len(displayed_pids))
  <1>1. /\ Len(displayed_pids) \in Nat /\ selected_index \in Nat /\ PageSize \in Nat
        /\ displayed_pids # <<>> => Len(displayed_pids) > 0 /\ selected_index < Len(displayed_pids)
    BY LenProperties, EmptySeq, UiAssumption DEF Types, IndexInRange
  <1> QED
    BY <1>1 DEF PageUp, PageDown, SelectPrevious, SelectNext

LEMMA Step == Inv /\ [Next]_vars => Inv'
  <1> SUFFICES ASSUME Inv, [Next]_vars PROVE Inv'
    OBVIOUS
  <1> USE DEF Inv
  <1>1. CASE Publish
    <2>1. DOMAIN sample' \subseteq Pid /\ tty_height' \in Nat /\ pc' = pc
      BY <1>1 DEF Publish, Samples, terminal, Types
    <2>2. Types' /\ IndexInRange' /\ HighlightIsSelected' /\ SelectedPid' = SelectedPid
      BY <1>1, <2>1, Unmoved DEF Publish, selection, terminal, Types
    <2>3. Settled' /\ Question' /\ OnlyConfirmed'
      BY <1>1, <2>2 DEF Publish, selection, terminal, Settled, Question, OnlyConfirmed
    <2> QED
      BY <2>2, <2>3
  <1>2. CASE Pass
    <2>1. Types' /\ IndexInRange' /\ HighlightIsSelected'
      BY <1>2, Unmoved DEF Pass, selection, terminal, Types
    <2>2. Settled' /\ Question' /\ OnlyConfirmed'
      BY <1>2 DEF Pass, Settled, Question, OnlyConfirmed
    <2> QED
      BY <2>1, <2>2
  <1>3. CASE Navigate
    <2>1. /\ selected_index' \in {PageUp, PageDown, SelectPrevious, SelectNext}
          /\ pc = "input" /\ pc' = "draw" /\ tty_height' = tty_height
          /\ UNCHANGED <<sample, displayed_pids, scroll_offset, signalled>>
      BY <1>3 DEF Navigate, Press, terminal
    <2>2. Types' /\ IndexInRange'
      BY <2>1, Moves DEF Types, IndexInRange
    <2>3. HighlightIsSelected' /\ Settled' /\ Question'
      BY <2>1 DEF HighlightIsSelected, Settled, Question
    <2>4. OnlyConfirmed'
      BY <2>1 DEF Settled, OnlyConfirmed, NoSignal, Asking
    <2> QED
      BY <2>2, <2>3, <2>4
  <1>4. CASE ChangeView
    <2>1. /\ scroll_offset' = 0 /\ pc = "input" /\ pc' = "draw" /\ tty_height' = tty_height
          /\ UNCHANGED <<sample, displayed_pids, selected_index, signalled>>
      BY <1>4 DEF ChangeView, Press, terminal
    <2>2. Types' /\ IndexInRange'
      BY <2>1 DEF Types, IndexInRange
    <2>3. HighlightIsSelected' /\ Settled' /\ Question'
      BY <2>1 DEF HighlightIsSelected, Settled, Question
    <2>4. OnlyConfirmed'
      BY <2>1 DEF Settled, OnlyConfirmed, NoSignal, Asking
    <2> QED
      BY <2>2, <2>3, <2>4
  <1>5. CASE Resize \/ OtherKey
    <2>1. /\ pc = "input" /\ pc' = "draw" /\ signalled' = signalled
          /\ UNCHANGED <<sample, displayed_pids, selected_index, scroll_offset, screen>>
          /\ tty_height' \in Nat
      BY <1>5, UiAssumption DEF Resize, OtherKey, Press, selection, terminal, Types
    <2>2. Types' /\ IndexInRange' /\ HighlightIsSelected'
      BY <2>1, Unmoved DEF Types
    <2>3. Settled' /\ Question' /\ OnlyConfirmed'
      BY <2>1 DEF Settled, Question, OnlyConfirmed, NoSignal, Asking
    <2> QED
      BY <2>2, <2>3
  <1>6. CASE ContinueKey
    <2>1. /\ pc = "input" /\ pc' = "draw"
          /\ signalled' = signalled \/ signalled'.sig = "SIGCONT"
          /\ UNCHANGED <<sample, displayed_pids, selected_index, scroll_offset, screen>>
          /\ tty_height' \in Nat
      BY <1>6 DEF ContinueKey, SendTo, selection, terminal, Types
    <2>2. Types' /\ IndexInRange' /\ HighlightIsSelected'
      BY <2>1, Unmoved DEF Types
    <2>3. Settled' /\ Question' /\ OnlyConfirmed'
      BY <2>1 DEF Settled, Question, OnlyConfirmed, NoSignal, Asking
    <2> QED
      BY <2>2, <2>3
  <1>7. ASSUME NEW sig \in Asking, SignalKey(sig) PROVE Inv'
    <2>1. /\ pc = "input" /\ pc' \in {"find", "draw"} /\ signalled' = signalled
          /\ UNCHANGED <<sample, displayed_pids, view_mode, selected_index, scroll_offset, screen>>
          /\ tty_height' \in Nat
          /\ pc' = "find" => view_mode = "list" /\ asked' = [pid |-> SelectedPid, sig |-> sig]
      BY <1>7 DEF SignalKey, Press, selection, terminal, Types
    <2>2. Types' /\ IndexInRange' /\ HighlightIsSelected' /\ SelectedPid' = SelectedPid
      BY <2>1, Unmoved DEF Types
    <2>3. Settled' /\ Question' /\ OnlyConfirmed'
      BY <2>1, <2>2 DEF Settled, Question, OnlyConfirmed, NoSignal, Asking
    <2> QED
      BY <2>2, <2>3
  <1>8. CASE FindTarget
    <2>1. /\ pc = "find" /\ pc' \in {"prompt", "draw"} /\ (pc' = "prompt" => asked' = asked)
          /\ UNCHANGED <<sample, displayed_pids, view_mode, selected_index, scroll_offset, screen>>
          /\ UNCHANGED <<key, signalled, tty_height>>
      BY <1>8 DEF FindTarget, selection, terminal
    <2>2. Types' /\ IndexInRange' /\ HighlightIsSelected' /\ SelectedPid' = SelectedPid
      BY <2>1, Unmoved DEF Types
    <2>3. Settled' /\ Question' /\ OnlyConfirmed'
      BY <2>1, <2>2 DEF Settled, Question, OnlyConfirmed
    <2> QED
      BY <2>2, <2>3
  <1>9. ASSUME NEW k \in {"y", "n", "resize"}, Answer(k) PROVE Inv'
    <2>1. /\ pc = "prompt" /\ pc' = "draw" /\ key' = k
          /\ signalled' = signalled \/ k = "y"
          /\ UNCHANGED <<sample, displayed_pids, view_mode, selected_index, scroll_offset, screen>>
          /\ tty_height' \in Nat
      BY <1>9, UiAssumption DEF Answer, Confirmed, SendTo, selection, Types
    <2>2. Types' /\ IndexInRange' /\ HighlightIsSelected'
      BY <2>1, Unmoved DEF Types
    <2>3. Settled' /\ Question' /\ OnlyConfirmed'
      BY <2>1 DEF Settled, Question, OnlyConfirmed, NoSignal, Asking
    <2> QED
      BY <2>2, <2>3
  <1>10. CASE Draw
    BY <1>10, DrawStep
  <1>11. CASE UNCHANGED vars
    <2>1. Types' /\ IndexInRange'
      BY <1>11 DEF vars, selection, terminal, Types, IndexInRange
    <2>2. HighlightIsSelected' /\ Settled' /\ Question' /\ OnlyConfirmed'
      BY <1>11 DEF vars, selection, terminal, HighlightIsSelected, SelectedPid, Settled, Question,
         OnlyConfirmed
    <2> QED
      BY <2>1, <2>2
  <1> QED
    BY <1>1, <1>2, <1>3, <1>4, <1>5, <1>6, <1>7, <1>8, <1>9, <1>10, <1>11 DEF Next

(* The inductive invariant of lists, frames and questions holds of every   *)
(* behaviour.                                                              *)
THEOREM Invariance == Spec => []Inv
  BY Initial, Step, PTL DEF Spec

(* The selection is in the list, whatever leaves the sample.               *)
THEOREM SelectionInRange == Spec => []IndexInRange
<1>1. Inv => IndexInRange
  BY DEF Inv
<1>2. QED
  BY <1>1, Invariance, PTL

(* Nobody but the selected process carries the highlight, and it is shown. *)
THEOREM HighlightShown == Spec => []HighlightIsSelected
<1>1. Inv => HighlightIsSelected
  BY DEF Inv
<1>2. QED
  BY <1>1, Invariance, PTL

(* No SIGTERM, SIGKILL or SIGSTOP without a yes.                           *)
THEOREM YesNeeded == Spec => []OnlyConfirmed
<1>1. Inv => OnlyConfirmed
  BY DEF Inv
<1>2. QED
  BY <1>1, Invariance, PTL

(* Signals go to the selected process, from the list, and that process is  *)
(* highlighted wherever the screen has a row of the list.                  *)
THEOREM SelectedIsSignalled == Spec => SignalsSelected
<1>1. Inv /\ [Next]_vars
        => [Sends => /\ screen.view = "list"
                     /\ signalled'.pid = SelectedPid
                     /\ screen.rows # <<>> => signalled'.pid = screen.highlight]_vars
  <2> SUFFICES ASSUME Inv, Next, signalled' # NoSignal, signalled = NoSignal
               PROVE  /\ screen.view = "list"
                      /\ signalled'.pid = SelectedPid
                      /\ screen.rows # <<>> => signalled'.pid = screen.highlight
    BY DEF Sends
  <2>1. /\ pc \in {"input", "prompt"} /\ view_mode = "list"
        /\ signalled'.pid = SelectedPid
    <3>1. CASE ContinueKey
      BY <3>1 DEF ContinueKey, SendTo
    <3>2. CASE \E k \in {"y", "n", "resize"} : Answer(k)
      BY <3>2 DEF Answer, SendTo, Inv, Question
    <3>3. CASE Draw
      BY <3>3 DEF Draw
    <3>4. CASE Publish \/ Pass \/ Navigate \/ ChangeView \/ Resize \/ OtherKey \/ FindTarget
      BY <3>4 DEF Publish, Pass, Navigate, ChangeView, Resize, OtherKey, FindTarget, Press
    <3>5. CASE \E sig \in Asking : SignalKey(sig)
      BY <3>5 DEF SignalKey, Press
    <3> QED
      BY <3>1, <3>2, <3>3, <3>4, <3>5 DEF Next
  <2> QED
    BY <2>1 DEF Inv, Settled, HighlightIsSelected
<1>2. QED
  BY <1>1, Invariance, PTL DEF Spec, SignalsSelected

(* The highlight follows its process: samples never move it elsewhere.     *)
THEOREM HighlightFollows == Spec => SelectionFollows
<1>1. Inv /\ [Next]_vars
        => [SelectedPid' # SelectedPid
            => \/ pc = "input" /\ key' \in {"up", "down", "pageup", "pagedown"}
               \/ pc = "draw" /\ SelectedPid \notin DOMAIN sample]_vars
  <2> SUFFICES ASSUME Inv, Next, SelectedPid' # SelectedPid
               PROVE  \/ pc = "input" /\ key' \in {"up", "down", "pageup", "pagedown"}
                      \/ pc = "draw" /\ SelectedPid \notin DOMAIN sample
    OBVIOUS
  <2>1. ~ UNCHANGED <<displayed_pids, selected_index>>
    BY DEF SelectedPid
  <2>2. CASE Navigate
    BY <2>2 DEF Navigate, Press
  <2>3. CASE Draw
    <3>1. pc = "draw" /\ DrawProcessList
      BY <2>1, <2>3 DEF Draw, DrawOutOfMemory, DrawProcessDetail, DrawOther
    <3>2. PICK list \in Lists :
            LET count   == Len(list)
                index   == Clamped(Followed(list), count)
            IN  Ranked(list) /\ displayed_pids' = list /\ selected_index' = index
      BY <3>1 DEF DrawProcessList
    <3>3. ASSUME SelectedPid \in DOMAIN sample PROVE FALSE
      <4>1. /\ Followed(list) \in Nat /\ Len(list) \in Nat
            /\ Followed(list) < Len(list) /\ list[Followed(list) + 1] = SelectedPid
        BY <3>2, <3>3, Follows, ListIsSeq DEF Inv
      <4>2. selected_index' = Followed(list)
        BY <3>2, <4>1, Clamps
      <4>3. SelectedPid' = SelectedPid
        BY <3>2, <4>1, <4>2 DEF SelectedPid
      <4> QED
        BY <4>3
    <3> QED
      BY <3>1, <3>3
  <2>4. CASE \/ Publish \/ Pass \/ ChangeView \/ Resize \/ OtherKey \/ ContinueKey \/ FindTarget
             \/ \E sig \in Asking : SignalKey(sig)
             \/ \E k \in {"y", "n", "resize"} : Answer(k)
    BY <2>1, <2>4 DEF Publish, Pass, ChangeView, Resize, OtherKey, ContinueKey, FindTarget,
       SignalKey, Answer, Press, selection
  <2> QED
    BY <2>2, <2>3, <2>4 DEF Next
<1>2. QED
  BY <1>1, Invariance, PTL DEF Spec, SelectionFollows
=============================================================================
