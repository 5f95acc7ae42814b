--------------------------------- MODULE Ui ---------------------------------
(***************************************************************************)
(* The selection, the views and the signals: ui/ui.c with the key handling *)
(* of main.c and signals/process_control.c, against samples that change at *)
(* any moment and a terminal that is resized.                              *)
(*                                                                         *)
(* A published sample is a function from its PIDs to their CPU%.  The      *)
(* threads and the lock are those of Collector: here a new sample appears  *)
(* between any two steps of the main thread, and a frame is one step.      *)
(***************************************************************************)
EXTENDS Integers, Sequences

CONSTANTS MaxPid,    \* PIDs are 1 .. MaxPid
          MaxCpu,    \* CPU% is 0 .. MaxCpu
          Heights,   \* the heights a terminal can have
          PageSize   \* how far page up and down go: 10

ASSUME UiAssumption ==
    MaxPid \in Nat /\ MaxCpu \in Nat /\ Heights \subseteq Nat /\ PageSize \in Nat \ {0}

VARIABLES
    sample,            \* what the collector has published
    undrawn,           \* it has not been drawn yet
    \* km_ui
    view_mode, selected_index, scroll_offset, displayed_pids, term_height,
    \* the terminal: its height for ncurses, and what it shows
    tty_height, screen,
    \* main()
    pc, asked,         \* the signal that signal_selected() is to send
    \* the key being handled and the signal it sent, until the next frame
    key, signalled

selection == <<view_mode, selected_index, scroll_offset>>
terminal  == <<tty_height, term_height, screen>>
vars == <<sample, undrawn, selection, displayed_pids, terminal, pc, asked, key, signalled>>

Pid      == 1 .. MaxPid
NoPid    == -1
Samples  == UNION {[S -> 0 .. MaxCpu] : S \in SUBSET Pid}
Asking   == {"SIGTERM", "SIGKILL", "SIGSTOP"}     \* the signals that are confirmed
NoSignal == [pid |-> NoPid, sig |-> "none"]
Signal   == [pid : Pid, sig : Asking \cup {"SIGCONT"}] \cup {NoSignal}
Views    == {"list", "detail", "tree", "events"}

\* km_ui_selected_pid()
SelectedPid == IF selected_index >= Len(displayed_pids) THEN NoPid
               ELSE displayed_pids[selected_index + 1]

Init ==
    /\ sample \in Samples /\ undrawn = TRUE
    /\ view_mode = "list" /\ selected_index = 0 /\ scroll_offset = 0 /\ displayed_pids = <<>>
    /\ tty_height \in Heights /\ term_height = tty_height
    /\ screen = [view |-> "list", rows |-> <<>>, highlight |-> NoPid]
    /\ pc = "input" /\ asked = NoSignal /\ key = "none" /\ signalled = NoSignal

\* The collector publishes, also while the user is being asked.
Publish ==
    /\ sample' \in Samples /\ sample' # sample
    /\ undrawn' = TRUE
    /\ UNCHANGED <<selection, displayed_pids, terminal, pc, asked, key, signalled>>

----------------------------------------------------------------------------
(* Keys: main() waits for one, handles it and draws.                       *)

\* No key for one tick of input, but a new sample.
Pass ==
    /\ pc = "input" /\ undrawn
    /\ pc' = "draw"
    /\ UNCHANGED <<sample, undrawn, selection, displayed_pids, terminal, asked, key, signalled>>

Press(k) ==
    pc = "input" /\ key' = k /\ UNCHANGED <<sample, undrawn, displayed_pids, signalled>>

PageUp   == IF selected_index >= PageSize THEN selected_index - PageSize ELSE 0
PageDown == IF displayed_pids = <<>> THEN selected_index
            ELSE IF selected_index + PageSize < Len(displayed_pids) - 1
                 THEN selected_index + PageSize ELSE Len(displayed_pids) - 1
SelectPrevious == IF selected_index > 0 THEN selected_index - 1 ELSE 0
SelectNext     == IF selected_index + 1 < Len(displayed_pids) THEN selected_index + 1
                                                             ELSE selected_index

\* The four keys move the selection, in every view.
Navigate ==
    /\ \/ Press("up")       /\ selected_index' = SelectPrevious
       \/ Press("down")     /\ selected_index' = SelectNext
       \/ Press("pageup")   /\ selected_index' = PageUp
       \/ Press("pagedown") /\ selected_index' = PageDown
    /\ pc' = "draw"
    /\ UNCHANGED <<view_mode, scroll_offset, terminal, asked>>

\* km_ui_set_view_mode(): Enter only from the list, the others from anywhere.
ChangeView ==
    /\ \/ Press("enter") /\ view_mode = "list" /\ view_mode' = "detail"
       \/ Press("back")  /\ view_mode' = "list"
       \/ Press("tree")  /\ view_mode' = "tree"
       \/ Press("events") /\ view_mode' = "events"
    /\ scroll_offset' = 0
    /\ pc' = "draw"
    /\ UNCHANGED <<selected_index, terminal, asked>>

\* ncurses has resized stdscr; the windows follow with the next frame.
Resize ==
    /\ Press("resize") /\ tty_height' \in Heights
    /\ pc' = "draw"
    /\ UNCHANGED <<selection, term_height, screen, asked>>

\* The other keys: refresh, the interval, Enter outside the list.
OtherKey ==
    /\ Press("other")
    /\ pc' = "draw"
    /\ UNCHANGED <<selection, terminal, asked>>

\* kill(), whatever comes of it: the outcome is a text on the status bar.
SendTo(signal) == signalled' = signal

\* C: SIGCONT, without a question.
ContinueKey ==
    /\ pc = "input" /\ key' = "c"
    /\ IF view_mode = "list" /\ SelectedPid > 0
       THEN SendTo([pid |-> SelectedPid, sig |-> "SIGCONT"])
       ELSE UNCHANGED signalled
    /\ pc' = "draw"
    /\ UNCHANGED <<sample, undrawn, selection, displayed_pids, terminal, asked>>

\* Faulty: the view is not looked at.
SignalKey_AnyView(sig) ==
    /\ Press(sig)
    /\ IF SelectedPid > 0
       THEN pc' = "find" /\ asked' = [pid |-> SelectedPid, sig |-> sig]
       ELSE pc' = "draw" /\ UNCHANGED asked
    /\ UNCHANGED <<selection, terminal>>

\* K, X, S: signal_selected() up to its lock.
SignalKey(sig) ==
    /\ Press(sig)
    /\ IF view_mode = "list" /\ SelectedPid > 0
       THEN pc' = "find" /\ asked' = [pid |-> SelectedPid, sig |-> sig]
       ELSE pc' = "draw" /\ UNCHANGED asked
    /\ UNCHANGED <<selection, terminal>>

\* Under the lock: the process is looked up for its name.  If the sample no
\* longer has it, nothing more happens, nor if the dialog cannot be shown, for
\* one because the terminal has less than 9 lines.
FindTarget ==
    /\ pc = "find"
    /\ \/ pc' = "draw" /\ asked' = NoSignal
       \/ asked.pid \in DOMAIN sample /\ term_height >= 9 /\ pc' = "prompt" /\ UNCHANGED asked
    /\ UNCHANGED <<sample, undrawn, selection, displayed_pids, terminal, key, signalled>>

\* Faulty: everything but a no is a yes.
Confirmed_Lax(k) == k # "n"

\* km_ui_confirm(): everything but a yes is a no.
Confirmed(k) == k = "y"

\* The answer is the next key, a resize included.
Answer(k) ==
    /\ pc = "prompt"
    /\ key' = k
    /\ IF k = "resize" THEN tty_height' \in Heights ELSE UNCHANGED tty_height
    /\ IF Confirmed(k) THEN SendTo(asked) ELSE UNCHANGED signalled
    /\ asked' = NoSignal /\ pc' = "draw"
    /\ UNCHANGED <<sample, undrawn, selection, displayed_pids, term_height, screen>>

----------------------------------------------------------------------------
(* km_ui_draw()                                                            *)

\* compare_by_cpu(): by CPU% downwards, then by PID.
Above(p, q) == sample[p] > sample[q] \/ (sample[p] = sample[q] /\ p < q)

\* The sample in this order: there is one such list.
Ranked(list) ==
    /\ {list[i] : i \in DOMAIN list} = DOMAIN sample
    /\ \A i, j \in DOMAIN list : i < j => Above(list[i], list[j])

Lists == UNION {[1 .. n -> Pid] : n \in 0 .. MaxPid}

\* Faulty: the selection keeps its row, whoever is in it.
Followed_KeepsRow(list) == selected_index

\* The row of the process selected so far, if the new list has it.
Followed(list) ==
    IF \E i \in DOMAIN list : list[i] = SelectedPid
    THEN (CHOOSE i \in DOMAIN list : list[i] = SelectedPid) - 1
    ELSE selected_index

\* Faulty: a selection beyond a list that got shorter stays there.
Clamped_Not(i, n) == i

Clamped(i, n) == IF n > 0 /\ i >= n THEN n - 1 ELSE i

\* Faulty: the list scrolls down to the selection, but not up.
Scrolled_DownOnly(i, visible) ==
    IF i >= scroll_offset + visible THEN i - visible + 1 ELSE scroll_offset

\* Scrolls just as far as the selection demands.
Scrolled(i, visible) ==
    LET down == IF i >= scroll_offset + visible THEN i - visible + 1 ELSE scroll_offset
    IN  IF i < down THEN i ELSE down

\* The rows of the list: the terminal without borders, bars and headings.
Rows(height) == IF height > 9 THEN height - 9 ELSE 0

DrawProcessList ==
    /\ view_mode = "list"
    /\ \E list \in Lists :
        LET count   == Len(list)
            index   == Clamped(Followed(list), count)
            visible == IF Rows(tty_height) < count THEN Rows(tty_height) ELSE count
            top     == Scrolled(index, visible)
            bottom  == IF top + visible < count THEN top + visible ELSE count
        IN  /\ Ranked(list)
            /\ displayed_pids' = list
            /\ selected_index' = index
            /\ scroll_offset' = top
            /\ screen' = [view |-> "list", rows |-> SubSeq(list, top + 1, bottom),
                          highlight |-> IF index \in top .. bottom - 1 THEN list[index + 1]
                                                                       ELSE NoPid]

\* Without memory for the list, the frame says so and nothing else changes.
DrawOutOfMemory ==
    /\ view_mode = "list"
    /\ screen' = [view |-> "list", rows |-> <<>>, highlight |-> NoPid]
    /\ UNCHANGED <<displayed_pids, selected_index, scroll_offset>>

\* The details of the selected process, if the sample still has it.
DrawProcessDetail ==
    /\ view_mode = "detail"
    /\ screen' = [view |-> "detail", rows |-> <<>>,
                  highlight |-> IF SelectedPid \in DOMAIN sample THEN SelectedPid ELSE NoPid]
    /\ UNCHANGED <<displayed_pids, selected_index, scroll_offset>>

\* The tree starts at its first root and the events at the latest, always.
DrawOther ==
    /\ view_mode \in {"tree", "events"}
    /\ screen' = [view |-> view_mode, rows |-> <<>>, highlight |-> NoPid]
    /\ UNCHANGED <<displayed_pids, selected_index, scroll_offset>>

Draw ==
    /\ pc = "draw"
    /\ DrawProcessList \/ DrawOutOfMemory \/ DrawProcessDetail \/ DrawOther
    /\ term_height' = tty_height /\ undrawn' = FALSE /\ pc' = "input"
    /\ key' = "none" /\ signalled' = NoSignal
    /\ UNCHANGED <<sample, view_mode, tty_height, asked>>

Next ==
    \/ Publish \/ Pass \/ Navigate \/ ChangeView \/ Resize \/ OtherKey \/ ContinueKey
    \/ \E sig \in Asking : SignalKey(sig)
    \/ FindTarget
    \/ \E k \in {"y", "n", "resize"} : Answer(k)
    \/ Draw

Spec == Init /\ [][Next]_vars

----------------------------------------------------------------------------
(* Properties.                                                             *)

(* The selection never points beyond the list, nor the list or the         *)
(* selection before its beginning, so that the arrays of the list are      *)
(* never read outside, whatever leaves the sample and whichever page key   *)
(* is pressed on a list that has become short.                             *)
IndexInRange ==
    /\ selected_index >= 0 /\ scroll_offset >= 0
    /\ displayed_pids # <<>> => selected_index < Len(displayed_pids)

(* When main() waits for a key or an answer and the screen shows rows of   *)
(* the list, the selected process is one of them and carries the highlight.*)
HighlightIsSelected ==
    pc \in {"input", "find", "prompt"} /\ screen.view = "list" /\ screen.rows # <<>>
       => screen.highlight = SelectedPid

(* The selection, and with it the highlight, follows its process through   *)
(* the list: only a key of the user moves it to another process, unless    *)
(* the process has left the sample.                                        *)
SelectionFollows ==
    [][SelectedPid' # SelectedPid
       => \/ pc = "input" /\ key' \in {"up", "down", "pageup", "pagedown"}
          \/ pc = "draw" /\ SelectedPid \notin DOMAIN sample]_vars

Sends == signalled' # NoSignal /\ signalled = NoSignal

(* A signal goes to the process that is selected in the list drawn last,   *)
(* in front of the user, however many samples were published and whatever  *)
(* has left while the question was open; it is the highlighted one, unless *)
(* the screen has no row of the list: then nobody is highlighted, and the  *)
(* signal goes to the selected process all the same (SignalsAreShown).     *)
SignalsSelected ==
    [][Sends => /\ screen.view = "list"
                /\ signalled'.pid = SelectedPid
                /\ screen.rows # <<>> => signalled'.pid = screen.highlight]_vars

(* "K/S/C always signal the process that is highlighted" (ui.c): whoever   *)
(* is sent a signal carries the highlight on the screen.  A terminal       *)
(* without room for a row, or a frame without memory for the list, shows   *)
(* no highlight, and the keys work on.                                     *)
SignalsAreShown == [][Sends => screen.highlight = signalled'.pid]_vars

(* SIGTERM, SIGKILL and SIGSTOP are only sent by a yes: "a destructive     *)
(* action should not time out into a default" (ui.c), nor happen because   *)
(* the terminal was resized meanwhile.                                     *)
OnlyConfirmed == signalled.sig \in Asking => key = "y"
=============================================================================
