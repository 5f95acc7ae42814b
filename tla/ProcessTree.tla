----------------------------- MODULE ProcessTree -----------------------------
(***************************************************************************)
(* The tree view: km_process_tree_build() of process/process_monitor.c and *)
(* draw_process_tree() of ui/ui.c, on the samples that a sweep of /proc    *)
(* can return while processes are forked, exit, are given to another       *)
(* parent and leave their PIDs to others.                                  *)
(*                                                                         *)
(* Indices start at 1, and row 1 of the drawing is row 2 of the window.    *)
(* The recursion of draw_tree_recursive() is a stack of frames, one for    *)
(* every call that is in its loop over the children.                       *)
(***************************************************************************)
EXTENDS Parser

CONSTANTS MaxPid,      \* PIDs are 1 .. MaxPid; 1 is init
          Heights,     \* the heights a terminal can have
          Names,       \* the name of each process, as words of its stat line
          NameSize,    \* sizeof(info->name)
          PrefixMax,   \* KM_TREE_PREFIX_MAX, 512
          MaxForks     \* bound: how many processes are forked

ASSUME TreeAssumption ==
    /\ MaxPid \in Nat \ {0} /\ Heights \subseteq Nat /\ PrefixMax \in Nat \ {0} /\ MaxForks \in Nat
    /\ Names \in [1 .. MaxPid -> Seq(Int)] /\ NameSize \in Nat \ {0}

VARIABLES
    alive, parent, forks,                   \* the kernel
    pids, sample,                           \* the list of the sweep, what it has read
    child_count, child_start, total_children, child_pids, roots, fill,
    stack, prefix, rows,                    \* draw_tree_recursive() and the window
    term_height,
    pc, at

kernel == <<alive, parent, forks>>
tree   == <<child_count, child_start, total_children, child_pids, roots, fill>>
window == <<stack, prefix, rows>>
vars   == <<kernel, pids, sample, tree, window, term_height, pc, at>>

Pid      == 1 .. MaxPid
PidsOf(s) == {s[i].pid : i \in DOMAIN s}
Zeroes   == [i \in DOMAIN sample |-> 0]

\* find_in(): the index of a PID of the sample.
IndexOf(p) == CHOOSE i \in DOMAIN sample : sample[i].pid = p

Init ==
    /\ alive = {1} /\ parent = [p \in Pid |-> 0] /\ forks = 0
    /\ pids = <<>> /\ sample = <<>>
    /\ child_count = <<>> /\ child_start = <<>> /\ total_children = 0 /\ child_pids = <<>>
    /\ roots = <<>> /\ fill = <<>>
    /\ stack = <<>> /\ prefix = <<>> /\ rows = <<>>
    /\ term_height \in Heights
    /\ pc = "idle" /\ at = 1

----------------------------------------------------------------------------
(* The kernel and the sweep.  What happens after the sweep is not seen.    *)

Fork(q, p) ==
    /\ pc \in {"idle", "read"} /\ forks < MaxForks
    /\ q \in alive /\ p \notin alive
    /\ alive' = alive \cup {p} /\ parent' = [parent EXCEPT ![p] = q] /\ forks' = forks + 1
    /\ UNCHANGED <<pids, sample, tree, window, term_height, pc, at>>

\* The children of a process that exits become children of init.
Exit(p) ==
    /\ pc \in {"idle", "read"} /\ p \in alive \ {1}
    /\ alive' = alive \ {p}
    /\ parent' = [q \in Pid |-> IF q \in alive /\ parent[q] = p THEN 1 ELSE parent[q]]
    /\ UNCHANGED <<forks, pids, sample, tree, window, term_height, pc, at>>

Increasing(s) == \A i, j \in DOMAIN s : i < j => s[i] < s[j]

\* km_proc_list_pids()
ListPids ==
    /\ pc = "idle" /\ pc' = "read"
    /\ \E list \in [1 .. Cardinality(alive) -> alive] :
          Increasing(list) /\ Range(list) = alive /\ pids' = list
    /\ UNCHANGED <<kernel, sample, tree, window, term_height, at>>

\* read_process_info(): name and parent at this moment, or nothing.
Read ==
    /\ pc = "read" /\ at <= Len(pids)
    /\ LET p    == pids[at]
           line == StatLine(p, Names[p], parent[p])
       IN  sample' = IF p \in alive /\ ParsesProcStat(line, NameSize)
                     THEN Append(sample, [pid |-> p, ppid |-> Ppid(line),
                                          name |-> Comm(line, NameSize)])
                     ELSE sample
    /\ at' = at + 1
    /\ UNCHANGED <<kernel, pids, tree, window, term_height, pc>>

----------------------------------------------------------------------------
(* km_process_tree_build()                                                 *)

\* A loop over the processes goes on, or the next loop starts.
Advance(next) ==
    IF at < Len(sample) THEN at' = at + 1 /\ UNCHANGED pc ELSE at' = 1 /\ pc' = next

\* Without processes there is nothing to do; else the arrays are allocated,
\* or there is no tree.
Allocate ==
    /\ pc = "read" /\ at > Len(pids)
    /\ child_count' = Zeroes /\ child_start' = Zeroes /\ fill' = Zeroes
    /\ pc' \in (IF sample = <<>> THEN {"draw"} ELSE {"count", "failed"}) /\ at' = 1
    /\ UNCHANGED <<kernel, pids, sample, total_children, child_pids, roots, window, term_height>>

\* First pass: a process is another child of its parent, or a root.
Count ==
    /\ pc = "count" /\ Advance("offset")
    /\ LET ppid == sample[at].ppid
       IN  IF ppid \in PidsOf(sample)
           THEN /\ child_count' = [child_count EXCEPT ![IndexOf(ppid)] = @ + 1]
                /\ UNCHANGED roots
           ELSE /\ roots' = Append(roots, sample[at].pid)
                /\ UNCHANGED child_count
    /\ UNCHANGED <<kernel, pids, sample, child_start, total_children, child_pids, fill>>
    /\ UNCHANGED <<window, term_height>>

\* The counts become offsets into one array ...
Offset ==
    /\ pc = "offset" /\ Advance("array")
    /\ child_start' = [child_start EXCEPT ![at] = total_children]
    /\ total_children' = total_children + child_count[at]
    /\ UNCHANGED <<kernel, pids, sample, child_count, child_pids, roots, fill, window, term_height>>

\* ... which is allocated if it is not empty.
AllocateChildren ==
    /\ pc = "array" /\ pc' \in IF total_children = 0 THEN {"place"} ELSE {"place", "failed"}
    /\ child_pids' = [k \in 1 .. total_children |-> 0]
    /\ UNCHANGED <<kernel, pids, sample, child_count, child_start, total_children, roots, fill>>
    /\ UNCHANGED <<window, term_height, at>>

\* Faulty: the place in the slice is not moved on.
Place_SamePlace ==
    /\ pc = "place" /\ Advance("late")
    /\ LET ppid == sample[at].ppid
       IN  child_pids' = IF ppid \in PidsOf(sample)
                         THEN [child_pids EXCEPT ![child_start[IndexOf(ppid)] + 1] = sample[at].pid]
                         ELSE child_pids
    /\ UNCHANGED <<kernel, pids, sample, child_count, child_start, total_children, roots, fill>>
    /\ UNCHANGED <<window, term_height>>

\* Second pass: a child goes to the next place of its parent's slice.
Place ==
    /\ pc = "place" /\ Advance("late")
    /\ LET ppid == sample[at].ppid
           i    == IndexOf(ppid)
       IN  IF ppid \in PidsOf(sample)
           THEN /\ child_pids' = [child_pids EXCEPT ![child_start[i] + fill[i] + 1] = sample[at].pid]
                /\ fill' = [fill EXCEPT ![i] = @ + 1]
           ELSE UNCHANGED <<child_pids, fill>>
    /\ UNCHANGED <<kernel, pids, sample, child_count, child_start, total_children, roots>>
    /\ UNCHANGED <<window, term_height>>

\* Faulty: a root of the first pass is entered again.
IsLateRoot_Again(i) == sample[i].ppid \in {0, sample[i].pid}

IsLateRoot(i) == sample[i].ppid \in {0, sample[i].pid} /\ sample[i].pid \notin Range(roots)

\* Third pass: whoever has no parent, or itself, and is not a root yet.
LateRoot ==
    /\ pc = "late" /\ Advance("draw")
    /\ roots' = IF IsLateRoot(at) THEN Append(roots, sample[at].pid) ELSE roots
    /\ UNCHANGED <<kernel, pids, sample, child_count, child_start, total_children, child_pids, fill>>
    /\ UNCHANGED <<window, term_height>>

\* km_process_tree_children()
Children(p) == SubSeq(child_pids, child_start[IndexOf(p)] + 1,
                      child_start[IndexOf(p)] + child_count[IndexOf(p)])

----------------------------------------------------------------------------
(* draw_process_tree() and draw_tree_recursive()                           *)

\* row >= max_row
Full == Len(rows) + 2 >= term_height - 10

\* The bytes of a prefix of bars (TRUE) and blanks: a bar has 5, blanks are 3.
Bytes(s) == 3 * Len(s) + 2 * Cardinality({i \in DOMAIN s : s[i]})

\* Faulty: the buffer is taken to be long enough.
Extended_NoLimit(depth, last) == IF depth > 0 THEN Append(prefix, ~last) ELSE prefix

\* The prefix for the children of a process, as far as the buffer has room.
Extended(depth, last) ==
    IF depth > 0 /\ Bytes(Append(prefix, ~last)) < PrefixMax
    THEN Append(prefix, ~last) ELSE prefix

\* A call draws a row, and enters its loop if the process has children.
Call(p, depth, last, frames) ==
    /\ rows' = Append(rows, [pid |-> p, depth |-> depth, prefix |-> prefix])
    /\ IF Children(p) = <<>>
       THEN stack' = frames /\ UNCHANGED prefix
       ELSE /\ stack' = Append(frames, [pid |-> p, depth |-> depth, len |-> Len(prefix), kid |-> 1])
            /\ prefix' = Extended(depth, last)

NextRoot ==
    /\ pc = "draw" /\ stack = <<>> /\ at <= Len(roots) /\ ~Full
    /\ Call(roots[at], 0, at = Len(roots), <<>>)
    /\ at' = at + 1
    /\ UNCHANGED <<kernel, pids, sample, tree, term_height, pc>>

Top  == Last(stack)
Kids == Children(Top.pid)

\* Faulty: the loop stays at the same child.
Advanced_Not(frames) == frames

Advanced(frames) == [frames EXCEPT ![Len(frames)].kid = @ + 1]

\* The next child is drawn, or its call returns because the window is full.
NextChild ==
    /\ pc = "draw" /\ stack # <<>> /\ Top.kid <= Len(Kids)
    /\ IF Full
       THEN stack' = Advanced(stack) /\ UNCHANGED <<prefix, rows>>
       ELSE Call(Kids[Top.kid], Top.depth + 1, Top.kid = Len(Kids), Advanced(stack))
    /\ UNCHANGED <<kernel, pids, sample, tree, term_height, pc, at>>

\* Faulty: the last child is forgotten.
Return_Early ==
    /\ pc = "draw" /\ stack # <<>> /\ Top.kid >= Len(Kids)
    /\ prefix' = SubSeq(prefix, 1, Top.len) /\ stack' = Front(stack)
    /\ UNCHANGED <<kernel, pids, sample, tree, rows, term_height, pc, at>>

Return ==
    /\ pc = "draw" /\ stack # <<>> /\ Top.kid > Len(Kids)
    /\ prefix' = SubSeq(prefix, 1, Top.len) /\ stack' = Front(stack)
    /\ UNCHANGED <<kernel, pids, sample, tree, rows, term_height, pc, at>>

Finish ==
    /\ pc = "draw" /\ stack = <<>> /\ (at > Len(roots) \/ Full)
    /\ pc' = "done"
    /\ UNCHANGED <<kernel, pids, sample, tree, window, term_height, at>>

Build == Allocate \/ Count \/ Offset \/ AllocateChildren \/ Place \/ LateRoot
Draw  == NextRoot \/ NextChild \/ Return \/ Finish

Next ==
    \/ \E p, q \in Pid : Fork(q, p)
    \/ \E p \in Pid : Exit(p)
    \/ ListPids \/ Read \/ Build \/ Draw

Spec == Init /\ [][Next]_vars

FairSpec == Spec /\ WF_vars(Build \/ Draw)

----------------------------------------------------------------------------
(* Properties.                                                             *)

PpidOf(p) == sample[IndexOf(p)].ppid

(* What is built is the relation that the PPIDs describe, for any sample:  *)
(* each process's children are exactly those that name it, in PID order    *)
(* ("each parent's slice also comes out in PID order"), and the roots are  *)
(* exactly those whose parent is not in the sample.                        *)
TreeIsRight ==
    pc \in {"draw", "done"} =>
        /\ Range(roots) = {p \in PidsOf(sample) : PpidOf(p) \notin PidsOf(sample)}
        /\ \A p \in PidsOf(sample) :
              /\ Increasing(Children(p))
              /\ Range(Children(p)) = {q \in PidsOf(sample) : PpidOf(q) = p}

\* Whether a process has siblings that are drawn below it.
Continues(p) == p # Last(Children(PpidOf(p)))

\* The nearest row above a row, or itself, at a level.
Above(i, level) ==
    CHOOSE j \in 1 .. i : rows[j].depth = level /\ \A k \in j + 1 .. i : rows[k].depth # level

\* Bars and blanks for the ancestors of a row that have an ancestor.
Wanted(i) == [k \in 1 .. rows[i].depth - 1 |-> Continues(rows[Above(i, k)].pid)]

(* The drawing is a hierarchy, also when the PPIDs of a sample that was    *)
(* not taken in one instant go in a circle: no process is drawn twice, a   *)
(* row without indentation is a root, and the nearest row above with one   *)
(* level less is the parent of a row.  Its prefix has "a vertical bar for  *)
(* every ancestor that still has siblings below it, blanks for the ones    *)
(* that do not" (ui.c), if the buffer has room for them.                   *)
HierarchyShown ==
    /\ IsInjective([i \in DOMAIN rows |-> rows[i].pid])
    /\ \A i \in DOMAIN rows :
          /\ IF rows[i].depth = 0 THEN rows[i].pid \in Range(roots)
             ELSE \E j \in 1 .. i - 1 :
                     /\ rows[j].depth = rows[i].depth - 1
                     /\ rows[j].pid = PpidOf(rows[i].pid)
                     /\ \A k \in j + 1 .. i - 1 : rows[k].depth >= rows[i].depth
          /\ Bytes(Wanted(i)) < PrefixMax => rows[i].prefix = Wanted(i)

(* Whatever a process calls itself, also "x) S 7", it does not get lost and *)
(* cannot pose as the child of another: every process that runs when its   *)
(* turn comes is entered with the parent and the beginning of the name     *)
(* that it has at that moment.                                             *)
EntriesAreTrue ==
    [][pc = "read" /\ at' = at + 1 /\ pids[at] \in alive
       => LET entry == Last(sample')
              name  == Names[pids[at]]
          IN  /\ Len(sample') = Len(sample) + 1
              /\ entry.pid = pids[at] /\ entry.ppid = parent[pids[at]]
              /\ entry.name = SubSeq(name, 1, Min({Len(name), NameSize - 1}))]_vars

(* Nothing is written beyond an array, a buffer or a window.  The second   *)
(* pass stays within the slice that the first pass counted for a parent,   *)
(* every slice within child_pids, and roots, which has as many places as   *)
(* there are processes, is not overrun by the third pass.  However deep    *)
(* and long the tree is, the prefix and its terminating zero fit into the  *)
(* buffer, and no row is drawn on or below the lower border of the content *)
(* window, which has term_height - 7 rows.                                 *)
NothingOverrun ==
    /\ Len(roots) <= Len(sample)
    /\ pc \in {"place", "late", "draw", "done"} =>
          \A i \in DOMAIN sample :
              /\ fill[i] <= child_count[i]
              /\ child_start[i] + child_count[i] <= Len(child_pids)
    /\ Bytes(prefix) < PrefixMax
    /\ \A i \in DOMAIN rows : i + 1 < term_height - 8

\* A process is rooted if the way up by PPIDs leaves the sample, and so every
\* set of processes that it is in.
Rooted(p) ==
    \A C \in SUBSET PidsOf(sample) : p \in C => \E q \in C : PpidOf(q) \notin C

Drawn == {rows[i].pid : i \in DOMAIN rows}

(* If the window has room, a process is drawn exactly if its PPIDs lead    *)
(* out of the sample: the whole hierarchy but for PPIDs in a circle.       *)
RootedAreDrawn ==
    pc = "done" /\ ~Full => Drawn = {p \in PidsOf(sample) : Rooted(p)}

(* A tree that has been begun is drawn or given up, never drawn for ever.  *)
DrawingEnds == (pc = "count") ~> (pc \in {"done", "failed"})
=============================================================================
