------------------------------- MODULE FindIn -------------------------------
(***************************************************************************)
(* find_in() of process/process_monitor.c: the binary search under every   *)
(* lookup of the program (CPU% of the previous sample, creation and exit   *)
(* events, the process tree, the detail view, the confirmation prompt).    *)
(* Indices start at 0 as in C, and size_t arithmetic wraps at SizeLimit.   *)
(***************************************************************************)
EXTENDS Integers

CONSTANTS SizeLimit,   \* 2^64, one more than the largest size_t
          LargestPid,  \* the largest pid_t
          MaxCount     \* the longest array: one element is far more than a byte

ASSUME SizeAssumption == SizeLimit \in Nat /\ MaxCount \in Nat /\ MaxCount < SizeLimit
ASSUME PidAssumption == LargestPid \in Nat

VARIABLES items, count, pid,   \* the arguments; an item is its pid
          low, high,
          result,              \* the index found, or NotFound
          loop

search == <<items, count, pid, low, high, result, loop>>

pid_t    == 0 .. LargestPid
NotFound == -1                 \* NULL

Plus(a, b) == (a + b) % SizeLimit
Sorted(a, n) == \A i, j \in 0 .. n - 1 : i < j => a[i] < a[j]

\* Any sorted array and any pid: every caller passes a PID-sorted sample.
CallFindIn ==
    /\ count \in 0 .. MaxCount
    /\ items \in {a \in [0 .. count - 1 -> pid_t] : Sorted(a, count)}
    /\ pid \in pid_t
    /\ low = 0 /\ high = count
    /\ result = NotFound /\ loop = "search"

\* Faulty: the sum is formed before it is halved.
Mid_Overflow == Plus(low, high) \div 2

Mid == Plus(low, (high - low) \div 2)

Hit ==
    /\ loop = "search" /\ low < high /\ items[Mid] = pid
    /\ result' = Mid /\ loop' = "done"
    /\ UNCHANGED <<items, count, pid, low, high>>

GoRight ==
    /\ loop = "search" /\ low < high /\ items[Mid] < pid
    /\ low' = Plus(Mid, 1)
    /\ UNCHANGED <<items, count, pid, high, result, loop>>

\* Faulty: the upper end is exclusive, so this drops an element unseen.
GoLeft_OffByOne ==
    /\ loop = "search" /\ low < high /\ items[Mid] > pid
    /\ high' = IF Mid > 0 THEN Mid - 1 ELSE 0
    /\ UNCHANGED <<items, count, pid, low, result, loop>>

GoLeft ==
    /\ loop = "search" /\ low < high /\ items[Mid] > pid
    /\ high' = Mid
    /\ UNCHANGED <<items, count, pid, low, result, loop>>

Miss ==
    /\ loop = "search" /\ low >= high
    /\ loop' = "done"
    /\ UNCHANGED <<items, count, pid, low, high, result>>

Done == loop = "done" /\ UNCHANGED search

Probe == Hit \/ GoRight \/ GoLeft \/ Miss \/ Done

Search == CallFindIn /\ [][Probe]_search

----------------------------------------------------------------------------
(* Properties.                                                             *)

TypeOK ==
    /\ count \in 0 .. MaxCount
    /\ items \in [0 .. count - 1 -> pid_t] /\ Sorted(items, count)
    /\ pid \in pid_t
    /\ low \in 0 .. count /\ high \in 0 .. count /\ low <= high
    /\ result \in {NotFound} \cup 0 .. count - 1
    /\ loop \in {"search", "done"}

\* The loop invariant: what lies outside low .. high - 1 is not the pid.
Outside ==
    /\ \A i \in 0 .. count - 1 : i < low => items[i] < pid
    /\ \A i \in 0 .. count - 1 : i >= high => items[i] > pid

(* find_in() returns the element with the pid, and NULL exactly when no    *)
(* element has it.                                                         *)
Correct ==
    loop = "done" => IF result = NotFound THEN \A i \in 0 .. count - 1 : items[i] # pid
                                          ELSE items[result] = pid

\* The inductive invariant.
Inv == TypeOK /\ Outside /\ (loop = "done" => Correct /\ (result = NotFound => low = high))
       /\ (loop = "search" => result = NotFound)

(* A probe never reads outside the array, nor outside low .. high - 1,     *)
(* although size_t sums wrap, and every step of the loop halves the        *)
(* interval, so a lookup costs at most about log2(count) probes, and ends. *)
ProbesHalve ==
    [][loop = "search" /\ low < high
       => Mid \in low .. high - 1 /\ (loop' = "search" => 2 * (high' - low') <= high - low)]_search
=============================================================================
