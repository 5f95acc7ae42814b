------------------------------- MODULE Parser -------------------------------
(***************************************************************************)
(* The line of /proc/<pid>/stat and km_parse_proc_stat() of                *)
(* utils/parser.c.  A line is a sequence of words: a number stands for     *)
(* itself, a parenthesis is a word, everything else is one word, Letter.   *)
(* The fields that the other modules have no use for are left out.         *)
(***************************************************************************)
EXTENDS Integers, Sequences, SequencesExt, FiniteSetsExt

Open   == -1
Close  == -2
Letter == -3

\* What the kernel writes: the PID, the name in parentheses, the state and the
\* parent.  A process chooses its name, parentheses and spaces included.
StatLine(pid, name, ppid) == <<pid, Open>> \o name \o <<Close, Letter, ppid>>

Places(line, word) == {i \in DOMAIN line : line[i] = word}

\* strchr() and strrchr()
OpenParen(line) == Min(Places(line, Open))

\* Faulty: strchr() for both.
CloseParen_First(line) == Min(Places(line, Close))

CloseParen(line) == Max(Places(line, Close))

\* The name, cut to what the caller has room for with a terminating zero.
Comm(line, comm_size) ==
    SubSeq(line, OpenParen(line) + 1, Min({CloseParen(line) - 1, OpenParen(line) + comm_size - 1}))

\* The fields from the third on: state, parent
Rest(line) == SubSeq(line, CloseParen(line) + 1, Len(line))
Ppid(line) == Rest(line)[2]

\* Whether the line can be read: it has parentheses, and sscanf() finds all
\* the fields, numbers where there should be numbers.
ParsesProcStat(line, comm_size) ==
    /\ comm_size > 0 /\ Places(line, Open) # {} /\ Places(line, Close) # {}
    /\ CloseParen(line) >= OpenParen(line)
    /\ Len(Rest(line)) >= 2 /\ Ppid(line) \in Nat
=============================================================================
