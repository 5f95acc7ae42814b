------------------------------ MODULE Pipeline ------------------------------
(***************************************************************************)
(* demo/pipeline.c: a shell's way to run  left | right  as process 0 with  *)
(* the children 1 and 2 in a group of their own.  The two commands are any *)
(* program that writes, or reads, until it has done or stops early.        *)
(***************************************************************************)
EXTENDS Unix

first  == 1
second == 2
fd == 1    \* the pipe

Running(p, label) == program = "pipeline" /\ At(p, label)

MakePipe ==
    /\ Running(main, "pipe") /\ Goto(main, "fork first")
    /\ fds' = [fds EXCEPT ![main] = {End(fd, "read"), End(fd, "write")}]
    /\ UNCHANGED <<program, process, pipe, sent, got, eof, pending, bounds, name, job>>

ForkFirst  == Running(main, "fork first") /\ Fork(first, "setpgid", "group first")
ForkSecond == Running(main, "fork second") /\ Fork(second, "setpgid", "group second")

\* pipe() or fork() fails: the shell gives up, whoever already runs.
ShellGivesUp ==
    /\ \E label \in {"pipe", "fork first", "fork second"} : Running(main, label)
    /\ Fails /\ Exits(main, pending)

\* Faulty: the shell leaves it to the child.
GroupFirst_ByChild ==
    /\ Running(main, "group first") /\ Goto(main, "fork second")
    /\ UNCHANGED <<program, process, stream, pending, bounds, name, job>>

GroupFirst ==
    /\ Running(main, "group first") /\ SetPgid(first, first) /\ Goto(main, "fork second")
    /\ UNCHANGED <<program, life, reaped, stream, pending, bounds, name, job>>

GroupSecond ==
    /\ Running(main, "group second") /\ SetPgid(second, first) /\ Goto(main, "close")
    /\ UNCHANGED <<program, life, reaped, stream, pending, bounds, name, job>>

CloseEnds ==
    /\ Running(main, "close") /\ Goto(main, "wait first")
    /\ fds' = [fds EXCEPT ![main] = {}]
    /\ UNCHANGED <<program, process, pipe, sent, got, eof, pending, bounds, name, job>>

WaitFirst  == Running(main, "wait first") /\ Wait(first, "wait second") /\ UNCHANGED job

\* Faulty: the shell does not wait for the second command.
WaitSecond_Not ==
    /\ Running(main, "wait second") /\ Goto(main, "return")
    /\ UNCHANGED <<program, process, stream, pending, bounds, name, job>>

WaitSecond == Running(main, "wait second") /\ Wait(second, "return") /\ UNCHANGED job

Regroup(c) ==
    /\ Running(c, "setpgid") /\ SetPgid(c, first) /\ Goto(c, "redirect")
    /\ UNCHANGED <<program, life, reaped, stream, pending, bounds, name, job>>

\* Faulty: the child closes only one of its two copies.
Redirect_KeepsOther(c) ==
    /\ Running(c, "redirect") /\ Goto(c, "exec")
    /\ UNCHANGED <<program, process, stream, pending, bounds, name, job>>

\* dup2() and the two close()
Redirect(c) ==
    /\ Running(c, "redirect") /\ Goto(c, "exec")
    /\ fds' = [fds EXCEPT ![c] = {End(fd, IF c = first THEN "write" ELSE "read")}]
    /\ UNCHANGED <<program, process, pipe, sent, got, eof, pending, bounds, name, job>>

Exec(c) ==
    /\ Running(c, "exec") /\ Goto(c, IF c = first THEN "left" ELSE "right")
    /\ UNCHANGED <<program, process, stream, pending, bounds, name, job>>

ExecFails(c) == Running(c, "exec") /\ Fails /\ Exits(c, pending)

Left ==
    /\ Running(first, "left")
    /\ \/ sent[first] < Messages /\ (Write(first, fd) \/ BrokenPipe(first, fd))
       \/ sent[first] = Messages /\ Exit(first)

ReadsLine == Running(second, "right") /\ Read(fd)

SeesEof ==
    /\ Running(second, "right") /\ AtEof(fd)
    /\ life' = Lives(second) /\ Goto(second, "ended") /\ fds' = [fds EXCEPT ![second] = {}]
    /\ eof' = TRUE
    /\ UNCHANGED <<program, group, reaped, pipe, sent, got, pending, bounds, name, job>>

\* A command may also end before it has written or read everything.
StopsEarly(c) == (Running(c, "left") \/ Running(c, "right")) /\ Exit(c)

Shell == MakePipe \/ ForkFirst \/ GroupFirst \/ ForkSecond \/ GroupSecond \/ CloseEnds
         \/ WaitFirst \/ WaitSecond
Stage(c) == Regroup(c) \/ Redirect(c) \/ Exec(c)

PipelineStep(p) ==
    \/ p = main /\ Shell
    \/ p \in {first, second} /\ Stage(p)
    \/ p = first /\ Left
    \/ p = second /\ (ReadsLine \/ SeesEof)

PipelineFault == ShellGivesUp \/ \E c \in {first, second} : ExecFails(c) \/ StopsEarly(c)
=============================================================================
