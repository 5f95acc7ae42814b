-------------------------------- MODULE Unix --------------------------------
(***************************************************************************)
(* What the demonstrations of IPC and job control use of the kernel:       *)
(* processes with a parent and a group, descriptors of pipes, signals.     *)
(* One of the demonstrations runs, as process 0 with its children, or, for *)
(* the FIFO in several terminals, as processes that are not related.       *)
(***************************************************************************)
EXTENDS Integers, Sequences

CONSTANTS Workers,        \* WORKERS of jobctl.c, 3
          Messages,       \* how many messages a writer has, 5 in fifo.c
          PipeSize,       \* bound: how many messages fit into a pipe
          MaxFailures,    \* bound: how many calls fail: fork(), pipe(), exec() and those on a FIFO
          MaxInterrupts   \* bound: how often Ctrl+C is pressed

ASSUME UnixAssumption ==
    /\ Workers \in Nat \ {0} /\ Messages \in Nat /\ PipeSize \in Nat \ {0}
    /\ MaxFailures \in Nat /\ MaxInterrupts \in Nat

VARIABLES
    program,
    pc,
    life,          \* "none", "alive", "stopped", "zombie" or "gone"
    group,
    reaped,        \* the children that waitpid() has returned
    fds,           \* the pipe ends that a process holds
    pipe,          \* the messages in each pipe
    sent, got,     \* how many messages each has written, what has been read
    eof,           \* whether the reader has seen the end of the file
    pending,       \* the signals a process has not been delivered yet
    failures, interrupts,   \* what is left of the bounds
    \* of fifo.c: the FIFO that has the name, 0 for none, and how many were made
    file, made,
    \* of jobctl.c
    i, g_group     \* the loop of main(), and each process's copy of g_group

process == <<life, group, reaped>>
stream  == <<fds, pipe, sent, got, eof>>
name    == <<file, made>>
job     == <<i, g_group>>
bounds  == <<failures, interrupts>>
vars    == <<program, pc, process, stream, pending, bounds, name, job>>

main == 0
Proc == 0 .. Workers + 2
Pipe == 1 .. 2
End(p, e) == [of |-> p, end |-> e]

Programs == {"pipeline", "fifo", "fifo apart", "jobctl"}
Child(p) == program # "fifo apart" /\ p # main

Init ==
    /\ program \in Programs
    /\ LET started == IF program = "fifo apart" THEN {0, 1, 2} ELSE {main}
           first   == CASE program = "pipeline" -> "pipe"
                        [] program = "jobctl"   -> "fork"
                        [] OTHER                -> "mkfifo"
       IN  /\ pc = [p \in Proc |-> IF p \in started THEN first ELSE "none"]
           /\ life = [p \in Proc |-> IF p \in started THEN "alive" ELSE "none"]
    /\ group = [p \in Proc |-> IF program = "fifo apart" THEN p ELSE main] /\ reaped = {}
    /\ fds = [p \in Proc |-> {}] /\ pipe = [f \in Pipe |-> <<>>]
    /\ sent = [p \in Proc |-> 0] /\ got = <<>> /\ eof = FALSE
    /\ pending = [p \in Proc |-> {}]
    /\ failures = MaxFailures /\ interrupts = MaxInterrupts
    /\ file = 0 /\ made = 0 /\ i = 1 /\ g_group = [p \in Proc |-> 0]

At(p, label) == life[p] = "alive" /\ pc[p] = label
Goto(p, label) == pc' = [pc EXCEPT ![p] = label]

\* A call fails, if the bound allows it.
Fails == failures > 0 /\ failures' = failures - 1 /\ UNCHANGED interrupts

----------------------------------------------------------------------------
(* Processes.                                                              *)

\* fork() gives the child copies of everything.  Signals that are pending are
\* delivered first.
Fork(c, label, next) ==
    /\ pending[main] = {}
    /\ pc' = [pc EXCEPT ![main] = next, ![c] = label]
    /\ life' = [life EXCEPT ![c] = "alive"]
    /\ group' = [group EXCEPT ![c] = group[main]]
    /\ fds' = [fds EXCEPT ![c] = fds[main]]
    /\ g_group' = [g_group EXCEPT ![c] = g_group[main]]
    /\ UNCHANGED <<program, reaped, pipe, sent, got, eof, pending, bounds, name, i>>

\* What the end of its parent makes of a child: a zombie is reaped by init.
Orphan(q) == CASE life[q] = "zombie"  -> "gone"
               [] life[q] = "stopped" -> "alive"
               [] OTHER               -> life[q]

\* A child that ends is a zombie until its parent waits for it or ends.
Lives(p) ==
    [q \in Proc |->
        IF q = p THEN IF Child(p) /\ life[main] # "gone" THEN "zombie" ELSE "gone"
        ELSE IF p = main /\ Child(q) THEN Orphan(q) ELSE life[q]]

\* The end of the parent orphans the group of the workers: if they are
\* stopped they are hung up and continued.
HungUp(p, signals) ==
    [q \in Proc |-> IF p = main /\ life[q] = "stopped" THEN signals[q] \cup {"HUP"} ELSE signals[q]]

\* The process ends, its descriptors are closed; signals are those it has
\* sent before.
Exits(p, signals) ==
    /\ life' = Lives(p) /\ pending' = HungUp(p, signals) /\ Goto(p, "ended")
    /\ fds' = [fds EXCEPT ![p] = {}]
    /\ UNCHANGED <<program, group, reaped, pipe, sent, got, eof, name, job>>

Exit(p) == Exits(p, pending) /\ UNCHANGED bounds

\* waitpid() for one child
Wait(c, next) ==
    /\ life[c] = "zombie"
    /\ life' = [life EXCEPT ![c] = "gone"] /\ reaped' = reaped \cup {c} /\ Goto(main, next)
    /\ UNCHANGED <<program, group, stream, pending, bounds, name>>

\* A group exists as long as a process of it has not been reaped.
Exists(g) == \E q \in Proc : group[q] = g /\ life[q] \notin {"none", "gone"}

\* setpgid(c, g); its failure is ignored.
SetPgid(c, g) == group' = IF g = c \/ Exists(g) THEN [group EXCEPT ![c] = g] ELSE group

\* The processes that kill() with a negative number reaches.
Members(g) == {q \in Proc : group[q] = g /\ life[q] \in {"alive", "stopped"}}

\* The signal s, which ends a process, is sent to the processes.
Sent(processes, s) == [q \in Proc |-> IF q \in processes THEN pending[q] \cup {s} ELSE pending[q]]

----------------------------------------------------------------------------
(* Pipes.                                                                  *)

Holds(p, f, e) == End(f, e) \in fds[p]
Connected(f, e) == \E q \in Proc : Holds(q, f, e)

\* write() of one message
Write(p, f) ==
    /\ Connected(f, "read") /\ Len(pipe[f]) < PipeSize
    /\ pipe' = [pipe EXCEPT ![f] = Append(@, <<p, sent[p] + 1>>)]
    /\ sent' = [sent EXCEPT ![p] = @ + 1]
    /\ UNCHANGED <<program, pc, process, fds, got, eof, pending, bounds, name, job>>

\* Without a reader, SIGPIPE ends the writer.
BrokenPipe(p, f) == ~Connected(f, "read") /\ Exit(p)

\* read() of one message
Read(f) ==
    /\ pipe[f] # <<>>
    /\ got' = Append(got, Head(pipe[f])) /\ pipe' = [pipe EXCEPT ![f] = Tail(@)]
    /\ UNCHANGED <<program, pc, process, fds, sent, eof, pending, bounds, name, job>>

\* The end of the file: nothing is left and nobody can write any more.
AtEof(f) == pipe[f] = <<>> /\ ~Connected(f, "write")
=============================================================================
