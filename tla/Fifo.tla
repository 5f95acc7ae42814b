-------------------------------- MODULE Fifo --------------------------------
(***************************************************************************)
(* demo/fifo.c, in one terminal (process 0 forks the writer 1 and reads)   *)
(* and in several (process 0 runs  fifo read,  1 and 2 run  fifo write,    *)
(* each started whenever its user likes).  Processes meet only by the name *)
(* of the FIFO; one that is removed and made again is another FIFO.        *)
(***************************************************************************)
EXTENDS Unix

reader  == main
InFifo(p, label) == program \in {"fifo", "fifo apart"} /\ At(p, label)

OtherEnd(e) == IF e = "read" THEN "write" ELSE "read"
EndOf(p)    == IF p = reader THEN "read" ELSE "write"

\* mkfifo(), which may find that there is one.
MakeFifo(p) ==
    /\ InFifo(p, "mkfifo") /\ Goto(p, "stat")
    /\ IF file = 0 THEN made' = made + 1 /\ file' = made' ELSE UNCHANGED name
    /\ UNCHANGED <<program, process, stream, pending, bounds, job>>

\* stat(): another program may have removed the FIFO by now.
Stat(p) ==
    /\ InFifo(p, "stat")
    /\ IF file = 0 THEN Exit(p)
       ELSE /\ Goto(p, IF program = "fifo" THEN "fork writer" ELSE "open")
            /\ UNCHANGED <<program, process, stream, pending, bounds, name, job>>

\* mkfifo() or stat() fails otherwise, or what has the name is not a FIFO.
NoFifo(p) == (InFifo(p, "mkfifo") \/ InFifo(p, "stat")) /\ Fails /\ Exits(p, pending)

ForkWriter == InFifo(main, "fork writer") /\ Fork(1, "open", "open")

ForkWriterFails == InFifo(main, "fork writer") /\ Fails /\ Exits(main, pending)

\* Where a process goes when it cannot read or write (any more).
After(p) == IF p # reader THEN "exit" ELSE IF program = "fifo" THEN "wait" ELSE "unlink"

Opened(p) == IF p = reader THEN "read" ELSE "write"

\* Faulty: open() with O_NONBLOCK.
Open_NoWait(p) ==
    /\ InFifo(p, "open") /\ file # 0
    /\ fds' = [fds EXCEPT ![p] = {End(file, EndOf(p))}]
    /\ Goto(p, Opened(p))
    /\ UNCHANGED <<program, process, pipe, sent, got, eof, pending, bounds, name, job>>

\* open() fails for another reason than a name that has gone.
OpenFails(p) ==
    /\ InFifo(p, "open") /\ Fails /\ Goto(p, After(p))
    /\ UNCHANGED <<program, process, stream, pending, name, job>>

\* open() fails if the name has gone, and blocks until the other end is
\* opened: whoever comes second wakes those that wait.
Open(p) ==
    /\ InFifo(p, "open")
    /\ IF file = 0 THEN Goto(p, After(p)) /\ UNCHANGED fds
       ELSE /\ fds' = [fds EXCEPT ![p] = {End(file, EndOf(p))}]
            /\ pc' = [q \in Proc |->
                  CASE q = p -> IF Connected(file, OtherEnd(EndOf(p))) THEN Opened(p) ELSE "opening"
                    [] q # p /\ pc[q] = "opening" /\ Holds(q, file, OtherEnd(EndOf(p))) -> Opened(q)
                    [] OTHER -> pc[q]]
    /\ UNCHANGED <<program, process, pipe, sent, got, eof, pending, bounds, name, job>>

\* writer(): its messages one by one, then close() and the end.
WriterStep(p) ==
    /\ InFifo(p, "write")
    /\ \E f \in Pipe :
          /\ Holds(p, f, "write")
          /\ IF sent[p] = Messages THEN Exit(p) ELSE Write(p, f) \/ BrokenPipe(p, f)

WriterExits(p) == InFifo(p, "exit") /\ Exit(p)

\* fdopen() fails, before anything is read: the reader closes its end.
FdopenFails ==
    /\ InFifo(reader, "read") /\ got = <<>> /\ Fails /\ Goto(reader, After(reader))
    /\ fds' = [fds EXCEPT ![reader] = {}]
    /\ UNCHANGED <<program, process, pipe, sent, got, eof, pending, name, job>>

ReadsMessage == InFifo(reader, "read") /\ \E f \in Pipe : Holds(reader, f, "read") /\ Read(f)

ReadsEof ==
    /\ InFifo(reader, "read") /\ \E f \in Pipe : Holds(reader, f, "read") /\ AtEof(f)
    /\ Goto(reader, "close") /\ eof' = TRUE
    /\ UNCHANGED <<program, process, fds, pipe, sent, got, pending, bounds, name, job>>

CloseReadEnd ==
    /\ InFifo(reader, "close") /\ Goto(reader, After(reader))
    /\ fds' = [fds EXCEPT ![reader] = {}]
    /\ UNCHANGED <<program, process, pipe, sent, got, eof, pending, bounds, name, job>>

WaitWriter == InFifo(main, "wait") /\ Wait(1, "unlink") /\ UNCHANGED job

Unlink ==
    /\ InFifo(main, "unlink") /\ Goto(main, "return")
    /\ file' = 0
    /\ UNCHANGED <<program, process, stream, pending, bounds, made, job>>

FifoStep(p) ==
    \/ MakeFifo(p) \/ Stat(p) \/ Open(p) \/ WriterStep(p) \/ WriterExits(p)
    \/ /\ p = main
       /\ ForkWriter \/ ReadsMessage \/ ReadsEof \/ CloseReadEnd \/ WaitWriter \/ Unlink

FifoFault == ForkWriterFails \/ FdopenFails \/ \E p \in Proc : NoFifo(p) \/ OpenFails(p)
=============================================================================
