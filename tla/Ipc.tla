--------------------------------- MODULE Ipc ---------------------------------
(***************************************************************************)
(* The demonstrations of IPC and job control: which of them is run is the  *)
(* choice of the initial state.                                            *)
(***************************************************************************)
EXTENDS Pipeline, Fifo, JobControl

\* main() returns after it has waited for its children: 0, or 1 if the reader
\* of fifo.c could not open the FIFO.
Return == At(main, "return") /\ Exit(main)

\* Ctrl+C signals the foreground group of a terminal: no demonstration gives
\* the terminal to the group it makes.
Interrupt(p) ==
    /\ life[p] = "alive" /\ (program = "fifo apart" \/ p = main) /\ interrupts > 0
    /\ interrupts' = interrupts - 1
    /\ pending' = Sent(Members(group[p]), "INT")
    /\ UNCHANGED <<program, pc, process, stream, failures, name, job>>

\* A signal ends its process, by the default action or by the handler.
Deliver(p, s) ==
    /\ life[p] = "alive" /\ s \in pending[p]
    /\ Exits(p, IF Forwards(p, s) THEN Sent(Job(p), "TERM") ELSE pending)
    /\ UNCHANGED bounds

Step(p) ==
    \/ PipelineStep(p) \/ FifoStep(p) \/ JobControlStep(p)
    \/ p = main /\ Return
    \/ \E s \in {"INT", "TERM", "HUP"} : Deliver(p, s)

Fault == PipelineFault \/ FifoFault \/ JobControlFault \/ \E p \in Proc : Interrupt(p)

\* Where an open() that has failed leaves fifo.c in one terminal: main waits
\* for a writer that waits in open(), or waits itself in open() for a writer
\* that has ended.
LeftAlone ==
    /\ program = "fifo" /\ failures < MaxFailures
    /\ \/ pc[main] = "wait" /\ pc[1] = "opening"
       \/ pc[main] = "opening" /\ life[1] = "zombie"
    /\ \A p \in Proc : life[p] = "alive" => pending[p] = {}

\* All have ended, or wait for somebody to open the other end of the FIFO.
Rest ==
    /\ LeftAlone \/ \A p \in Proc : life[p] \in {"none", "gone"} \/ pc[p] = "opening"
    /\ UNCHANGED vars

Next == (\E p \in Proc : Step(p)) \/ Fault \/ Rest

Spec == Init /\ [][Next]_vars

\* Every process that can take a step for good takes one; nothing need fail.
FairSpec == Spec /\ \A p \in Proc : WF_vars(Step(p))

----------------------------------------------------------------------------
(* Properties.                                                             *)

Numbers(messages, p) == {messages[k][2] : k \in {j \in DOMAIN messages : messages[j][1] = p}}
InOrder(messages) ==
    \A j, k \in DOMAIN messages :
        j < k /\ messages[j][1] = messages[k][1] => messages[j][2] < messages[k][2]

(* What has been read from each writer is the beginning of what it wrote,  *)
(* in order, and the rest is still in the pipe.  The end of the file means *)
(* that everything has arrived: all that the left command wrote, which has *)
(* ended, and all messages of the forked writer if it has not been         *)
(* interrupted.                                                            *)
StreamArrives ==
    /\ InOrder(got) /\ \A f \in Pipe : InOrder(pipe[f])
    /\ \A p \in Proc : \E n \in 0 .. sent[p] :
          /\ Numbers(got, p) = 1 .. n
          /\ UNION {Numbers(pipe[f], p) : f \in Pipe} = n + 1 .. sent[p]
    /\ eof /\ program = "pipeline"
         => life[first] # "alive" /\ Numbers(got, first) = 1 .. sent[first]
    /\ eof /\ program = "fifo" /\ interrupts = MaxInterrupts => Numbers(got, 1) = 1 .. Messages

(* A signal to the group reaches the whole job and never the program       *)
(* itself: at every kill() of jobctl, also that of its handler, all the    *)
(* workers it has put into the group are in it, whoever ran first; both    *)
(* stages of the pipeline are in one group once the shell goes on.         *)
GroupHoldsAll ==
    /\ program = "pipeline" /\ pc[main] \in {"close", "wait first", "wait second"} =>
          group[first] = first /\ group[second] = first
    /\ program = "jobctl" /\ life[main] = "alive" /\ g_group[main] # 0 =>
          /\ group[main] # g_group[main]
          /\ \A w \in Worker :
                (pc[main] \notin {"fork", "group", "note"} \/ w < i) /\ life[w] # "none"
                => group[w] = g_group[main]

(* "Done, every child reaped": a program that returns 0 has waited for     *)
(* each child it forked, and no zombie or running child is left behind.    *)
AllReaped ==
    pc[main] = "return" =>
        \A c \in Proc : Child(c) => life[c] \in {"none", "gone"} /\ (pc[c] # "none" => c \in reaped)

(* Every program ends with all its processes: the reader sees the end of   *)
(* the file, a writer without a reader does not stay, no worker is left    *)
(* behind, stopped or not, whichever call fails and whenever Ctrl+C comes. *)
(* The one exception is an open() of the FIFO that fails: it can leave the *)
(* other process alone in its own open(), until Ctrl+C.  In several        *)
(* terminals a reader that has been connected ends.                        *)
ProgramsEnd ==
    /\ (program # "fifo apart") ~> (LeftAlone \/ \A p \in Proc : life[p] \in {"none", "gone"})
    /\ (program = "fifo apart" /\ pc[main] = "read") ~> (life[main] = "gone")
=============================================================================
