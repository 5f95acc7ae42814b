----------------------------- MODULE JobControl -----------------------------
(***************************************************************************)
(* demo/jobctl.c: process 0 puts the workers 1 .. Workers into one group,  *)
(* stops, continues and ends them together, waits for them, and then forks *)
(* a child that starts a session.  Ctrl+C may come at any moment; the      *)
(* handler forwards it to the group, if the group is known by then, and a  *)
(* worker that has lost its parent leaves by itself.                       *)
(***************************************************************************)
EXTENDS Unix

leader  == 1
Worker  == 1 .. Workers
newcomer == Workers + 1      \* the child of part 3

\* Whom p's kill(-g_group, ...) reaches; p does not call it without a group.
Job(p) == IF g_group[p] > 0 THEN Members(g_group[p]) ELSE {}

AtJob(p, label) == program = "jobctl" /\ At(p, label)

ForkWorker == AtJob(main, "fork") /\ Fork(i, "default", "group")

\* Those that already run are ended, if the group is known.
ForkWorkerFails ==
    /\ AtJob(main, "fork") /\ Fails /\ Exits(main, Sent(Job(main), "TERM"))

GroupWorker ==
    /\ AtJob(main, "group") /\ SetPgid(i, leader) /\ Goto(main, "note")
    /\ UNCHANGED <<program, life, reaped, stream, pending, bounds, name, job>>

NoteGroup ==
    /\ AtJob(main, "note")
    /\ g_group' = IF i = leader THEN [g_group EXCEPT ![main] = leader] ELSE g_group
    /\ IF i < Workers THEN i' = i + 1 /\ Goto(main, "fork") ELSE i' = 1 /\ Goto(main, "stop")
    /\ UNCHANGED <<program, process, stream, pending, bounds, name>>

\* kill(-g_group, SIGSTOP) or SIGCONT changes all members at once.
Switch(label, from, to, next) ==
    /\ AtJob(main, label) /\ Goto(main, next)
    /\ life' = [q \in Proc |-> IF q \in Job(main) /\ life[q] = from THEN to ELSE life[q]]
    /\ UNCHANGED <<program, group, reaped, stream, pending, bounds, name, job>>

StopJob     == Switch("stop", "alive", "stopped", "cont")
ContinueJob == Switch("cont", "stopped", "alive", "term")

EndJob ==
    /\ AtJob(main, "term") /\ Goto(main, "reap")
    /\ pending' = Sent(Job(main), "TERM")
    /\ UNCHANGED <<program, process, stream, bounds, name, job>>

Reap ==
    /\ AtJob(main, "reap") /\ Wait(i, IF i < Workers THEN "reap" ELSE "forget")
    /\ i' = i + 1 /\ UNCHANGED g_group

ForgetGroup ==
    /\ AtJob(main, "forget") /\ Goto(main, "fork newcomer")
    /\ g_group' = [g_group EXCEPT ![main] = 0]
    /\ UNCHANGED <<program, process, stream, pending, bounds, name, i>>

ForkNewcomer == AtJob(main, "fork newcomer") /\ Fork(newcomer, "setsid", "wait newcomer")

ForkNewcomerFails == AtJob(main, "fork newcomer") /\ Fails /\ Exits(main, pending)

WaitNewcomer == AtJob(main, "wait newcomer") /\ Wait(newcomer, "return") /\ UNCHANGED job

\* setsid() makes it the leader of a group and a session of its own.
SetSid ==
    /\ AtJob(newcomer, "setsid") /\ Goto(newcomer, "exit")
    /\ group' = [group EXCEPT ![newcomer] = newcomer]
    /\ UNCHANGED <<program, life, reaped, stream, pending, bounds, name, job>>

NewcomerExits == AtJob(newcomer, "exit") /\ Exit(newcomer)

DefaultAction(c) ==
    /\ AtJob(c, "default") /\ Goto(c, "setpgid")
    /\ UNCHANGED <<program, process, stream, pending, bounds, name, job>>

JoinGroup(c) ==
    /\ AtJob(c, "setpgid") /\ SetPgid(c, leader) /\ Goto(c, "loop")
    /\ UNCHANGED <<program, life, reaped, stream, pending, bounds, name, job>>

\* worker_loop(): getppid() is no longer the parent.
Leave(c) == AtJob(c, "loop") /\ life[main] = "gone" /\ Exit(c)

\* on_interrupt() forwards Ctrl+C; a child inherits it until it takes the
\* default action.
Forwards(p, s) == program = "jobctl" /\ s = "INT" /\ (p \notin Worker \/ pc[p] = "default")

JobControlStep(p) ==
    \/ /\ p = main
       /\ \/ ForkWorker \/ GroupWorker \/ NoteGroup \/ StopJob \/ ContinueJob \/ EndJob \/ Reap
          \/ ForgetGroup \/ ForkNewcomer \/ WaitNewcomer
    \/ p = newcomer /\ (SetSid \/ NewcomerExits)
    \/ p \in Worker /\ (DefaultAction(p) \/ JoinGroup(p) \/ Leave(p))

JobControlFault == ForkWorkerFails \/ ForkNewcomerFails
=============================================================================
