--------------------------- MODULE ProcessMonitor ---------------------------
(***************************************************************************)
(* process/process_monitor.c against a process table that never stops      *)
(* changing: km_process_monitor_collect() lists /proc and reads one        *)
(* process after the other while processes are forked, run, exit and their *)
(* PIDs are used again; km_process_monitor_publish() compares the sample   *)
(* with the previous one, records events and swaps the buffers.            *)
(*                                                                         *)
(* Time is counted in clock ticks of 1 / clock_ticks seconds, so the CPU%  *)
(* of a process is 100 * cpu / over for the fields of its entry below.     *)
(* Every process has one thread.  find_in() is taken at its word, which    *)
(* FindInProofs establishes for sorted arrays.                             *)
(***************************************************************************)
EXTENDS Integers, Sequences, FiniteSets

CONSTANTS MaxPid,      \* PIDs are 1 .. MaxPid
          MaxEvents,   \* KM_MAX_EVENTS, 100
          FirstCap,    \* the first capacity of a buffer, 512
          Budgets      \* bound: the budgets a behaviour can have

ASSUME MonitorAssumption ==
    /\ MaxPid \in Nat /\ MaxEvents \in Nat \ {0} /\ FirstCap \in Nat \ {0}
    /\ Budgets \subseteq [pids : 1 .. MaxPid, forks : Nat, time : Nat, faults : Nat]

VARIABLES
    \* the kernel
    alive,     \* which process, by number of birth, has the PID; 0: none
    used,      \* utime + stime of the process with the PID
    forks,     \* how many processes have been born
    now,
    \* km_process_monitor
    processes, capacity, incoming, incoming_capacity,
    events, last_sample, have_last_sample,
    room, incoming_room,   \* how many entries malloc gave the two buffers
    \* the collector's progress
    pc, pids, at, seconds_elapsed,
    \* what was true of the kernel when /proc was last listed, and when it was
    \* listed for the sample now published
    listed, listed_forks, published_forks,
    budget,    \* the bound of this behaviour: the PIDs in use, how many forks
               \* and ticks there are and how many calls or allocations fail
    faults     \* what is left of budget.faults

kernel  == <<alive, used, forks, now>>
sample  == <<processes, capacity, room, events, published_forks>>
buffer  == <<incoming, incoming_capacity, incoming_room>>
clock   == <<last_sample, have_last_sample, seconds_elapsed>>
listing == <<pids, listed, listed_forks>>
vars    == <<kernel, sample, buffer, clock, listing, pc, at, budget, faults>>

Pid  == 1 .. MaxPid
Live == {p \in Pid : alive[p] # 0}

Created(p)    == [type |-> "created", pid |-> p]
Terminated(p) == [type |-> "terminated", pid |-> p]

\* find_in(): the indices of the entries with the PID.
Find(items, p) == {i \in DOMAIN items : items[i].pid = p}
PidsOf(items)  == {items[i].pid : i \in DOMAIN items}

\* Any set of processes already runs when the monitor starts.
Init ==
    /\ budget \in Budgets /\ faults = budget.faults
    /\ \E born \in SUBSET (1 .. budget.pids) :
        /\ alive = [p \in Pid |-> IF p \in born THEN p ELSE 0]
        /\ used = [p \in Pid |-> 0]
        /\ forks = MaxPid /\ now = 0
        /\ processes = <<>> /\ capacity = 0 /\ room = 0
        /\ incoming = <<>> /\ incoming_capacity = 0 /\ incoming_room = 0
        /\ events = <<>> /\ published_forks = 0
        /\ last_sample = 0 /\ have_last_sample = FALSE /\ seconds_elapsed = 0
        /\ pids = <<>> /\ listed = [p \in Pid |-> 0] /\ listed_forks = 0
        /\ pc = "idle" /\ at = 1

----------------------------------------------------------------------------
(* The kernel.                                                             *)

\* fork(): any free PID, also one that was in use a moment ago.
Fork(p) ==
    /\ alive[p] = 0 /\ p <= budget.pids /\ forks < MaxPid + budget.forks
    /\ forks' = forks + 1
    /\ alive' = [alive EXCEPT ![p] = forks + 1]
    /\ used' = [used EXCEPT ![p] = 0]
    /\ UNCHANGED <<now, sample, buffer, clock, listing, pc, at, faults>>

Exit(p) ==
    /\ alive[p] # 0
    /\ alive' = [alive EXCEPT ![p] = 0]
    /\ used' = [used EXCEPT ![p] = 0]
    /\ UNCHANGED <<forks, now, sample, buffer, clock, listing, pc, at, faults>>

\* A tick of the clock, in which any of the processes have a processor.
Tick ==
    /\ now < budget.time
    /\ now' = now + 1
    /\ \E run \in SUBSET Live :
          used' = [p \in Pid |-> IF p \in run THEN used[p] + 1 ELSE used[p]]
    /\ UNCHANGED <<alive, forks, sample, buffer, clock, listing, pc, at, faults>>

----------------------------------------------------------------------------
(* km_process_monitor_collect().                                           *)

\* All lists of PIDs.
PidLists == UNION {[1 .. n -> Pid] : n \in 0 .. MaxPid}

\* Faulty: the order in which readdir() returns them.
Sorted_AsRead(list) == \A i, j \in DOMAIN list : i # j => list[i] # list[j]

Sorted(list) == \A i, j \in DOMAIN list : i < j => list[i] < list[j]

\* km_proc_list_pids(): the live PIDs in order.  Its result is ignored, so
\* are failures to enter a PID; both leave a list that lacks live processes.
ListPids ==
    /\ pc = "idle"
    /\ \E list \in {l \in PidLists : Sorted(l)} :
          LET missed == Live \ {list[i] : i \in DOMAIN list}
          IN  /\ \A i \in DOMAIN list : list[i] \in Live
              /\ missed # {} => faults > 0
              /\ faults' = IF missed = {} THEN faults ELSE faults - 1
              /\ pids' = list
    /\ listed' = alive /\ listed_forks' = forks
    /\ incoming' = <<>> /\ at' = 1 /\ pc' = "listed"
    /\ UNCHANGED <<kernel, sample, incoming_capacity, incoming_room, clock>>

\* The gap between the starts of two sweeps is measured.
Stamp ==
    /\ pc = "listed"
    /\ seconds_elapsed' = IF have_last_sample THEN now - last_sample ELSE 0
    /\ last_sample' = now /\ have_last_sample' = TRUE
    /\ pc' = "read"
    /\ UNCHANGED <<kernel, sample, buffer, listing, at, faults>>

\* Faulty: the difference is taken without a look at which total is larger.
Usage_NoReuseGuard(p) ==
    IF seconds_elapsed = 0 \/ Find(processes, p) = {} THEN 0
    ELSE (used[p] - processes[CHOOSE i \in Find(processes, p) : TRUE].total) % 2 ^ 16

\* calculate_cpu_usage(): the ticks used since the previous sample.  A total
\* that went down, or no time at all between the samples, counts as nothing.
\* calculate_fault_rates() treats the two fault counters in the same way.
Usage(p) ==
    IF seconds_elapsed = 0 \/ Find(processes, p) = {} THEN 0
    ELSE LET previous == processes[CHOOSE i \in Find(processes, p) : TRUE].total
         IN  IF used[p] < previous THEN 0 ELSE used[p] - previous

\* An entry of a sample.  who and late are not in the program: which process
\* it was, and how long after the start of the sweep it was read.
Measured(p) ==
    [pid |-> p, who |-> alive[p], total |-> used[p], cpu |-> Usage(p),
     over |-> seconds_elapsed, late |-> now - last_sample]

\* incoming_reserve(): before each read there is room for one entry more.
Reserve ==
    IF Len(incoming) = incoming_capacity
    THEN /\ incoming_capacity' = IF incoming_capacity = 0 THEN FirstCap ELSE 2 * incoming_capacity
         /\ incoming_room' = incoming_capacity'
    ELSE UNCHANGED <<incoming_capacity, incoming_room>>

Reading == pc = "read" /\ at <= Len(pids)

\* read_process_info() finds the process, or whichever has its PID by now.
Read ==
    /\ Reading /\ alive[pids[at]] # 0
    /\ Reserve
    /\ incoming' = Append(incoming, Measured(pids[at]))
    /\ at' = at + 1
    /\ UNCHANGED <<kernel, sample, clock, listing, pc, faults>>

\* Faulty: a process that cannot be read is tried again, for ever.
Skip_Retries ==
    /\ Reading
    /\ IF alive[pids[at]] = 0 THEN UNCHANGED faults ELSE faults > 0 /\ faults' = faults - 1
    /\ Reserve
    /\ UNCHANGED <<kernel, sample, incoming, clock, listing, pc, at>>

\* The process has gone, or its stat file cannot be read: skipped.
Skip ==
    /\ Reading
    /\ IF alive[pids[at]] = 0 THEN UNCHANGED faults ELSE faults > 0 /\ faults' = faults - 1
    /\ Reserve
    /\ at' = at + 1
    /\ UNCHANGED <<kernel, sample, incoming, clock, listing, pc>>

\* The buffer cannot grow: the sweep ends where it is.
GiveUp ==
    /\ Reading /\ Len(incoming) = incoming_capacity
    /\ faults > 0 /\ faults' = faults - 1
    /\ pc' = "publish"
    /\ UNCHANGED <<kernel, sample, buffer, clock, listing, at>>

\* Faulty: the walk stops before the last PID.
EndSweep_DropsLast ==
    /\ pc = "read" /\ at >= Len(pids)
    /\ pc' = "publish"
    /\ UNCHANGED <<kernel, sample, buffer, clock, listing, at, faults>>

EndSweep ==
    /\ pc = "read" /\ at > Len(pids)
    /\ pc' = "publish"
    /\ UNCHANGED <<kernel, sample, buffer, clock, listing, at, faults>>

----------------------------------------------------------------------------
(* km_process_monitor_publish().                                           *)

\* push_event(), event after event: the window holds the latest MaxEvents.
Window(s) == IF Len(s) <= MaxEvents THEN s
             ELSE [i \in 1 .. MaxEvents |-> s[Len(s) - MaxEvents + i]]

\* The k-th smallest of some indices.
Kth(indices, k) == CHOOSE i \in indices : Cardinality({j \in indices : j <= i}) = k

\* The pids of one sample that are not in the other, in order.
OnlyIn(a, b) ==
    LET missing == {i \in DOMAIN a : Find(b, a[i].pid) = {}}
    IN  [k \in 1 .. Cardinality(missing) |-> a[Kth(missing, k)].pid]

\* Faulty: only the exits are looked for.
Changes_NoBirths ==
    LET gone == OnlyIn(processes, incoming)
    IN  [i \in DOMAIN gone |-> Terminated(gone[i])]

\* Faulty: only the creations are looked for.
Changes_NoExits ==
    LET born == OnlyIn(incoming, processes)
    IN  [i \in DOMAIN born |-> Created(born[i])]

\* detect_changes(): first the creations, then the exits.
Changes ==
    LET born == OnlyIn(incoming, processes)
        gone == OnlyIn(processes, incoming)
    IN  [i \in DOMAIN born |-> Created(born[i])] \o [i \in DOMAIN gone |-> Terminated(gone[i])]

\* Faulty: the buffers change places, their capacities do not.
Publish_CapacityStays ==
    /\ pc = "publish"
    /\ events' = Window(events \o Changes)
    /\ processes' = incoming /\ room' = incoming_room
    /\ incoming' = <<>> /\ incoming_room' = room
    /\ published_forks' = listed_forks
    /\ pc' = "idle"
    /\ UNCHANGED <<kernel, capacity, incoming_capacity, clock, listing, at, faults>>

Publish ==
    /\ pc = "publish"
    /\ events' = Window(events \o Changes)
    /\ processes' = incoming /\ capacity' = incoming_capacity /\ room' = incoming_room
    /\ incoming' = <<>> /\ incoming_capacity' = capacity /\ incoming_room' = room
    /\ published_forks' = listed_forks
    /\ pc' = "idle"
    /\ UNCHANGED <<kernel, clock, listing, at, faults>>

Collect == ListPids \/ Stamp \/ Read \/ Skip \/ GiveUp \/ EndSweep

Next ==
    /\ \/ \E p \in Pid : Fork(p) \/ Exit(p)
       \/ Tick \/ Collect \/ Publish
    /\ UNCHANGED budget

Spec == Init /\ [][Next]_vars

FairSpec == Spec /\ WF_vars((Collect \/ Publish) /\ UNCHANGED budget)

----------------------------------------------------------------------------
(* Properties.                                                             *)

InPidOrder(items) == \A i, j \in DOMAIN items : i < j => items[i].pid < items[j].pid

(* Both samples are in strictly increasing PID order, whatever vanished or *)
(* failed during the sweep: what every binary search relies on.            *)
SamplesSorted == InPidOrder(processes) /\ InPidOrder(incoming)

(* No entry is written beyond the memory of its buffer, also after any     *)
(* number of swaps between buffers that have grown differently, and no     *)
(* event beyond the KM_MAX_EVENTS of the log, however many a publication   *)
(* records.                                                                *)
NoOverrun ==
    /\ Len(processes) <= room /\ Len(incoming) <= incoming_room
    /\ Len(events) <= MaxEvents

\* The last event of a PID in the log.
LastEvents == {i \in DOMAIN events : \A j \in DOMAIN events : j > i => events[j].pid # events[i].pid}

(* The window of events agrees with the sample on the screen: the last     *)
(* event of a PID says whether that PID is in the sample, and a PID of the *)
(* sample without an event has had its event pushed out of the window,     *)
(* which is full of later ones: no process appears unrecorded.             *)
EventsTellMembership ==
    /\ \A i \in LastEvents : events[i].type = "created" <=> events[i].pid \in PidsOf(processes)
    /\ PidsOf(processes) \subseteq PidsOf(events) \/ Len(events) = MaxEvents

(* What a process is charged with never exceeds the measured gap by more   *)
(* than the time that passed in the sweep before the process was read,     *)
(* even when its PID has changed hands.                                    *)
CpuBounded ==
    \A i \in DOMAIN processes :
        processes[i].cpu \in 0 .. processes[i].over + processes[i].late

(* "A single-threaded process therefore reads at most 100%" (README.md).   *)
SingleThreadedAtMost100 ==
    \A i \in DOMAIN processes : processes[i].cpu <= processes[i].over

Publishes == pc = "publish" /\ pc' = "idle"

\* Whether an event for the PID is recorded now.
Reports(e) == \E i \in DOMAIN Changes : Changes[i] = e

(* As long as nothing has failed, a process that lived from the listing of *)
(* /proc to the end of the sweep is in the published sample.               *)
NobodyMissed ==
    [][Publishes /\ faults = budget.faults
       => \A p \in Live : alive[p] = listed[p] => p \in PidsOf(processes')]_vars

\* A TERMINATED event is only recorded when the process of the previous
\* sample is gone.
ExitsAreReal ==
    \A i \in DOMAIN processes :
        Reports(Terminated(processes[i].pid)) => alive[processes[i].pid] # processes[i].who

(* "One present before but not now has terminated", whatever happened.     *)
TerminatedIsGone == [][Publishes => ExitsAreReal]_vars

\* A CREATED event of the second or a later sample names a process that was
\* born after /proc was listed for the previous sample.
BirthsAreReal ==
    published_forks # 0 =>
        \A i \in DOMAIN incoming :
            Reports(Created(incoming[i].pid)) => incoming[i].who > published_forks

(* As long as nothing has failed the log tells the truth: who is reported  *)
(* as terminated has gone, who is reported as created is new since the     *)
(* last listing, however the table changed during the two sweeps.          *)
EventsAreReal ==
    [][Publishes /\ faults = budget.faults => ExitsAreReal /\ BirthsAreReal]_vars

(* Every sweep ends in a published sample, however the table changes and   *)
(* whatever fails: the walk never waits for a process.                     *)
SweepEnds == (pc = "listed") ~> (pc = "idle")
=============================================================================
