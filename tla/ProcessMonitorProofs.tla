------------------------ MODULE ProcessMonitorProofs ------------------------
(***************************************************************************)
(* Samples are sorted, no buffer is overrun, what a process is charged     *)
(* with is bounded by the time there was, nobody who stayed is missed, and *)
(* events tell the truth: for any number of PIDs and forks, any length of  *)
(* time and of the log, and any number of failures.                        *)
(***************************************************************************)
EXTENDS ProcessMonitor, FiniteSetTheorems, SequenceTheorems, TLAPS

Entry == [pid : Pid, who : Nat, total : Nat, cpu : Nat, over : Nat, late : Nat]

Types ==
    /\ alive \in [Pid -> Nat] /\ used \in [Pid -> Nat] /\ forks \in Nat /\ now \in Nat
    /\ processes \in Seq(Entry) /\ incoming \in Seq(Entry)
    /\ pids \in Seq(Pid) /\ listed \in [Pid -> Nat] /\ listed_forks \in Nat
    /\ last_sample \in Nat /\ seconds_elapsed \in Nat /\ have_last_sample \in BOOLEAN
    /\ pc \in {"idle", "listed", "read", "publish"} /\ at \in Nat \ {0}
    /\ budget \in Budgets /\ faults \in 0 .. budget.faults
    /\ pc \in {"idle", "listed"} => incoming = <<>>

\* The program knows how much memory each buffer has.
Buffers ==
    /\ capacity \in Nat /\ room = capacity
    /\ incoming_capacity \in Nat /\ incoming_room = incoming_capacity
    /\ NoOverrun

\* What has been read is before what is still to be read.
Order ==
    /\ SamplesSorted /\ Sorted(pids)
    /\ pc \in {"listed", "read"} =>
          \A i \in DOMAIN incoming, j \in DOMAIN pids : j >= at => incoming[i].pid < pids[j]

\* Since an entry was read its PID has run for no longer than time has passed
\* since the sweep began.
RanSince(items, start) ==
    \A i \in DOMAIN items : used[items[i].pid] <= items[i].total + (now - start)

\* When the sweep of the published sample began.
Start == IF pc \in {"idle", "listed"} THEN last_sample ELSE last_sample - seconds_elapsed

Charged(items) == \A i \in DOMAIN items : items[i].cpu \in 0 .. items[i].over + items[i].late

Clock ==
    /\ last_sample <= now /\ seconds_elapsed <= last_sample
    /\ ~have_last_sample => processes = <<>> /\ pc \in {"idle", "listed"}
    /\ RanSince(processes, Start) /\ RanSince(incoming, last_sample)
    /\ Charged(processes) /\ Charged(incoming)

\* A process that was there when /proc was listed and is there no more will
\* not be there again.
Births ==
    /\ listed_forks <= forks
    /\ \A p \in Pid : /\ alive[p] <= forks /\ listed[p] <= listed_forks
                      /\ alive[p] \in {0, listed[p]} \/ alive[p] > listed_forks

\* Whoever was listed has gone, has been read or is still to be read.
Accounted ==
    pc # "idle" /\ faults = budget.faults =>
        \A p \in Pid : listed[p] # 0 =>
            \/ alive[p] # listed[p]
            \/ p \in PidsOf(incoming)
            \/ pc # "publish" /\ \E j \in DOMAIN pids : j >= at /\ pids[j] = p

Inv == Types /\ Buffers /\ Order /\ Clock /\ Births /\ Accounted

----------------------------------------------------------------------------
(* Lists of entries.                                                       *)

LEMMA Entries ==
    ASSUME NEW S, NEW s \in Seq(S)
    PROVE  /\ Len(s) \in Nat /\ DOMAIN s = 1 .. Len(s)
           /\ \A i \in DOMAIN s : s[i] \in S
  BY LenProperties, ElementOfSeq

LEMMA EntryTypes ==
    ASSUME NEW s \in Seq(Entry), NEW i \in DOMAIN s
    PROVE  s[i].pid \in Pid /\ s[i].total \in Nat
  <1>1. s[i] \in Entry
    BY Entries
  <1> QED
    BY <1>1 DEF Entry

LEMMA OneMore ==
    ASSUME NEW S, NEW s \in Seq(S), NEW e \in S
    PROVE  /\ Append(s, e) \in Seq(S) /\ Len(Append(s, e)) = Len(s) + 1
           /\ DOMAIN Append(s, e) = DOMAIN s \cup {Len(s) + 1}
           /\ \A i \in DOMAIN s : i < Len(s) + 1 /\ Append(s, e)[i] = s[i]
           /\ Append(s, e)[Len(s) + 1] = e
  <1>1. Append(s, e) \in Seq(S) /\ Len(Append(s, e)) = Len(s) + 1
    BY AppendProperties
  <1>2. /\ \A i \in 1 .. Len(s) : Append(s, e)[i] = s[i]
        /\ Append(s, e)[Len(s) + 1] = e
    BY AppendProperties
  <1>3. Len(s) \in Nat /\ DOMAIN s = 1 .. Len(s) /\ DOMAIN Append(s, e) = 1 .. Len(s) + 1
    BY <1>1, LenProperties
  <1> QED
    BY <1>1, <1>2, <1>3

LEMMA WindowFits == ASSUME NEW s PROVE Len(Window(s)) <= MaxEvents
  BY MonitorAssumption DEF Window

\* What a process is charged with.
LEMMA Charge ==
    ASSUME Types, Clock, pc = "read", NEW p \in Pid
    PROVE  Usage(p) \in 0 .. seconds_elapsed + (now - last_sample)
  <1>1. /\ now \in Nat /\ last_sample \in Nat /\ seconds_elapsed \in Nat /\ last_sample <= now
        /\ used[p] \in Nat
    BY DEF Types, Clock
  <1>2. CASE seconds_elapsed = 0 \/ Find(processes, p) = {}
    BY <1>1, <1>2 DEF Usage
  <1>3. CASE ~(seconds_elapsed = 0 \/ Find(processes, p) = {})
    <2> DEFINE found == CHOOSE i \in Find(processes, p) : TRUE
               previous == processes[found].total
    <2>1. found \in DOMAIN processes /\ processes[found].pid = p
      BY <1>3 DEF Find
    <2>2. previous \in Nat
      BY <2>1, EntryTypes DEF Types
    <2>3. used[p] <= previous + (now - (last_sample - seconds_elapsed))
      BY <2>1 DEF Clock, RanSince, Start
    <2>4. Usage(p) = IF used[p] < previous THEN 0 ELSE used[p] - previous
      BY <1>3 DEF Usage
    <2> HIDE DEF previous
    <2> QED
      BY <1>1, <2>2, <2>3, <2>4
  <1> QED
    BY <1>2, <1>3

LEMMA MeasuredIsEntry ==
    ASSUME Types, Clock, pc = "read", NEW p \in Pid
    PROVE  /\ Measured(p) \in Entry
           /\ Measured(p).pid = p /\ Measured(p).total = used[p]
           /\ Measured(p).cpu \in 0 .. Measured(p).over + Measured(p).late
  <1>1. Usage(p) \in 0 .. seconds_elapsed + (now - last_sample)
    BY Charge
  <1>2. /\ now - last_sample \in Nat /\ seconds_elapsed \in Nat
        /\ alive[p] \in Nat /\ used[p] \in Nat
    BY DEF Types, Clock
  <1> QED
    BY <1>1, <1>2 DEF Measured, Entry

\* incoming_reserve() leaves room for one entry.
LEMMA Reserved ==
    ASSUME Buffers, Reserve, Len(incoming) \in Nat
    PROVE  /\ incoming_capacity' \in Nat /\ incoming_room' = incoming_capacity'
           /\ Len(incoming) + 1 <= incoming_room'
  BY MonitorAssumption DEF Buffers, NoOverrun, Reserve

----------------------------------------------------------------------------
(* The invariant.                                                          *)

LEMMA Initial == Init => Inv
  <1> SUFFICES ASSUME Init PROVE Inv
    OBVIOUS
  <1>1. <<>> \in Seq(Entry) /\ <<>> \in Seq(Pid) /\ Len(<<>>) = 0 /\ DOMAIN <<>> = {}
    BY EmptySeq
  <1>2. PICK born \in SUBSET (1 .. budget.pids) :
            alive = [p \in Pid |-> IF p \in born THEN p ELSE 0]
    BY DEF Init
  <1>3. /\ \A p \in Pid : alive[p] \in {0, p} /\ p <= MaxPid /\ p \in Nat
        /\ alive \in [Pid -> Nat] /\ used \in [Pid -> Nat] /\ listed = [p \in Pid |-> 0]
    BY <1>2, MonitorAssumption DEF Init, Pid
  <1>4. budget.faults \in Nat
    BY MonitorAssumption DEF Init
  <1>5. Types
    <2>1. forks \in Nat /\ budget \in Budgets /\ faults \in 0 .. budget.faults
      BY <1>4, MonitorAssumption DEF Init
    <2>2. processes \in Seq(Entry) /\ incoming \in Seq(Entry) /\ pids \in Seq(Pid)
      BY <1>1 DEF Init
    <2>3. listed \in [Pid -> Nat] /\ listed_forks \in Nat
      BY <1>3 DEF Init
    <2>4. /\ now = 0 /\ last_sample = 0 /\ seconds_elapsed = 0 /\ have_last_sample = FALSE
          /\ pc = "idle" /\ at = 1 /\ incoming = <<>>
      BY DEF Init
    <2>5. at \in Nat \ {0} /\ pc \in {"idle", "listed", "read", "publish"}
      BY <2>4
    <2>6. now \in Nat /\ last_sample \in Nat /\ seconds_elapsed \in Nat
      BY <2>4
    <2>7. have_last_sample \in BOOLEAN
      BY <2>4
    <2> QED
      BY <1>3, <2>1, <2>2, <2>3, <2>4, <2>5, <2>6, <2>7, Zenon DEF Types
  <1>6. Buffers
    BY <1>1, MonitorAssumption DEF Init, Buffers, NoOverrun
  <1>7. Order
    BY <1>1 DEF Init, Order, SamplesSorted, InPidOrder, Sorted
  <1>8. Clock
    BY <1>1 DEF Init, Clock, RanSince, Charged
  <1>9. Births
    BY <1>3, MonitorAssumption DEF Init, Births
  <1>10. Accounted
    BY DEF Init, Accounted
  <1> QED
    BY <1>5, <1>6, <1>7, <1>8, <1>9, <1>10 DEF Inv

\* A step that leaves the monitor alone.
LEMMA KernelStep ==
    ASSUME Inv, UNCHANGED <<sample, buffer, clock, listing, pc, at, faults, budget>>,
           alive' \in [Pid -> Nat], used' \in [Pid -> Nat], forks' \in Nat, now' \in Nat,
           now <= now', forks <= forks',
           \A p \in Pid : used'[p] <= used[p] + (now' - now),
           \A p \in Pid : /\ alive'[p] \in {0, alive[p]} \/ alive'[p] > forks
                          /\ alive'[p] <= forks'
    PROVE  Inv'
  <1> USE DEF sample, buffer, clock, listing
  <1>1. Types' /\ Buffers' /\ Order'
    BY DEF Inv, Types, Buffers, NoOverrun, Order, SamplesSorted, InPidOrder, Sorted
  <1>2. ASSUME NEW items \in Seq(Entry), NEW start \in Int, RanSince(items, start)
        PROVE  \A i \in DOMAIN items : used'[items[i].pid] <= items[i].total + (now' - start)
    <2> TAKE i \in DOMAIN items
    <2>1. items[i].pid \in Pid /\ items[i].total \in Nat
      BY <1>2, EntryTypes
    <2>2. used[items[i].pid] <= items[i].total + (now - start)
      BY <1>2 DEF RanSince
    <2>3. used'[items[i].pid] <= used[items[i].pid] + (now' - now)
      BY <2>1
    <2>4. used[items[i].pid] \in Nat /\ used'[items[i].pid] \in Nat /\ now \in Nat
      BY <2>1 DEF Inv, Types
    <2> QED
      BY <1>2, <2>1, <2>2, <2>3, <2>4, SMTT(30)
  <1>3. Clock'
    <2>1. Start' = Start /\ Start \in Int /\ last_sample \in Int
      BY DEF Start, Inv, Types
    <2>2. processes \in Seq(Entry) /\ incoming \in Seq(Entry)
      BY DEF Inv, Types
    <2>3. RanSince(processes, Start)' /\ RanSince(incoming, last_sample)'
      BY <1>2, <2>1, <2>2 DEF Inv, Clock, RanSince
    <2>4. last_sample' <= now' /\ seconds_elapsed' <= last_sample'
      BY DEF Inv, Types, Clock
    <2> QED
      BY <2>3, <2>4 DEF Inv, Clock, Charged
  <1>4. Births'
    <2>1. /\ listed_forks \in Nat /\ forks \in Nat /\ listed_forks <= forks
          /\ \A p \in Pid : alive[p] \in Nat /\ listed[p] \in Nat
      BY DEF Inv, Types, Births
    <2>2. ASSUME NEW p \in Pid PROVE alive'[p] \in {0, listed[p]} \/ alive'[p] > listed_forks
      <3>1. CASE alive'[p] \in {0, alive[p]}
        BY <2>1, <3>1 DEF Inv, Births
      <3>2. CASE alive'[p] > forks
        BY <2>1, <3>2
      <3> QED
        BY <3>1, <3>2
    <2>3. listed_forks <= forks'
      BY <2>1
    <2> QED
      BY <2>2, <2>3 DEF Inv, Births
  <1>5. Accounted'
    <2>1. ASSUME NEW p \in Pid, listed[p] # 0, alive[p] # listed[p] PROVE alive'[p] # listed[p]
      BY <2>1 DEF Inv, Types, Births
    <2> QED
      BY <2>1 DEF Inv, Accounted, PidsOf
  <1> QED
    BY <1>1, <1>3, <1>4, <1>5 DEF Inv

LEMMA ForkStep == ASSUME Inv, NEW p \in Pid, Fork(p), UNCHANGED budget PROVE Inv'
  <1>1. /\ alive[p] = 0 /\ forks' = forks + 1 /\ now' = now
        /\ alive' = [alive EXCEPT ![p] = forks + 1] /\ used' = [used EXCEPT ![p] = 0]
        /\ UNCHANGED <<sample, buffer, clock, listing, pc, at, faults, budget>>
    BY DEF Fork
  <1>2. /\ alive \in [Pid -> Nat] /\ used \in [Pid -> Nat] /\ forks \in Nat /\ now \in Nat
        /\ \A q \in Pid : alive[q] <= forks
    BY DEF Inv, Types, Births
  <1>3. /\ alive' \in [Pid -> Nat] /\ used' \in [Pid -> Nat] /\ forks' \in Nat /\ now' \in Nat
        /\ now <= now' /\ forks <= forks'
    BY <1>1, <1>2
  <1>4. ASSUME NEW q \in Pid
        PROVE  /\ used'[q] <= used[q] + (now' - now)
               /\ alive'[q] \in {0, alive[q]} \/ alive'[q] > forks
               /\ alive'[q] <= forks'
    BY <1>1, <1>2
  <1> QED
    BY <1>1, <1>3, <1>4, KernelStep

LEMMA ExitStep == ASSUME Inv, NEW p \in Pid, Exit(p), UNCHANGED budget PROVE Inv'
  <1>1. /\ forks' = forks /\ now' = now
        /\ alive' = [alive EXCEPT ![p] = 0] /\ used' = [used EXCEPT ![p] = 0]
        /\ UNCHANGED <<sample, buffer, clock, listing, pc, at, faults, budget>>
    BY DEF Exit
  <1>2. /\ alive \in [Pid -> Nat] /\ used \in [Pid -> Nat] /\ forks \in Nat /\ now \in Nat
        /\ \A q \in Pid : alive[q] <= forks
    BY DEF Inv, Types, Births
  <1>3. /\ alive' \in [Pid -> Nat] /\ used' \in [Pid -> Nat] /\ forks' \in Nat /\ now' \in Nat
        /\ now <= now' /\ forks <= forks'
    BY <1>1, <1>2
  <1>4. ASSUME NEW q \in Pid
        PROVE  /\ used'[q] <= used[q] + (now' - now)
               /\ alive'[q] \in {0, alive[q]} \/ alive'[q] > forks
               /\ alive'[q] <= forks'
    BY <1>1, <1>2
  <1> QED
    BY <1>1, <1>3, <1>4, KernelStep

LEMMA TickStep == ASSUME Inv, Tick, UNCHANGED budget PROVE Inv'
  <1>1. PICK run \in SUBSET Live :
            used' = [p \in Pid |-> IF p \in run THEN used[p] + 1 ELSE used[p]]
    BY DEF Tick
  <1>2. /\ now' = now + 1 /\ alive' = alive /\ forks' = forks
        /\ UNCHANGED <<sample, buffer, clock, listing, pc, at, faults, budget>>
    BY DEF Tick
  <1>3. /\ alive \in [Pid -> Nat] /\ used \in [Pid -> Nat] /\ forks \in Nat /\ now \in Nat
        /\ \A q \in Pid : alive[q] <= forks
    BY DEF Inv, Types, Births
  <1>4. /\ alive' \in [Pid -> Nat] /\ used' \in [Pid -> Nat] /\ forks' \in Nat /\ now' \in Nat
        /\ now <= now' /\ forks <= forks'
    BY <1>1, <1>2, <1>3
  <1>5. ASSUME NEW q \in Pid
        PROVE  /\ used'[q] <= used[q] + (now' - now)
               /\ alive'[q] \in {0, alive[q]} \/ alive'[q] > forks
               /\ alive'[q] <= forks'
    BY <1>1, <1>2, <1>3
  <1> QED
    BY <1>2, <1>4, <1>5, KernelStep

LEMMA ListStep == ASSUME Inv, ListPids, UNCHANGED budget PROVE Inv'
  <1>1. PICK list \in {l \in PidLists : Sorted(l)} :
            LET missed == Live \ {list[i] : i \in DOMAIN list}
            IN  /\ \A i \in DOMAIN list : list[i] \in Live
                /\ missed # {} => faults > 0
                /\ faults' = IF missed = {} THEN faults ELSE faults - 1
                /\ pids' = list
    BY DEF ListPids
  <1>2. /\ pc = "idle" /\ pc' = "listed" /\ at' = 1 /\ incoming' = <<>>
        /\ listed' = alive /\ listed_forks' = forks
        /\ UNCHANGED <<alive, used, forks, now, processes, capacity, room, events,
                       incoming_capacity, incoming_room, last_sample, have_last_sample,
                       seconds_elapsed, budget>>
    BY DEF ListPids, kernel, sample, clock
  <1>3. list \in Seq(Pid)
    BY <1>1, MonitorAssumption, SeqDef DEF PidLists
  <1>4. <<>> \in Seq(Entry) /\ Len(<<>>) = 0 /\ DOMAIN <<>> = {}
    BY EmptySeq
  <1>5. faults' \in 0 .. budget'.faults
    BY <1>1, <1>2, MonitorAssumption DEF Inv, Types
  <1>6. Types'
    BY <1>1, <1>2, <1>3, <1>4, <1>5 DEF Inv, Types
  <1>7. Buffers'
    BY <1>2, <1>4 DEF Inv, Buffers, NoOverrun
  <1>8. Order'
    BY <1>1, <1>2, <1>4 DEF Inv, Order, SamplesSorted, InPidOrder, Sorted
  <1>9. Clock'
    BY <1>2, <1>4 DEF Inv, Types, Clock, RanSince, Start, Charged
  <1>10. Births'
    BY <1>2 DEF Inv, Types, Births
  <1>11. Accounted'
    <2> SUFFICES ASSUME faults' = budget.faults, NEW p \in Pid, alive[p] # 0
                 PROVE  \E j \in DOMAIN list : list[j] = p
      BY <1>1, <1>2, <1>3, Entries DEF Accounted
    <2>1. Live \ {list[i] : i \in DOMAIN list} = {}
      BY <1>1, MonitorAssumption DEF Inv, Types
    <2> QED
      BY <2>1 DEF Live
  <1> QED
    BY <1>6, <1>7, <1>8, <1>9, <1>10, <1>11 DEF Inv

LEMMA StampStep == ASSUME Inv, Stamp, UNCHANGED budget PROVE Inv'
  <1>1. /\ pc = "listed" /\ pc' = "read" /\ last_sample' = now /\ have_last_sample' = TRUE
        /\ seconds_elapsed' = IF have_last_sample THEN now - last_sample ELSE 0
        /\ UNCHANGED <<alive, used, forks, now, processes, capacity, room, events, incoming,
                       incoming_capacity, incoming_room, pids, listed, listed_forks, at,
                       faults, budget>>
    BY DEF Stamp, kernel, sample, buffer, listing
  <1>2. incoming = <<>> /\ DOMAIN incoming = {}
    BY <1>1, EmptySeq DEF Inv, Types
  <1>3. now \in Nat /\ last_sample \in Nat /\ last_sample <= now
    BY DEF Inv, Types, Clock
  <1>4. Types'
    BY <1>1, <1>3 DEF Inv, Types
  <1>5. Buffers' /\ Order'
    BY <1>1 DEF Inv, Buffers, NoOverrun, Order, SamplesSorted, InPidOrder, Sorted
  <1>6. Clock'
    <2>1. last_sample' <= now' /\ seconds_elapsed' <= last_sample'
      BY <1>1, <1>3
    <2>2. RanSince(processes, Start)'
      <3>1. CASE have_last_sample
        BY <1>1, <1>3, <3>1 DEF Inv, Clock, RanSince, Start
      <3>2. CASE ~have_last_sample
        BY <1>1, <3>2, EmptySeq DEF Inv, Clock, RanSince
      <3> QED
        BY <3>1, <3>2
    <2> QED
      BY <1>1, <1>2, <2>1, <2>2 DEF Inv, Clock, RanSince, Charged
  <1>7. Births' /\ Accounted'
    BY <1>1 DEF Inv, Births, Accounted, PidsOf
  <1> QED
    BY <1>4, <1>5, <1>6, <1>7 DEF Inv

LEMMA Faults ==
    ASSUME Types
    PROVE  /\ budget.faults \in Nat /\ faults \in Nat /\ faults <= budget.faults
           /\ faults > 0 => faults - 1 \in 0 .. budget.faults /\ faults - 1 # budget.faults
  <1>1. budget.faults \in Nat
    BY MonitorAssumption DEF Types
  <1> QED
    BY <1>1 DEF Types

LEMMA ReadStep == ASSUME Inv, Read, UNCHANGED budget PROVE Inv'
  <1> DEFINE p == pids[at]
             e == Measured(p)
  <1>1. /\ pc = "read" /\ pc' = pc /\ at <= Len(pids) /\ at' = at + 1 /\ Reserve
        /\ incoming' = Append(incoming, e)
        /\ UNCHANGED <<alive, used, forks, now, processes, capacity, room, events, pids, listed,
                       listed_forks, last_sample, have_last_sample, seconds_elapsed, faults,
                       budget>>
    BY DEF Read, Reading, kernel, sample, clock, listing
  <1>2. at \in DOMAIN pids /\ p \in Pid
    BY <1>1, Entries DEF Inv, Types
  <1>3. /\ e \in Entry /\ e.pid = p /\ e.total = used[p]
        /\ e.cpu \in 0 .. e.over + e.late
    BY <1>1, <1>2, MeasuredIsEntry DEF Inv
  <1> HIDE DEF e
  <1>4. /\ incoming' \in Seq(Entry) /\ Len(incoming') = Len(incoming) + 1
        /\ DOMAIN incoming' = DOMAIN incoming \cup {Len(incoming) + 1}
        /\ \A i \in DOMAIN incoming : i < Len(incoming) + 1 /\ incoming'[i] = incoming[i]
        /\ incoming'[Len(incoming) + 1] = e
    <2>1. incoming \in Seq(Entry)
      BY DEF Inv, Types
    <2> QED
      BY <1>1, <1>3, <2>1, OneMore
  <1> DEFINE last == Len(incoming) + 1
  <1> HIDE DEF p
  <1>5. Types'
    BY <1>1, <1>4, SMTT(30) DEF Inv, Types
  <1>6. Buffers'
    <2>1. Len(incoming) \in Nat
      BY Entries DEF Inv, Types
    <2>2. /\ incoming_capacity' \in Nat /\ incoming_room' = incoming_capacity'
          /\ Len(incoming) + 1 <= incoming_room'
      BY <1>1, <2>1, Reserved DEF Inv
    <2> QED
      BY <1>1, <1>4, <2>2 DEF Inv, Buffers, NoOverrun
  <1>7. Order'
    <2>1. \A i \in DOMAIN incoming : incoming[i].pid < e.pid
      BY <1>1, <1>2, <1>3, SMTT(30) DEF Inv, Order, Types, p
    <2>2. InPidOrder(incoming)'
      <3> SUFFICES ASSUME NEW i \in DOMAIN incoming', NEW j \in DOMAIN incoming', i < j
                   PROVE  incoming'[i].pid < incoming'[j].pid
        BY DEF InPidOrder
      <3>1. i \in DOMAIN incoming
        <4>1. Len(incoming) \in Nat /\ DOMAIN incoming = 1 .. Len(incoming)
          BY Entries DEF Inv, Types
        <4> QED
          BY <1>4, <4>1
      <3>2. CASE j \in DOMAIN incoming
        BY <1>4, <3>1, <3>2 DEF Inv, Order, SamplesSorted, InPidOrder
      <3>3. CASE j = last
        BY <1>4, <2>1, <3>1, <3>3
      <3> QED
        BY <1>4, <3>2, <3>3
    <2>3. ASSUME NEW i \in DOMAIN incoming', NEW j \in DOMAIN pids, j >= at + 1
          PROVE  incoming'[i].pid < pids[j]
      <3>1. at \in Nat /\ j \in Nat
        BY Entries DEF Inv, Types
      <3>2. at < j
        BY <2>3, <3>1
      <3>3. CASE i \in DOMAIN incoming
        BY <1>1, <1>4, <3>1, <3>2, <3>3 DEF Inv, Order
      <3>4. CASE i = last
        BY <1>2, <1>3, <1>4, <3>2, <3>4 DEF Inv, Order, Sorted, p
      <3> QED
        BY <1>4, <3>3, <3>4
    <2> QED
      BY <1>1, <2>2, <2>3 DEF Inv, Order, SamplesSorted, InPidOrder, Sorted
  <1>8. Clock'
    <2>1. RanSince(incoming, last_sample)'
      <3> SUFFICES ASSUME NEW i \in DOMAIN incoming'
                   PROVE  used[incoming'[i].pid] <= incoming'[i].total + (now - last_sample)
        BY <1>1 DEF RanSince
      <3>1. CASE i \in DOMAIN incoming
        BY <1>4, <3>1 DEF Inv, Clock, RanSince
      <3>2. CASE i = last
        <4>1. used[p] \in Nat /\ now - last_sample \in Nat
          BY <1>2 DEF Inv, Types, Clock
        <4> QED
          BY <1>3, <1>4, <3>2, <4>1
      <3> QED
        BY <1>4, <3>1, <3>2
    <2>2. Charged(incoming)'
      BY <1>3, <1>4 DEF Inv, Clock, Charged
    <2> QED
      BY <1>1, <2>1, <2>2 DEF Inv, Clock, RanSince, Start, Charged
  <1>9. Births'
    BY <1>1 DEF Inv, Births
  <1>10. Accounted'
    <2> SUFFICES ASSUME faults = budget.faults, NEW q \in Pid, listed[q] # 0, alive[q] = listed[q]
                 PROVE  q \in PidsOf(incoming)' \/ \E j \in DOMAIN pids : j >= at + 1 /\ pids[j] = q
      BY <1>1 DEF Accounted
    <2>1. q \in PidsOf(incoming) \/ \E j \in DOMAIN pids : j >= at /\ pids[j] = q
      BY <1>1 DEF Inv, Accounted
    <2>2. CASE q \in PidsOf(incoming)
      BY <1>4, <2>2 DEF PidsOf
    <2>3. ASSUME NEW j \in DOMAIN pids, j >= at, pids[j] = q
          PROVE  q \in PidsOf(incoming)' \/ j >= at + 1
      <3>1. j \in Nat /\ at \in Nat
        BY Entries, SMTT(30) DEF Inv, Types
      <3>2. CASE j = at
        BY <1>3, <1>4, <2>3, <3>2 DEF PidsOf, p
      <3> QED
        BY <2>3, <3>1, <3>2
    <2> QED
      BY <2>1, <2>2, <2>3
  <1> QED
    BY <1>5, <1>6, <1>7, <1>8, <1>9, <1>10 DEF Inv

LEMMA SkipStep == ASSUME Inv, Skip, UNCHANGED budget PROVE Inv'
  <1>1. /\ pc = "read" /\ pc' = pc /\ at <= Len(pids) /\ at' = at + 1 /\ Reserve
        /\ IF alive[pids[at]] = 0 THEN faults' = faults ELSE faults > 0 /\ faults' = faults - 1
        /\ UNCHANGED <<alive, used, forks, now, processes, capacity, room, events, incoming, pids,
                       listed, listed_forks, last_sample, have_last_sample, seconds_elapsed,
                       budget>>
    BY DEF Skip, Reading, kernel, sample, clock, listing
  <1>2. /\ faults' \in 0 .. budget.faults /\ budget.faults \in Nat
        /\ faults' = budget.faults => alive[pids[at]] = 0 /\ faults = budget.faults
    BY <1>1, Faults DEF Inv
  <1>3. Types'
    BY <1>1, <1>2, SMTT(30) DEF Inv, Types
  <1>4. Buffers'
    <2>1. Len(incoming) \in Nat
      BY Entries DEF Inv, Types
    <2>2. /\ incoming_capacity' \in Nat /\ incoming_room' = incoming_capacity'
          /\ Len(incoming) + 1 <= incoming_room'
      BY <1>1, <2>1, Reserved DEF Inv
    <2> QED
      BY <1>1, <2>1, <2>2 DEF Inv, Buffers, NoOverrun
  <1>5. Order'
    <2>1. \A j \in DOMAIN pids : j >= at + 1 => j >= at
      BY Entries DEF Inv, Types
    <2> QED
      BY <1>1, <2>1 DEF Inv, Order, SamplesSorted, InPidOrder, Sorted
  <1>6. Clock' /\ Births'
    BY <1>1 DEF Inv, Clock, RanSince, Start, Charged, Births
  <1>7. Accounted'
    <2> SUFFICES ASSUME faults' = budget.faults, NEW q \in Pid, listed[q] # 0, alive[q] = listed[q]
                 PROVE  q \in PidsOf(incoming) \/ \E j \in DOMAIN pids : j >= at + 1 /\ pids[j] = q
      BY <1>1 DEF Accounted, PidsOf
    <2>1. q \in PidsOf(incoming) \/ \E j \in DOMAIN pids : j >= at /\ pids[j] = q
      BY <1>1, <1>2 DEF Inv, Accounted
    <2>2. ASSUME NEW j \in DOMAIN pids, j >= at, pids[j] = q PROVE j >= at + 1
      <3>1. j \in Nat /\ at \in Nat
        BY Entries, SMTT(30) DEF Inv, Types
      <3>2. j # at
        BY <1>2, <2>2
      <3> QED
        BY <2>2, <3>1, <3>2
    <2> QED
      BY <2>1, <2>2
  <1> QED
    BY <1>3, <1>4, <1>5, <1>6, <1>7 DEF Inv

LEMMA SweepEndStep == ASSUME Inv, GiveUp \/ EndSweep, UNCHANGED budget PROVE Inv'
  <1>1. /\ pc = "read" /\ pc' = "publish"
        /\ \/ faults' = faults /\ at > Len(pids)
           \/ faults > 0 /\ faults' = faults - 1
        /\ UNCHANGED <<alive, used, forks, now, processes, capacity, room, events, incoming,
                       incoming_capacity, incoming_room, pids, listed, listed_forks, last_sample,
                       have_last_sample, seconds_elapsed, at, budget>>
    BY DEF GiveUp, EndSweep, Reading, kernel, sample, buffer, clock, listing
  <1>2. /\ faults' \in 0 .. budget.faults /\ budget.faults \in Nat
        /\ faults' = budget.faults => faults = budget.faults /\ at > Len(pids)
    BY <1>1, Faults DEF Inv
  <1>3. Types'
    BY <1>1, <1>2 DEF Inv, Types
  <1>4. Buffers' /\ Order'
    BY <1>1 DEF Inv, Buffers, NoOverrun, Order, SamplesSorted, InPidOrder, Sorted
  <1>5. Clock' /\ Births'
    BY <1>1 DEF Inv, Clock, RanSince, Start, Charged, Births
  <1>6. Accounted'
    <2>1. faults' = budget.faults => \A j \in DOMAIN pids : ~(j >= at)
      BY <1>2, Entries DEF Inv, Types
    <2> QED
      BY <1>1, <1>2, <2>1 DEF Inv, Accounted, PidsOf
  <1> QED
    BY <1>3, <1>4, <1>5, <1>6 DEF Inv

LEMMA PublishStep == ASSUME Inv, Publish, UNCHANGED budget PROVE Inv'
  <1>1. /\ pc = "publish" /\ pc' = "idle" /\ events' = Window(events \o Changes)
        /\ processes' = incoming /\ capacity' = incoming_capacity /\ room' = incoming_room
        /\ incoming' = <<>> /\ incoming_capacity' = capacity /\ incoming_room' = room
        /\ UNCHANGED <<alive, used, forks, now, pids, listed, listed_forks, last_sample,
                       have_last_sample, seconds_elapsed, at, faults, budget>>
    BY DEF Publish, kernel, clock, listing
  <1>2. <<>> \in Seq(Entry) /\ Len(<<>>) = 0 /\ DOMAIN <<>> = {}
    BY EmptySeq
  <1>3. Types'
    BY <1>1, <1>2 DEF Inv, Types
  <1>4. Buffers'
    BY <1>1, <1>2, WindowFits DEF Inv, Buffers, NoOverrun
  <1>5. Order'
    BY <1>1, <1>2 DEF Inv, Order, SamplesSorted, InPidOrder, Sorted
  <1>6. Clock'
    BY <1>1, <1>2 DEF Inv, Clock, RanSince, Start, Charged
  <1>7. Births' /\ Accounted'
    BY <1>1 DEF Inv, Births, Accounted
  <1> QED
    BY <1>3, <1>4, <1>5, <1>6, <1>7 DEF Inv

LEMMA Step == Inv /\ [Next]_vars => Inv'
  <1>1. ASSUME Inv, UNCHANGED vars PROVE Inv'
    BY <1>1 DEF vars, kernel, sample, buffer, clock, listing, Inv, Types, Buffers, NoOverrun, Order,
       SamplesSorted, InPidOrder, Sorted, Clock, RanSince, Start, Charged, Births, Accounted, PidsOf
  <1>2. ASSUME Inv, Next PROVE Inv'
    BY <1>2, ForkStep, ExitStep, TickStep, ListStep, StampStep, ReadStep, SkipStep, SweepEndStep,
       PublishStep DEF Next, Collect
  <1> QED
    BY <1>1, <1>2

----------------------------------------------------------------------------

(* The inductive invariant of sweeps and publications holds of every       *)
(* behaviour, for any number of PIDs and any budgets.                      *)
THEOREM Invariance == Spec => []Inv
  BY Initial, Step, PTL DEF Spec

(* What every binary search of the program relies on: samples are sorted,  *)
(* whatever happened while they were taken.                                *)
THEOREM SamplesAreSorted == Spec => []SamplesSorted
<1>1. Inv => SamplesSorted
  BY DEF Inv, Order
<1>2. QED
  BY <1>1, Invariance, PTL

(* No entry and no event is written beyond the memory there is, however    *)
(* often the buffers have grown and changed places.                        *)
THEOREM BuffersHold == Spec => []NoOverrun
<1>1. Inv => NoOverrun
  BY DEF Inv, Buffers
<1>2. QED
  BY <1>1, Invariance, PTL

(* CPU usage exceeds the gap by no more than the length of the sweep.      *)
THEOREM ChargesAreBounded == Spec => []CpuBounded
<1>1. Inv => CpuBounded
  BY DEF Inv, Clock, Charged, CpuBounded
<1>2. QED
  BY <1>1, Invariance, PTL

(* As long as nothing has failed, whoever was there from the listing on is *)
(* in the published sample.                                                *)
THEOREM EveryoneIsFound == Spec => NobodyMissed
<1>1. Inv /\ [Next]_vars
        => [Publishes /\ faults = budget.faults
            => \A p \in Live : alive[p] = listed[p] => p \in PidsOf(processes')]_vars
  <2> SUFFICES ASSUME Inv, Next, Publishes, faults = budget.faults,
                      NEW p \in Live, alive[p] = listed[p]
               PROVE  p \in PidsOf(processes')
    OBVIOUS
  <2>1. Publish
    BY DEF Publishes, Next, Fork, Exit, Tick, Collect, ListPids, Stamp, Read, Skip, GiveUp, EndSweep,
       Reading
  <2>2. p \in Pid /\ listed[p] # 0
    BY DEF Live
  <2>3. p \in PidsOf(incoming)
    BY <2>2 DEF Publishes, Inv, Accounted
  <2> QED
    BY <2>1, <2>3 DEF Publish, PidsOf
<1>2. QED
  BY <1>1, Invariance, PTL DEF Spec, NobodyMissed
----------------------------------------------------------------------------
(* The events.                                                             *)

\* The number of an index: how many indices there are up to it.
LEMMA KthFound ==
    ASSUME NEW n \in Nat, NEW S \in SUBSET (1 .. n)
    PROVE  /\ IsFiniteSet(S) /\ Cardinality(S) \in Nat
           /\ \A k \in 1 .. Cardinality(S) : Kth(S, k) \in S
           /\ \A i \in S : \E k \in 1 .. Cardinality(S) : Kth(S, k) = i
  <1> DEFINE UpTo(i) == {j \in S : j <= i}
             rank    == [i \in S |-> Cardinality(UpTo(i))]
  <1>1. IsFiniteSet(1 .. n)
    BY FS_Interval
  <1>2. IsFiniteSet(S)
    BY <1>1, FS_Subset
  <1>3. Cardinality(S) \in Nat
    BY <1>2, FS_CardinalityType
  <1>4. \A i \in S : IsFiniteSet(UpTo(i)) /\ Cardinality(UpTo(i)) <= Cardinality(S)
    BY <1>2, FS_Subset
  <1>5. ASSUME NEW i \in S PROVE rank[i] \in 1 .. Cardinality(S)
    <2>1. Cardinality(UpTo(i)) \in Nat
      BY <1>4, FS_CardinalityType
    <2>2. i \in UpTo(i)
      OBVIOUS
    <2>3. Cardinality(UpTo(i)) # 0
      BY <1>4, <2>2, FS_EmptySet
    <2> HIDE DEF UpTo
    <2>4. Cardinality(UpTo(i)) \in 1 .. Cardinality(S)
      BY <1>3, <1>4, <2>1, <2>3
    <2> QED
      BY <2>4
  <1>6. ASSUME NEW i \in S, NEW j \in S, i < j PROVE rank[i] # rank[j]
    <2>1. \A k \in S : k \in Int
      OBVIOUS
    <2>2. \A k \in S : k <= i => k <= j
      BY <1>6, <2>1
    <2>3. UpTo(i) \in SUBSET UpTo(j)
      BY <2>2
    <2>4. j \in UpTo(j) /\ j \notin UpTo(i)
      BY <1>6, <2>1
    <2>5. IsFiniteSet(UpTo(j))
      BY <1>4
    <2>6. Cardinality(UpTo(j)) = Cardinality(UpTo(i)) => UpTo(j) = UpTo(i)
      BY <2>3, <2>5, FS_Subset
    <2> HIDE DEF UpTo
    <2>7. Cardinality(UpTo(j)) # Cardinality(UpTo(i))
      BY <2>4, <2>6
    <2> QED
      BY <2>7
  <1>7. ASSUME NEW i \in S, NEW j \in S, rank[i] = rank[j] PROVE i = j
    <2>1. i < j \/ j < i \/ i = j
      OBVIOUS
    <2> QED
      BY <1>6, <1>7, <2>1
  <1>8. rank \in [S -> 1 .. Cardinality(S)]
    BY <1>5
  <1> HIDE DEF rank
  <1>9. rank \in Injection(S, 1 .. Cardinality(S))
    BY <1>7, <1>8 DEF Injection, IsInjective
  <1>10. IsFiniteSet(1 .. Cardinality(S)) /\ Cardinality(1 .. Cardinality(S)) = Cardinality(S)
    <2>1. 0 \in Int /\ 1 \in Int /\ Cardinality(S) \in Int
      BY <1>3
    <2>2. Cardinality(1 .. Cardinality(S)) = IF 1 > Cardinality(S) THEN 0 ELSE Cardinality(S) - 1 + 1
      BY <2>1, FS_Interval
    <2>3. IsFiniteSet(1 .. Cardinality(S))
      BY <2>1, FS_Interval
    <2> QED
      BY <1>3, <2>2, <2>3
  <1>11. rank \in Surjection(S, 1 .. Cardinality(S))
    BY <1>9, <1>10, FS_Injection
  <1>12. ASSUME NEW k \in 1 .. Cardinality(S) PROVE \E i \in S : rank[i] = k
    BY <1>11 DEF Surjection
  <1>13. \A i \in S : rank[i] = Cardinality({j \in S : j <= i})
    BY DEF rank
  <1>14. ASSUME NEW k \in 1 .. Cardinality(S) PROVE Kth(S, k) \in S /\ rank[Kth(S, k)] = k
    <2>1. \E i \in S : Cardinality({j \in S : j <= i}) = k
      BY <1>12, <1>13
    <2>2. Kth(S, k) \in S /\ Cardinality({j \in S : j <= Kth(S, k)}) = k
      BY <2>1, Zenon DEF Kth
    <2> QED
      BY <1>13, <2>2
  <1>15. ASSUME NEW i \in S PROVE \E k \in 1 .. Cardinality(S) : Kth(S, k) = i
    <2>1. rank[i] \in 1 .. Cardinality(S)
      BY <1>8
    <2>2. Kth(S, rank[i]) \in S /\ rank[Kth(S, rank[i])] = rank[i]
      BY <1>14, <2>1
    <2> QED
      BY <1>7, <2>1, <2>2
  <1> QED
    BY <1>2, <1>3, <1>14, <1>15

\* What is only in one of two samples.
LEMMA OnlyInOne ==
    ASSUME NEW a \in Seq(Entry), NEW b \in Seq(Entry)
    PROVE  /\ OnlyIn(a, b) \in Seq(Pid)
           /\ \A k \in DOMAIN OnlyIn(a, b) : OnlyIn(a, b)[k] \in PidsOf(a) \ PidsOf(b)
           /\ \A p \in PidsOf(a) \ PidsOf(b) : \E k \in DOMAIN OnlyIn(a, b) : OnlyIn(a, b)[k] = p
  <1> DEFINE S == {i \in DOMAIN a : Find(b, a[i].pid) = {}}
             list == [k \in 1 .. Cardinality(S) |-> a[Kth(S, k)].pid]
  <1>1. Len(a) \in Nat /\ S \in SUBSET (1 .. Len(a))
    BY Entries
  <1>2. /\ Cardinality(S) \in Nat
        /\ \A k \in 1 .. Cardinality(S) : Kth(S, k) \in S
        /\ \A i \in S : \E k \in 1 .. Cardinality(S) : Kth(S, k) = i
    BY <1>1, KthFound
  <1>3. \A i \in S : i \in DOMAIN a /\ a[i].pid \in Pid /\ a[i].pid \in PidsOf(a) /\ a[i].pid \notin PidsOf(b)
    BY EntryTypes DEF Find, PidsOf
  <1>4. \A p \in PidsOf(a) \ PidsOf(b) : \E i \in S : a[i].pid = p
    BY DEF Find, PidsOf
  <1>5. OnlyIn(a, b) = list
    BY DEF OnlyIn
  <1> HIDE DEF S
  <1>6. DOMAIN list = 1 .. Cardinality(S) /\ \A k \in DOMAIN list : list[k] = a[Kth(S, k)].pid
    OBVIOUS
  <1>7. list \in [1 .. Cardinality(S) -> Pid]
    BY <1>2, <1>3
  <1>8. list \in Seq(Pid)
    BY <1>2, <1>7, SeqDef
  <1> HIDE DEF list
  <1>9. \A k \in DOMAIN list : list[k] \in PidsOf(a) \ PidsOf(b)
    BY <1>2, <1>3, <1>6
  <1>10. \A p \in PidsOf(a) \ PidsOf(b) : \E k \in DOMAIN list : list[k] = p
    BY <1>2, <1>4, <1>6
  <1> QED
    BY <1>5, <1>8, <1>9, <1>10
Event == [type : {"created", "terminated"}, pid : Pid]

\* What detect_changes() records.
LEMMA Recorded ==
    ASSUME Types
    PROVE  /\ Changes \in Seq(Event)
           /\ \A i \in DOMAIN Changes :
                 \/ /\ Changes[i].type = "created"
                    /\ Changes[i].pid \in PidsOf(incoming) \ PidsOf(processes)
                 \/ /\ Changes[i].type = "terminated"
                    /\ Changes[i].pid \in PidsOf(processes) \ PidsOf(incoming)
           /\ \A p : p \in PidsOf(incoming) \ PidsOf(processes)
                     => \E i \in DOMAIN Changes : Changes[i].pid = p
           /\ \A p : p \in PidsOf(processes) \ PidsOf(incoming)
                     => \E i \in DOMAIN Changes : Changes[i].pid = p
  <1> DEFINE born == OnlyIn(incoming, processes)
             gone == OnlyIn(processes, incoming)
             created == [i \in DOMAIN born |-> Created(born[i])]
             ended   == [i \in DOMAIN gone |-> Terminated(gone[i])]
  <1>1. processes \in Seq(Entry) /\ incoming \in Seq(Entry)
    BY DEF Types
  <1>2. /\ born \in Seq(Pid)
        /\ \A k \in DOMAIN born : born[k] \in PidsOf(incoming) \ PidsOf(processes)
        /\ \A p \in PidsOf(incoming) \ PidsOf(processes) : \E k \in DOMAIN born : born[k] = p
    BY <1>1, OnlyInOne
  <1>3. /\ gone \in Seq(Pid)
        /\ \A k \in DOMAIN gone : gone[k] \in PidsOf(processes) \ PidsOf(incoming)
        /\ \A p \in PidsOf(processes) \ PidsOf(incoming) : \E k \in DOMAIN gone : gone[k] = p
    BY <1>1, OnlyInOne
  <1>4. Changes = created \o ended
    BY DEF Changes
  <1> HIDE DEF born, gone
  <1>5. /\ Len(born) \in Nat /\ DOMAIN born = 1 .. Len(born) /\ \A k \in DOMAIN born : born[k] \in Pid
        /\ Len(gone) \in Nat /\ DOMAIN gone = 1 .. Len(gone) /\ \A k \in DOMAIN gone : gone[k] \in Pid
    BY <1>2, <1>3, Entries
  <1>6. \A p \in Pid : Created(p) \in Event /\ Terminated(p) \in Event
    BY DEF Event, Created, Terminated
  <1>7. created \in [1 .. Len(born) -> Event] /\ ended \in [1 .. Len(gone) -> Event]
    BY <1>5, <1>6
  <1>8. created \in Seq(Event) /\ ended \in Seq(Event)
    BY <1>5, <1>7, SeqDef
  <1>9. /\ Len(created) = Len(born) /\ DOMAIN created = 1 .. Len(born)
        /\ \A k \in DOMAIN born : created[k].type = "created" /\ created[k].pid = born[k]
        /\ Len(ended) = Len(gone) /\ DOMAIN ended = 1 .. Len(gone)
        /\ \A k \in DOMAIN gone : ended[k].type = "terminated" /\ ended[k].pid = gone[k]
    <2>1. DOMAIN created = 1 .. Len(born) /\ DOMAIN ended = 1 .. Len(gone)
      BY <1>5
    <2>2. Len(created) = Len(born) /\ Len(ended) = Len(gone)
      BY <1>5, <1>8, <2>1, LenProperties
    <2> QED
      BY <2>1, <2>2 DEF Created, Terminated
  <1> HIDE DEF created, ended
  <1>10. /\ Changes \in Seq(Event) /\ Len(Changes) = Len(born) + Len(gone)
         /\ \A i \in 1 .. Len(born) + Len(gone) :
               Changes[i] = IF i <= Len(born) THEN created[i] ELSE ended[i - Len(born)]
    BY <1>4, <1>8, <1>9, ConcatProperties
  <1>11. DOMAIN Changes = 1 .. Len(born) + Len(gone)
    BY <1>10, LenProperties
  <1>12. \A k \in DOMAIN born : k \in DOMAIN Changes /\ Changes[k] = created[k]
    BY <1>5, <1>10, <1>11
  <1>13. \A k \in DOMAIN gone :
            Len(born) + k \in DOMAIN Changes /\ Changes[Len(born) + k] = ended[k]
    BY <1>5, <1>10, <1>11
  <1>14. ASSUME NEW i \in DOMAIN Changes
         PROVE  \/ i \in DOMAIN born /\ Changes[i] = created[i]
                \/ i - Len(born) \in DOMAIN gone /\ Changes[i] = ended[i - Len(born)]
    BY <1>5, <1>10, <1>11
  <1>15. \A i \in DOMAIN Changes :
             \/ /\ Changes[i].type = "created"
                /\ Changes[i].pid \in PidsOf(incoming) \ PidsOf(processes)
             \/ /\ Changes[i].type = "terminated"
                /\ Changes[i].pid \in PidsOf(processes) \ PidsOf(incoming)
    BY <1>2, <1>3, <1>9, <1>14
  <1>16. \A p : p \in PidsOf(incoming) \ PidsOf(processes)
                => \E i \in DOMAIN Changes : Changes[i].pid = p
    BY <1>2, <1>9, <1>12
  <1>17. \A p : p \in PidsOf(processes) \ PidsOf(incoming)
                => \E i \in DOMAIN Changes : Changes[i].pid = p
    BY <1>3, <1>9, <1>13
  <1> QED
    BY <1>10, <1>15, <1>16, <1>17

\* The window drops events at the front only.
LEMMA Dropped ==
    ASSUME NEW s \in Seq(Event)
    PROVE  /\ Window(s) \in Seq(Event)
           /\ Len(Window(s)) <= MaxEvents
           /\ \E d \in Nat : /\ Len(s) = Len(Window(s)) + d
                             /\ d > 0 => Len(Window(s)) = MaxEvents
                             /\ \A i \in DOMAIN Window(s) : Window(s)[i] = s[i + d]
  <1>1. /\ Len(s) \in Nat /\ DOMAIN s = 1 .. Len(s) /\ MaxEvents \in Nat
        /\ \A i \in DOMAIN s : s[i] \in Event
    BY Entries, MonitorAssumption
  <1>2. CASE Len(s) <= MaxEvents
    <2>1. Window(s) = s
      BY <1>2 DEF Window
    <2>2. Len(s) = Len(s) + 0 /\ \A i \in DOMAIN s : s[i] = s[i + 0]
      BY <1>1
    <2>3. \E d \in Nat : /\ Len(s) = Len(s) + d
                         /\ d > 0 => Len(s) = MaxEvents
                         /\ \A i \in DOMAIN s : s[i] = s[i + d]
      <3>1. 0 \in Nat /\ (0 > 0 => Len(s) = MaxEvents)
        OBVIOUS
      <3> QED
        BY <2>2, <3>1, Zenon
    <2> QED
      BY <1>2, <2>1, <2>3
  <1>3. CASE ~(Len(s) <= MaxEvents)
    <2> DEFINE w == [i \in 1 .. MaxEvents |-> s[Len(s) - MaxEvents + i]]
    <2>1. Window(s) = w
      BY <1>3 DEF Window
    <2>2. \A i \in 1 .. MaxEvents : Len(s) - MaxEvents + i \in 1 .. Len(s)
      BY <1>1, <1>3
    <2>3. w \in [1 .. MaxEvents -> Event]
      BY <1>1, <2>2
    <2>4. w \in Seq(Event)
      BY <1>1, <2>3, SeqDef
    <2>5. Len(w) = MaxEvents
      BY <1>1, <2>4, LenProperties
    <2>6. Len(s) - MaxEvents \in Nat /\ Len(s) = MaxEvents + (Len(s) - MaxEvents)
      BY <1>1, <1>3
    <2>7. \A i \in DOMAIN w : w[i] = s[i + (Len(s) - MaxEvents)]
      <3> TAKE i \in DOMAIN w
      <3>1. i \in Nat /\ i + (Len(s) - MaxEvents) = Len(s) - MaxEvents + i
        BY <1>1
      <3> QED
        BY <3>1
    <2>8. Len(w) <= MaxEvents
      BY <1>1, <2>5
    <2> HIDE DEF w
    <2>9. \E d \in Nat : /\ Len(s) = Len(Window(s)) + d
                         /\ d > 0 => Len(Window(s)) = MaxEvents
                         /\ \A i \in DOMAIN Window(s) : Window(s)[i] = s[i + d]
      BY <2>1, <2>5, <2>6, <2>7
    <2>10. Window(s) \in Seq(Event) /\ Len(Window(s)) <= MaxEvents
      BY <2>1, <2>4, <2>8
    <2> QED
      BY <2>9, <2>10
  <1> QED
    BY <1>2, <1>3

\* The events are events, and the last one of each PID is true.
Log == events \in Seq(Event) /\ EventsTellMembership

LEMMA LogPublished == ASSUME Types, Log, Publish PROVE Log'
  <1> DEFINE s == events \o Changes
             w == Window(s)
             n == Len(events)
             c == Len(Changes)
  <1>1. events' = w /\ processes' = incoming
    BY DEF Publish
  <1>2. events \in Seq(Event) /\ n \in Nat /\ DOMAIN events = 1 .. n
    BY Entries DEF Log
  <1>3. Changes \in Seq(Event) /\ c \in Nat /\ DOMAIN Changes = 1 .. c
    BY Recorded, Entries
  <1>4. /\ s \in Seq(Event) /\ Len(s) = n + c
        /\ \A i \in 1 .. n + c : s[i] = IF i <= n THEN events[i] ELSE Changes[i - n]
    BY <1>2, <1>3, ConcatProperties
  <1> HIDE DEF s
  <1>5a. PICK d \in Nat : /\ Len(s) = Len(w) + d
                          /\ d > 0 => Len(w) = MaxEvents
                          /\ \A i \in DOMAIN w : w[i] = s[i + d]
    BY <1>4, Dropped
  <1>5. Len(s) = Len(w) + d /\ \A i \in DOMAIN w : w[i] = s[i + d]
    BY <1>5a
  <1>6. w \in Seq(Event) /\ Len(w) \in Nat /\ DOMAIN w = 1 .. Len(w)
    BY <1>4, Dropped, Entries
  <1>6b. Len(w) <= MaxEvents
    BY <1>4, Dropped
  <1> HIDE DEF w, n, c
  <1>6a. ASSUME NEW j \in 1 .. n + c, j > d PROVE j - d \in DOMAIN w /\ w[j - d] = s[j]
    <2>1. j - d \in DOMAIN w
      BY <1>2, <1>3, <1>4, <1>5, <1>6, <1>6a
    <2>2. (j - d) + d = j
      BY <1>2, <1>3
    <2> QED
      BY <1>5, <2>1, <2>2
  <1>7. \A j \in DOMAIN events : j > d => j - d \in DOMAIN w /\ w[j - d] = events[j]
    <2>1. \A j \in DOMAIN events : j \in 1 .. n + c /\ s[j] = events[j]
      BY <1>2, <1>3, <1>4
    <2> QED
      BY <1>6a, <2>1
  <1>8. \A k \in DOMAIN Changes : n + k > d => (n + k) - d \in DOMAIN w /\ w[(n + k) - d] = Changes[k]
    <2> SUFFICES ASSUME NEW k \in DOMAIN Changes, n + k > d
                 PROVE  (n + k) - d \in DOMAIN w /\ w[(n + k) - d] = Changes[k]
      OBVIOUS
    <2>1. PICK m \in 1 .. n + c : m = n + k /\ m > d /\ ~(m <= n) /\ m - n = k
      BY <1>2, <1>3
    <2>2. s[m] = Changes[k]
      <3>1. s[m] = Changes[m - n]
        BY <1>4, <2>1
      <3> QED
        BY <2>1, <3>1
    <2>3. m - d \in DOMAIN w /\ w[m - d] = s[m]
      BY <1>6a, <2>1
    <2> QED
      BY <2>1, <2>2, <2>3
  <1>9. ASSUME NEW i \in DOMAIN w, \A j \in DOMAIN w : j > i => w[j].pid # w[i].pid
        PROVE  w[i].type = "created" <=> w[i].pid \in PidsOf(incoming)
    <2>1. i \in Nat /\ i >= 1 /\ i + d \in 1 .. n + c /\ w[i] = s[i + d]
      BY <1>2, <1>3, <1>4, <1>5, <1>6
    <2>2. CASE i + d > n
      <3>1. i + d - n \in DOMAIN Changes /\ w[i] = Changes[i + d - n]
        BY <1>2, <1>3, <1>4, <2>1, <2>2
      <3> QED
        BY <3>1, Recorded
    <2>3. CASE i + d <= n
      <3>1. i + d \in DOMAIN events /\ w[i] = events[i + d]
        BY <1>2, <1>3, <1>4, <2>1, <2>3
      <3>2. \A j \in DOMAIN events : j > i + d => events[j].pid # events[i + d].pid
        <4> SUFFICES ASSUME NEW j \in DOMAIN events, j > i + d
                     PROVE  events[j].pid # events[i + d].pid
          OBVIOUS
        <4>1. j > d /\ j - d > i
          BY <1>2, <2>1
        <4>2. j - d \in DOMAIN w /\ w[j - d] = events[j]
          BY <1>7, <4>1
        <4> QED
          BY <1>9, <3>1, <4>1, <4>2
      <3>3. \A k \in DOMAIN Changes : Changes[k].pid # w[i].pid
        <4> SUFFICES ASSUME NEW k \in DOMAIN Changes PROVE Changes[k].pid # w[i].pid
          OBVIOUS
        <4>1. n + k > d /\ (n + k) - d > i
          BY <1>2, <1>3, <2>1, <2>3
        <4>2. (n + k) - d \in DOMAIN w /\ w[(n + k) - d] = Changes[k]
          BY <1>8, <4>1
        <4> QED
          BY <1>9, <4>1, <4>2
      <3>4. w[i].pid \in PidsOf(incoming) <=> w[i].pid \in PidsOf(processes)
        BY <3>3, Recorded
      <3>5. events[i + d].type = "created" <=> events[i + d].pid \in PidsOf(processes)
        BY <3>1, <3>2 DEF Log, EventsTellMembership, LastEvents
      <3> QED
        BY <3>1, <3>4, <3>5
    <2> QED
      BY <1>2, <2>1, <2>2, <2>3
  <1>10. PidsOf(incoming) \subseteq PidsOf(w) \/ Len(w) = MaxEvents
    <2>1. CASE d > 0
      BY <1>5a, <2>1
    <2>2. CASE d = 0 /\ n = MaxEvents
      BY <1>2, <1>3, <1>4, <1>5, <1>6, <1>6b, <2>2, MonitorAssumption
    <2>3. CASE d = 0 /\ PidsOf(processes) \subseteq PidsOf(events)
      <3>1. PidsOf(events) \subseteq PidsOf(w)
        BY <1>2, <1>7, <2>3 DEF PidsOf
      <3>2. \A k \in DOMAIN Changes : Changes[k].pid \in PidsOf(w)
        BY <1>2, <1>3, <1>8, <2>3 DEF PidsOf
      <3>3. \A p \in PidsOf(incoming) \ PidsOf(processes) : p \in PidsOf(w)
        BY <3>2, Recorded
      <3> QED
        BY <2>3, <3>1, <3>3
    <2>4. PidsOf(processes) \subseteq PidsOf(events) \/ n = MaxEvents
      BY DEF Log, EventsTellMembership, n
    <2> QED
      BY <2>1, <2>2, <2>3, <2>4
  <1>11. EventsTellMembership'
    BY <1>1, <1>9, <1>10 DEF EventsTellMembership, LastEvents, PidsOf
  <1> QED
    BY <1>1, <1>6, <1>11 DEF Log

(* The window of events agrees with the sample on the screen, and a PID of *)
(* the sample is without an event only if the window is full, for windows  *)
(* of any length and any number of events at once.                         *)
THEOREM LastEventTells == Spec => []EventsTellMembership
<1>1. Init => Log
  BY EmptySeq DEF Init, Log, EventsTellMembership, LastEvents, PidsOf
<1>2. Inv /\ Log /\ [Next]_vars => Log'
  <2> SUFFICES ASSUME Inv, Log, [Next]_vars PROVE Log'
    OBVIOUS
  <2>1. CASE Publish
    BY <2>1, LogPublished DEF Inv
  <2>2. CASE UNCHANGED sample
    <3>1. events' = events /\ processes' = processes
      BY <2>2 DEF sample
    <3>2. LastEvents' = LastEvents /\ PidsOf(processes)' = PidsOf(processes)
          /\ PidsOf(events)' = PidsOf(events)
      BY <3>1 DEF LastEvents, PidsOf
    <3> QED
      BY <3>1, <3>2 DEF Log, EventsTellMembership
  <2>3. Publish \/ UNCHANGED sample
    BY DEF vars, Next, Fork, Exit, Tick, Collect, ListPids, Stamp, Read, Skip, GiveUp, EndSweep
  <2> QED
    BY <2>1, <2>2, <2>3
<1>3. Log => EventsTellMembership
  BY DEF Log
<1>4. QED
  BY <1>1, <1>2, <1>3, Invariance, PTL DEF Spec
----------------------------------------------------------------------------
(* Who the entries are.                                                    *)

\* Entries are of processes that were born before the listing, or before now.
\* As long as nothing has failed, whoever was there when /proc was listed for
\* the published sample and still is, is in it; and so is the PID of whoever
\* was born by then and has been read again.
Told ==
    /\ published_forks \in Nat /\ published_forks <= listed_forks
    /\ \A i \in DOMAIN processes :
          /\ processes[i].who # 0
          /\ processes[i].who <= IF pc = "idle" THEN forks ELSE listed_forks
    /\ \A i \in DOMAIN incoming : incoming[i].who # 0 /\ incoming[i].who <= forks
    /\ faults = budget.faults =>
          /\ \A p \in Pid : alive[p] # 0 /\ alive[p] <= published_forks => p \in PidsOf(processes)
          /\ \A i \in DOMAIN incoming :
                incoming[i].who <= published_forks => incoming[i].pid \in PidsOf(processes)

LEMMA Who ==
    ASSUME NEW s \in Seq(Entry), NEW i \in DOMAIN s
    PROVE  s[i].who \in Nat /\ s[i].pid \in Pid
  <1>1. s[i] \in Entry
    BY Entries
  <1> QED
    BY <1>1 DEF Entry

LEMMA ToldAtFirst == Init => Told
  <1> SUFFICES ASSUME Init PROVE Told
    OBVIOUS
  <1>1. /\ published_forks = 0 /\ listed_forks = 0 /\ DOMAIN processes = {} /\ DOMAIN incoming = {}
    BY EmptySeq DEF Init
  <1>2. Types
    BY Initial DEF Inv
  <1>3. \A p \in Pid : alive[p] # 0 => ~(alive[p] <= published_forks)
    BY <1>1, <1>2 DEF Types
  <1> QED
    BY <1>1, <1>3 DEF Told

\* The published sample stays; nobody is born with an old number.
LEMMA ToldKernel ==
    ASSUME Inv, Told, UNCHANGED <<sample, buffer, listing, pc, faults, budget>>,
           forks' \in Nat, forks <= forks',
           \A p \in Pid : alive'[p] \in Nat /\ (alive'[p] \in {0, alive[p]} \/ alive'[p] > forks)
    PROVE  Told'
  <1> USE DEF sample, buffer, listing
  <1>1. /\ published_forks \in Nat /\ listed_forks \in Nat /\ forks \in Nat
        /\ published_forks <= listed_forks /\ listed_forks <= forks
        /\ alive \in [Pid -> Nat] /\ processes \in Seq(Entry) /\ incoming \in Seq(Entry)
    BY DEF Inv, Types, Births, Told
  <1>2. ASSUME NEW p \in Pid, alive'[p] # 0, alive'[p] <= published_forks PROVE alive'[p] = alive[p]
    BY <1>1, <1>2
  <1>3. \A i \in DOMAIN incoming : incoming[i].who # 0 /\ incoming[i].who <= forks'
    BY <1>1, Who DEF Told
  <1>4. \A i \in DOMAIN processes :
            /\ processes[i].who # 0
            /\ processes[i].who <= IF pc = "idle" THEN forks' ELSE listed_forks
    BY <1>1, Who DEF Told
  <1>5. faults = budget.faults =>
            \A p \in Pid : alive'[p] # 0 /\ alive'[p] <= published_forks => p \in PidsOf(processes)
    BY <1>2 DEF Told
  <1> QED
    BY <1>1, <1>3, <1>4, <1>5 DEF Told, PidsOf

LEMMA ToldRead == ASSUME Inv, Told, Read, UNCHANGED budget PROVE Told'
  <1> DEFINE p == pids[at]
             e == Measured(p)
  <1>1. /\ pc' = pc /\ pc = "read" /\ at <= Len(pids) /\ incoming' = Append(incoming, e)
        /\ alive[p] # 0
        /\ UNCHANGED <<alive, forks, processes, published_forks, listed_forks, faults, budget>>
    BY DEF Read, Reading, kernel, sample, listing
  <1>2. p \in Pid
    BY <1>1, Entries DEF Inv, Types
  <1>3. e \in Entry /\ e.pid = p /\ e.who = alive[p]
    BY <1>1, <1>2, MeasuredIsEntry DEF Inv, Measured
  <1> HIDE DEF e
  <1>4. /\ DOMAIN incoming' = DOMAIN incoming \cup {Len(incoming) + 1}
        /\ \A i \in DOMAIN incoming : incoming'[i] = incoming[i]
        /\ incoming'[Len(incoming) + 1] = e
    <2>1. incoming \in Seq(Entry)
      BY DEF Inv, Types
    <2> QED
      BY <1>1, <1>3, <2>1, OneMore
  <1>5. alive[p] <= forks
    BY <1>2 DEF Inv, Births
  <1> HIDE DEF p
  <1>6. \A i \in DOMAIN incoming' : incoming'[i].who # 0 /\ incoming'[i].who <= forks
    BY <1>1, <1>3, <1>4, <1>5 DEF Told
  <1>7. faults = budget.faults =>
            \A i \in DOMAIN incoming' :
                incoming'[i].who <= published_forks => incoming'[i].pid \in PidsOf(processes)
    BY <1>1, <1>2, <1>3, <1>4 DEF Told
  <1> QED
    BY <1>1, <1>6, <1>7 DEF Told, PidsOf

LEMMA ToldPublish == ASSUME Inv, Told, Publish, UNCHANGED budget PROVE Told'
  <1>1. /\ pc = "publish" /\ pc' = "idle" /\ processes' = incoming /\ DOMAIN incoming' = {}
        /\ published_forks' = listed_forks
        /\ UNCHANGED <<alive, forks, listed, listed_forks, faults, budget>>
    BY EmptySeq DEF Publish, kernel, listing
  <1>2. /\ listed_forks \in Nat /\ alive \in [Pid -> Nat] /\ listed \in [Pid -> Nat]
    BY DEF Inv, Types
  <1>3. ASSUME faults = budget.faults, NEW p \in Pid, alive[p] # 0, alive[p] <= listed_forks
        PROVE  p \in PidsOf(incoming)
    <2>1. alive[p] = listed[p]
      BY <1>2, <1>3 DEF Inv, Births
    <2> QED
      BY <1>1, <1>3, <2>1 DEF Inv, Accounted
  <1>4. \A i \in DOMAIN processes' : processes'[i].who # 0 /\ processes'[i].who <= forks
    BY <1>1 DEF Told
  <1>5. faults = budget.faults =>
            \A p \in Pid : alive[p] # 0 /\ alive[p] <= listed_forks => p \in PidsOf(processes')
    BY <1>1, <1>3
  <1> QED
    BY <1>1, <1>2, <1>4, <1>5 DEF Told, PidsOf

LEMMA ToldStep == Inv /\ Told /\ [Next]_vars => Told'
  <1> SUFFICES ASSUME Inv, Told, [Next]_vars PROVE Told'
    OBVIOUS
  <1>0. /\ forks \in Nat /\ alive \in [Pid -> Nat] /\ processes \in Seq(Entry)
        /\ published_forks \in Nat /\ listed_forks \in Nat /\ listed_forks <= forks
        /\ published_forks <= listed_forks
    BY DEF Inv, Types, Births, Told
  <1>1. ASSUME NEW p \in Pid, Fork(p) \/ Exit(p), UNCHANGED budget PROVE Told'
    <2>1. /\ UNCHANGED <<sample, buffer, listing, pc, faults, budget>>
          /\ forks' \in Nat /\ forks <= forks'
      BY <1>0, <1>1 DEF Fork, Exit
    <2>2. \A q \in Pid : alive'[q] \in Nat /\ (alive'[q] \in {0, alive[q]} \/ alive'[q] > forks)
      BY <1>0, <1>1 DEF Fork, Exit
    <2> QED
      BY <2>1, <2>2, ToldKernel
  <1>2. ASSUME Tick \/ UNCHANGED vars, UNCHANGED budget PROVE Told'
    <2>1. /\ UNCHANGED <<sample, buffer, listing, pc, faults, budget>>
          /\ forks' = forks /\ alive' = alive
      BY <1>2 DEF Tick, vars, kernel
    <2> QED
      BY <1>0, <2>1, ToldKernel
  <1>3. ASSUME ListPids, UNCHANGED budget PROVE Told'
    <2>1. /\ pc = "idle" /\ pc' = "listed" /\ DOMAIN incoming' = {} /\ listed_forks' = forks
          /\ UNCHANGED <<alive, forks, processes, published_forks, budget>>
      BY <1>3, EmptySeq DEF ListPids, kernel, sample
    <2>2. faults' = faults \/ (faults > 0 /\ faults' = faults - 1)
      BY <1>3 DEF ListPids
    <2>3. faults' = budget.faults => faults = budget.faults
      BY <2>2, Faults DEF Inv
    <2>4. published_forks <= forks
      BY <1>0
    <2> QED
      BY <1>0, <2>1, <2>3, <2>4 DEF Told, PidsOf
  <1>4. ASSUME Stamp \/ Skip \/ GiveUp \/ EndSweep, UNCHANGED budget PROVE Told'
    <2>1. /\ pc # "idle" /\ pc' # "idle"
          /\ UNCHANGED <<alive, forks, processes, incoming, published_forks, listed_forks, budget>>
          /\ faults' = faults \/ (faults > 0 /\ faults' = faults - 1)
      BY <1>4 DEF Stamp, Skip, GiveUp, EndSweep, Reading, kernel, sample, buffer, listing
    <2>2. faults' = budget.faults => faults = budget.faults
      BY <2>1, Faults DEF Inv
    <2> QED
      BY <2>1, <2>2 DEF Told, PidsOf
  <1>5. UNCHANGED vars => UNCHANGED budget
    BY DEF vars
  <1> QED
    BY <1>1, <1>2, <1>3, <1>4, <1>5, ToldRead, ToldPublish DEF Next, Collect

\* An event of a publication concerns one of the samples only.
LEMMA ReportsAreOfOne ==
    ASSUME Types, NEW p
    PROVE  /\ Reports(Terminated(p)) => p \in PidsOf(processes) \ PidsOf(incoming)
           /\ Reports(Created(p)) => p \in PidsOf(incoming) \ PidsOf(processes)
  <1>1. ASSUME NEW i \in DOMAIN Changes, Changes[i] = Terminated(p)
        PROVE  p \in PidsOf(processes) \ PidsOf(incoming)
    <2>1. Changes[i].type = "terminated" /\ Changes[i].pid = p
      BY <1>1 DEF Terminated
    <2> QED
      BY <2>1, Recorded
  <1>2. ASSUME NEW i \in DOMAIN Changes, Changes[i] = Created(p)
        PROVE  p \in PidsOf(incoming) \ PidsOf(processes)
    <2>1. Changes[i].type = "created" /\ Changes[i].pid = p
      BY <1>2 DEF Created
    <2> QED
      BY <2>1, Recorded
  <1> QED
    BY <1>1, <1>2 DEF Reports

(* As long as nothing has failed, who is reported as terminated has gone,  *)
(* and who is reported as created was born since the listing for the       *)
(* sample before, however PIDs were used again during the two sweeps.      *)
THEOREM LogIsTrue == Spec => EventsAreReal
<1>1. Inv /\ Told /\ [Next]_vars
        => [Publishes /\ faults = budget.faults => ExitsAreReal /\ BirthsAreReal]_vars
  <2> SUFFICES ASSUME Inv, Told, pc = "publish", faults = budget.faults
               PROVE  ExitsAreReal /\ BirthsAreReal
    BY DEF Publishes
  <2>1. /\ Types /\ processes \in Seq(Entry) /\ incoming \in Seq(Entry)
        /\ alive \in [Pid -> Nat] /\ listed \in [Pid -> Nat] /\ listed_forks \in Nat
        /\ published_forks \in Nat
    BY DEF Inv, Types, Told
  <2>2. ASSUME NEW i \in DOMAIN processes, Reports(Terminated(processes[i].pid)),
               alive[processes[i].pid] = processes[i].who
        PROVE  FALSE
    <3> DEFINE p == processes[i].pid
    <3>1. p \in Pid /\ p \notin PidsOf(incoming)
      BY <2>1, <2>2, Who, ReportsAreOfOne
    <3>2. alive[p] # 0 /\ alive[p] <= listed_forks
      BY <2>2 DEF Told
    <3> HIDE DEF p
    <3>3. alive[p] = listed[p]
      BY <2>1, <3>1, <3>2 DEF Inv, Births
    <3> QED
      BY <3>1, <3>2, <3>3 DEF Inv, Accounted
  <2>3. ExitsAreReal
    BY <2>2 DEF ExitsAreReal
  <2>4. ASSUME NEW i \in DOMAIN incoming, Reports(Created(incoming[i].pid))
        PROVE  incoming[i].who > published_forks
    <3>1. incoming[i].pid \notin PidsOf(processes)
      BY <2>1, <2>4, ReportsAreOfOne
    <3>2. ~(incoming[i].who <= published_forks)
      BY <3>1 DEF Told
    <3> QED
      BY <2>1, <3>2, Who
  <2>5. BirthsAreReal
    BY <2>4 DEF BirthsAreReal
  <2> QED
    BY <2>3, <2>5
<1>2. QED
  BY <1>1, ToldAtFirst, ToldStep, Invariance, PTL DEF Spec, EventsAreReal
=============================================================================
