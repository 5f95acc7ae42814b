---------------------------- MODULE SystemMonitor ----------------------------
(***************************************************************************)
(* The figures of the header: km_system_monitor_update() of                *)
(* system/system_monitor.c against the counters of /proc/stat, which grow  *)
(* by any amounts between two reads while the kernel now and then corrects *)
(* iowait downwards, against the fields of /proc/meminfo, whether or not   *)
(* they add up, and against reads that fail.                               *)
(*                                                                         *)
(* The five counters of time in use (user, nice, system, irq, softirq) are *)
(* one here; idle and iowait together are the idle time.  A percentage is  *)
(* kept as the fraction num / den, with 0 / 1 for the plain 0.0.  Memory   *)
(* stays in the kB of the kernel: its bytes are far from the word's limit. *)
(***************************************************************************)
EXTENDS Integers

CONSTANTS UllLimit,      \* an unsigned long long is less than 2 ^ 64
          MaxTotal,      \* bound: the largest sum of the counters
          MaxMemory,     \* bound: the largest figure of /proc/meminfo
          Layouts        \* the sets of fields that /proc/meminfo can report

Fields == {"MemTotal", "MemFree", "Buffers", "Cached", "SwapTotal", "SwapFree"}

ASSUME WordAssumption ==
    /\ UllLimit \in Nat /\ MaxTotal \in Nat /\ MaxTotal < UllLimit
    /\ MaxMemory \in Nat /\ 3 * MaxMemory < UllLimit
    /\ Layouts \subseteq SUBSET Fields

VARIABLES
    busy, idle, iowait,              \* the counters of the kernel
    prev_total_cpu, prev_idle_cpu, cpu_usage_percent,
    mem_total, mem_free, mem_used, mem_usage_percent,
    swap_total, swap_free, swap_used, swap_usage_percent,
    call,                            \* the file that is read next
    \* ghosts: whether a read has ever succeeded, what the counters were at
    \* the last one that did and at the one before, if there were such reads;
    \* whether the parts that /proc/meminfo last reported fitted their totals
    read, last, before, adds_up

kernel == <<busy, idle, iowait>>
cpu    == <<prev_total_cpu, prev_idle_cpu, cpu_usage_percent, read, last, before>>
memory == <<mem_total, mem_free, mem_used, mem_usage_percent>>
swap   == <<swap_total, swap_free, swap_used, swap_usage_percent, adds_up>>
systemVars == <<kernel, cpu, memory, swap, call>>

Minus(a, b) == (a - b) % UllLimit
Total       == busy + idle + iowait
TotalIdle   == idle + iowait
None        == [total |-> 0, idle |-> 0]
Zero        == [num |-> 0, den |-> 1]

\* Before km_system_monitor_init() seeds the counters; a machine that runs
\* has spent some time.
SystemInit ==
    /\ busy \in 1 .. MaxTotal /\ idle = 0 /\ iowait = 0
    /\ prev_total_cpu = 0 /\ prev_idle_cpu = 0 /\ cpu_usage_percent = Zero
    /\ mem_total = 0 /\ mem_free = 0 /\ mem_used = 0 /\ mem_usage_percent = Zero
    /\ swap_total = 0 /\ swap_free = 0 /\ swap_used = 0 /\ swap_usage_percent = Zero
    /\ call = "seed"
    /\ read = 0 /\ last = None /\ before = None /\ adds_up = [memory |-> TRUE, swap |-> TRUE]

\* The counters between two reads.  Iowait can fall (proc(5)), the others climb.
Run ==
    /\ busy' \in busy .. MaxTotal /\ idle' \in idle .. MaxTotal
    /\ iowait' \in 0 .. MaxTotal
    /\ busy' + idle' + iowait' <= MaxTotal
    /\ UNCHANGED <<cpu, memory, swap, call>>

\* The share of the growth that was not idle, if there is a previous sample.
Usage ==
    LET total_diff == Minus(Total, prev_total_cpu)
        idle_diff  == Minus(TotalIdle, prev_idle_cpu)
    IN  IF prev_total_cpu > 0 /\ total_diff > 0
        THEN [num |-> Minus(total_diff, idle_diff), den |-> total_diff]
        ELSE Zero

\* km_system_monitor_init() reads the counters, km_system_monitor_update()
\* these and then memory, whether or not the one before it has failed.
Proceed == call' = IF call = "cpu" THEN "memory" ELSE "cpu"

\* Faulty: the idle time of the first sample is kept.
UpdateCpu_KeepsIdle ==
    /\ call \in {"seed", "cpu"} /\ Proceed
    /\ cpu_usage_percent' = Usage
    /\ prev_total_cpu' = Total
    /\ prev_idle_cpu' = IF read = 0 THEN TotalIdle ELSE prev_idle_cpu
    /\ read' = IF read < 2 THEN read + 1 ELSE read
    /\ last' = [total |-> Total, idle |-> TotalIdle] /\ before' = last
    /\ UNCHANGED <<kernel, memory, swap>>

\* km_system_monitor_update_cpu_stats()
UpdateCpu ==
    /\ call \in {"seed", "cpu"} /\ Proceed
    /\ cpu_usage_percent' = Usage
    /\ prev_total_cpu' = Total /\ prev_idle_cpu' = TotalIdle
    /\ read' = IF read < 2 THEN read + 1 ELSE read
    /\ last' = [total |-> Total, idle |-> TotalIdle] /\ before' = last
    /\ UNCHANGED <<kernel, memory, swap>>

\* /proc/stat or /proc/meminfo cannot be read: the last figures stay.
UpdateFails == Proceed /\ UNCHANGED <<kernel, cpu, memory, swap>>

\* What /proc/meminfo can say, and km_parse_meminfo(): a field it does not
\* report counts as 0.
Field(text, key) == IF key \in DOMAIN text THEN text[key] ELSE 0

AddsUp(text) ==
    [memory |-> Field(text, "MemFree") + Field(text, "Buffers") + Field(text, "Cached")
                   <= Field(text, "MemTotal"),
     swap   |-> Field(text, "SwapFree") <= Field(text, "SwapTotal")]

Meminfos == UNION {[fields -> 0 .. MaxMemory] : fields \in Layouts}

\* Buffers and the page cache do not count as used.
Used(text) ==
    Minus(Minus(Minus(Field(text, "MemTotal"), Field(text, "MemFree")),
                Field(text, "Buffers")), Field(text, "Cached"))

\* Faulty: without swap the share stays as well.
SwapShare_Stays(total, used) ==
    IF total > 0 THEN [num |-> used, den |-> total] ELSE swap_usage_percent

\* The share of the memory stays without a total, that of the swap is 0.
MemShare(total, used)  == IF total > 0 THEN [num |-> used, den |-> total] ELSE mem_usage_percent
SwapShare(total, used) == IF total > 0 THEN [num |-> used, den |-> total] ELSE Zero

\* km_system_monitor_update_memory_stats()
UpdateMemory ==
    /\ call = "memory" /\ Proceed
    /\ \E text \in Meminfos :
          /\ mem_total' = Field(text, "MemTotal") /\ mem_free' = Field(text, "MemFree")
          /\ mem_used' = Used(text)
          /\ swap_total' = Field(text, "SwapTotal") /\ swap_free' = Field(text, "SwapFree")
          /\ swap_used' = Minus(swap_total', swap_free')
          /\ adds_up' = AddsUp(text)
    /\ mem_usage_percent' = MemShare(mem_total', mem_used')
    /\ swap_usage_percent' = SwapShare(swap_total', swap_used')
    /\ UNCHANGED <<kernel, cpu>>

SystemNext == Run \/ UpdateCpu \/ UpdateMemory \/ UpdateFails

SystemSpec == SystemInit /\ [][SystemNext]_systemVars

----------------------------------------------------------------------------
(* Properties.                                                             *)

\* What the counters have grown by between the last two reads that succeeded,
\* whatever failed in between.
Grown == last.total - before.total
Idled == last.idle - before.idle

(* "Usage is the share of the growth that was not idle time": between the  *)
(* last two reads that succeeded, unless all time together has fallen, and *)
(* 0 when there have not been two.  A share of memory or swap belongs to   *)
(* the total beside it: none is left over from before swap was taken away. *)
UsageIsShare ==
    /\ read = 2 /\ Grown > 0
         => cpu_usage_percent.num * Grown = cpu_usage_percent.den * (Grown - Idled)
    /\ read < 2 \/ Grown = 0 => cpu_usage_percent = Zero
    /\ mem_total > 0 \/ adds_up.memory
         => mem_usage_percent.num * mem_total = mem_usage_percent.den * mem_used
    /\ swap_total > 0 \/ adds_up.swap
         => swap_usage_percent.num * swap_total = swap_usage_percent.den * swap_used
    /\ swap_total = 0 => swap_usage_percent.num = 0

Within(share) == share.num <= share.den

(* When the header is wrong, exactly.  The CPU usage exceeds 100% if and   *)
(* only if the idle time fell between the last two reads that succeeded    *)
(* while all time grew; an amount in use is the remnant of a difference    *)
(* that wrapped, and its share exceeds 100%, if and only if the last       *)
(* reading of /proc/meminfo did not add up.  So nothing else wraps, reads  *)
(* that fail included, and the next sound reading puts everything right.   *)
UsageInRange ==
    /\ Within(cpu_usage_percent) <=> ~(read = 2 /\ Idled < 0 /\ Grown > 0)
    /\ mem_used + mem_free <= mem_total <=> adds_up.memory
    /\ mem_total > 0 => (Within(mem_usage_percent) <=> adds_up.memory)
    /\ swap_used + swap_free = swap_total <=> adds_up.swap
    /\ swap_total > 0 => (Within(swap_usage_percent) <=> adds_up.swap)

(* "These counters only ever climb, so usage is the share of the growth    *)
(* that was not idle time" (system_monitor.c): a share, so at most 100%.   *)
UsageAtMost100 == Within(cpu_usage_percent)
=============================================================================
