------------------------ MODULE SystemMonitorProofs ------------------------
(***************************************************************************)
(* What the header shows, for words of any size: the shares are those of   *)
(* the last two reads, and they are wrong exactly when iowait made the     *)
(* idle time fall or the figures of memory did not add up.  No other       *)
(* difference of two unsigned words comes out wrong.                       *)
(***************************************************************************)
EXTENDS SystemMonitor, TLAPS

\* The samples are those of a reading at which the time in use, which only
\* climbs, was not more than it is now.
Behind ==
    /\ prev_total_cpu <= MaxTotal /\ prev_idle_cpu <= prev_total_cpu
    /\ prev_total_cpu - prev_idle_cpu <= busy

Numbers ==
    /\ busy \in Nat \ {0} /\ idle \in Nat /\ iowait \in Nat /\ Total <= MaxTotal
    /\ prev_total_cpu \in Nat /\ prev_idle_cpu \in Nat
    /\ cpu_usage_percent \in [num : Nat, den : Nat]

\* What the code keeps of the last read is what the read saw.
Remembered ==
    /\ read \in 0 .. 2
    /\ last \in [total : Nat, idle : Nat] /\ before \in [total : Nat, idle : Nat]
    /\ prev_total_cpu = last.total /\ prev_idle_cpu = last.idle
    /\ read = 0 => prev_total_cpu = 0
    /\ read > 0 => prev_total_cpu > 0

\* The shares of memory and swap are fractions.
Shares ==
    /\ mem_usage_percent \in [num : Nat, den : Nat]
    /\ swap_usage_percent \in [num : Nat, den : Nat]

\* What the two properties say of the CPU and of memory.
CpuRight ==
    /\ read = 2 /\ Grown > 0
         => cpu_usage_percent.num * Grown = cpu_usage_percent.den * (Grown - Idled)
    /\ read < 2 \/ Grown = 0 => cpu_usage_percent = Zero
    /\ Within(cpu_usage_percent) <=> ~(read = 2 /\ Idled < 0 /\ Grown > 0)

MemoryRight ==
    /\ mem_total > 0 \/ adds_up.memory
         => mem_usage_percent.num * mem_total = mem_usage_percent.den * mem_used
    /\ mem_used + mem_free <= mem_total <=> adds_up.memory
    /\ mem_total > 0 => (Within(mem_usage_percent) <=> adds_up.memory)

SwapRight ==
    /\ swap_total > 0 \/ adds_up.swap
         => swap_usage_percent.num * swap_total = swap_usage_percent.den * swap_used
    /\ swap_total = 0 => swap_usage_percent.num = 0
    /\ swap_used + swap_free = swap_total <=> adds_up.swap
    /\ swap_total > 0 => (Within(swap_usage_percent) <=> adds_up.swap)

IInv == Numbers /\ Behind /\ Remembered /\ Shares /\ CpuRight /\ MemoryRight /\ SwapRight

----------------------------------------------------------------------------
(* Differences of words.                                                   *)

(* The difference of two words is off by the word size if it is negative.  *)
LEMMA Difference ==
    ASSUME NEW a \in Nat, NEW b \in Nat, a < UllLimit, b < UllLimit
    PROVE  /\ Minus(a, b) = IF b <= a THEN a - b ELSE a - b + UllLimit
           /\ Minus(a, b) \in Nat /\ Minus(a, b) < UllLimit
  <1>1. UllLimit \in Nat \ {0}
    BY WordAssumption
  <1>2. CASE b <= a
    <2>1. a - b \in 0 .. UllLimit - 1
      BY <1>1, <1>2
    <2> QED
      BY <1>1, <1>2, <2>1 DEF Minus
  <1>3. CASE a < b
    <2>1. a - b + UllLimit \in 0 .. UllLimit - 1
      BY <1>1, <1>3
    <2>2. (a - b) % UllLimit = a - b + UllLimit
      BY <1>1, <1>3, <2>1
    <2> QED
      BY <1>1, <1>3, <2>1, <2>2 DEF Minus
  <1> QED
    BY <1>2, <1>3

(* The difference of two differences: what the idle time has to do with    *)
(* all time does not matter for the time in use, b now and p - q before.   *)
LEMMA InUse ==
    ASSUME NEW t \in Nat, NEW j \in Nat, NEW p \in Nat, NEW q \in Nat,
           t < UllLimit, p < UllLimit, j <= t, q <= p, p - q <= t - j
    PROVE  /\ Minus(Minus(t, p), Minus(j, q)) = (t - j) - (p - q)
           /\ Minus(t, p) = IF p <= t THEN t - p ELSE t - p + UllLimit
           /\ Minus(t, p) \in Nat
  <1>1. UllLimit \in Nat /\ j < UllLimit /\ q < UllLimit
    BY WordAssumption
  <1>2. /\ Minus(t, p) = IF p <= t THEN t - p ELSE t - p + UllLimit
        /\ Minus(t, p) \in Nat /\ Minus(t, p) < UllLimit
    BY Difference
  <1>3. /\ Minus(j, q) = IF q <= j THEN j - q ELSE j - q + UllLimit
        /\ Minus(j, q) \in Nat /\ Minus(j, q) < UllLimit
    BY <1>1, Difference
  <1> DEFINE all == Minus(t, p)
             idled == Minus(j, q)
  <1>4. Minus(all, idled) = IF idled <= all THEN all - idled ELSE all - idled + UllLimit
    BY <1>2, <1>3, Difference
  <1> HIDE DEF all, idled
  <1>5. all = (IF p <= t THEN t - p ELSE t - p + UllLimit) /\ all \in Nat
    BY <1>2 DEF all
  <1>6. idled = (IF q <= j THEN j - q ELSE j - q + UllLimit) /\ idled \in Nat
    BY <1>3 DEF idled
  <1>7. Minus(all, idled) = (t - j) - (p - q)
    BY <1>1, <1>4, <1>5, <1>6
  <1> QED
    BY <1>2, <1>7 DEF all, idled

(* Three parts that are taken away one after the other.                    *)
LEMMA Remainder ==
    ASSUME NEW total \in Nat, NEW free \in Nat, NEW buffers \in Nat, NEW cached \in Nat,
           total <= MaxMemory, free <= MaxMemory, buffers <= MaxMemory, cached <= MaxMemory
    PROVE  LET used == Minus(Minus(Minus(total, free), buffers), cached)
               s    == free + buffers + cached
           IN  used \in Nat /\ used = IF s <= total THEN total - s ELSE total - s + UllLimit
  <1> DEFINE used == Minus(Minus(Minus(total, free), buffers), cached)
  <1>1. /\ UllLimit \in Nat /\ MaxMemory \in Nat /\ 3 * MaxMemory < UllLimit
        /\ total < UllLimit /\ free < UllLimit /\ buffers < UllLimit /\ cached < UllLimit
    BY WordAssumption
  <1> DEFINE x == Minus(total, free)
             y == Minus(x, buffers)
  <1>2. /\ x = IF free <= total THEN total - free ELSE total - free + UllLimit
        /\ x \in Nat /\ x < UllLimit
    BY <1>1, Difference
  <1> HIDE DEF x
  <1>3. /\ y = IF buffers <= x THEN x - buffers ELSE x - buffers + UllLimit
        /\ y \in Nat /\ y < UllLimit
    BY <1>1, <1>2, Difference
  <1> HIDE DEF y
  <1>4. /\ used = IF cached <= y THEN y - cached ELSE y - cached + UllLimit
        /\ used \in Nat /\ used < UllLimit
    BY <1>1, <1>3, Difference DEF x, y
  <1> HIDE DEF used
  <1>5. used \in Nat /\ used = IF free + buffers + cached <= total
                               THEN total - (free + buffers + cached)
                               ELSE total - (free + buffers + cached) + UllLimit
    BY <1>1, <1>2, <1>3, <1>4
  <1> QED
    BY <1>5 DEF used

----------------------------------------------------------------------------
(* The CPU.                                                                *)

(* The usage that is computed, with its numerator the growth of the time   *)
(* in use, also when the idle time has fallen.                             *)
LEMMA Computed ==
    ASSUME Numbers, Behind
    PROVE  LET grown  == Total - prev_total_cpu
               rested == TotalIdle - prev_idle_cpu
           IN  /\ Usage \in [num : Nat, den : Nat]
               /\ prev_total_cpu > 0 /\ grown > 0
                    => Usage = [num |-> grown - rested, den |-> grown]
               /\ prev_total_cpu = 0 \/ grown = 0 => Usage = Zero
               /\ Within(Usage) <=> ~(prev_total_cpu > 0 /\ rested < 0 /\ grown > 0)
  <1> DEFINE grown  == Total - prev_total_cpu
             rested == TotalIdle - prev_idle_cpu
             diff   == Minus(Total, prev_total_cpu)
  <1>1. /\ Total \in Nat /\ TotalIdle \in Nat /\ TotalIdle <= Total /\ Total - TotalIdle = busy
        /\ Total <= MaxTotal /\ MaxTotal < UllLimit /\ UllLimit \in Nat /\ MaxTotal \in Nat
        /\ prev_total_cpu \in Nat /\ prev_idle_cpu \in Nat
        /\ prev_total_cpu <= MaxTotal /\ prev_idle_cpu <= prev_total_cpu
        /\ prev_total_cpu - prev_idle_cpu <= busy
    BY WordAssumption DEF Numbers, Behind, Total, TotalIdle
  <1>2. /\ Minus(diff, Minus(TotalIdle, prev_idle_cpu)) = grown - rested
        /\ diff = IF prev_total_cpu <= Total THEN grown ELSE grown + UllLimit
        /\ diff \in Nat
    BY <1>1, InUse
  <1>3. Usage = IF prev_total_cpu > 0 /\ diff > 0
                THEN [num |-> grown - rested, den |-> diff] ELSE Zero
    BY <1>2 DEF Usage
  <1>4. /\ grown \in Int /\ rested \in Int /\ grown - rested \in Nat
        /\ grown < 0 => diff = grown + UllLimit /\ diff > 0 /\ grown - rested <= diff
        /\ grown >= 0 => diff = grown
    BY <1>1, <1>2
  <1> HIDE DEF grown, rested, diff
  <1>5. Usage \in [num : Nat, den : Nat]
    BY <1>2, <1>3, <1>4 DEF Zero
  <1>6. prev_total_cpu > 0 /\ grown > 0 => Usage = [num |-> grown - rested, den |-> grown]
    BY <1>1, <1>3, <1>4
  <1>7. prev_total_cpu = 0 \/ grown = 0 => Usage = Zero
    BY <1>1, <1>3, <1>4
  <1>8. Within(Usage) <=> ~(prev_total_cpu > 0 /\ rested < 0 /\ grown > 0)
    <2>1. CASE prev_total_cpu > 0 /\ diff > 0
      <3>1. Within(Usage) <=> grown - rested <= diff
        BY <1>3, <2>1 DEF Within
      <3> QED
        BY <1>1, <1>2, <1>4, <2>1, <3>1
    <2>2. CASE ~(prev_total_cpu > 0 /\ diff > 0)
      <3>1. Within(Usage)
        BY <1>3, <2>2 DEF Within, Zero
      <3> QED
        BY <1>1, <1>2, <1>4, <2>2, <3>1
    <2> QED
      BY <2>1, <2>2
  <1> QED
    BY <1>5, <1>6, <1>7, <1>8 DEF grown, rested

(* A read of the counters.                                                 *)
LEMMA Cpu ==
    ASSUME Numbers, Behind, Remembered, UpdateCpu
    PROVE  Numbers' /\ Behind' /\ Remembered' /\ CpuRight'
  <1>1. /\ cpu_usage_percent' = Usage /\ UNCHANGED <<busy, idle, iowait>>
        /\ prev_total_cpu' = Total /\ prev_idle_cpu' = TotalIdle
        /\ read' = IF read < 2 THEN read + 1 ELSE read
        /\ last' = [total |-> Total, idle |-> TotalIdle] /\ before' = last
    BY DEF UpdateCpu, kernel
  <1>2. /\ Total \in Nat \ {0} /\ TotalIdle \in Nat /\ TotalIdle <= Total
        /\ Total - TotalIdle = busy /\ Total <= MaxTotal /\ MaxTotal \in Nat
    BY WordAssumption DEF Numbers, Total, TotalIdle
  <1> DEFINE grown  == Total - prev_total_cpu
             rested == TotalIdle - prev_idle_cpu
  <1>3. /\ Usage \in [num : Nat, den : Nat]
        /\ prev_total_cpu > 0 /\ grown > 0 => Usage = [num |-> grown - rested, den |-> grown]
        /\ prev_total_cpu = 0 \/ grown = 0 => Usage = Zero
        /\ Within(Usage) <=> ~(prev_total_cpu > 0 /\ rested < 0 /\ grown > 0)
    BY Computed
  <1>4. Numbers'
    BY <1>1, <1>2, <1>3 DEF Numbers, Total
  <1>5. Behind'
    BY <1>1, <1>2 DEF Behind
  <1>6. Remembered'
    BY <1>1, <1>2 DEF Remembered
  <1>7. Grown' = grown /\ Idled' = rested
    BY <1>1 DEF Grown, Idled, Remembered
  <1>8. /\ read' = 2 <=> prev_total_cpu > 0
        /\ read' < 2 <=> prev_total_cpu = 0
        /\ prev_total_cpu \in Nat /\ grown \in Int /\ rested \in Int
    BY <1>1, <1>2 DEF Remembered, Numbers
  <1> HIDE DEF grown, rested
  <1>9. read' = 2 /\ grown > 0
          => cpu_usage_percent'.num * grown = cpu_usage_percent'.den * (grown - rested)
    <2> SUFFICES ASSUME read' = 2, grown > 0
                 PROVE  cpu_usage_percent'.num * grown = cpu_usage_percent'.den * (grown - rested)
      OBVIOUS
    <2>1. cpu_usage_percent'.num = grown - rested /\ cpu_usage_percent'.den = grown
      BY <1>1, <1>3, <1>8
    <2> QED
      BY <1>8, <2>1
  <1>10. read' < 2 \/ grown = 0 => cpu_usage_percent' = Zero
    BY <1>1, <1>3, <1>8
  <1>11. Within(cpu_usage_percent)' <=> ~(read' = 2 /\ rested < 0 /\ grown > 0)
    BY <1>1, <1>3, <1>8 DEF Within
  <1>12. CpuRight'
    BY <1>7, <1>9, <1>10, <1>11 DEF CpuRight
  <1> QED
    BY <1>4, <1>5, <1>6, <1>12

----------------------------------------------------------------------------
(* Memory and swap.                                                        *)

(* A figure of /proc/meminfo, reported or not.                             *)
LEMMA Figure ==
    ASSUME NEW text \in Meminfos, NEW key
    PROVE  Field(text, key) \in Nat /\ Field(text, key) <= MaxMemory
  <1>1. PICK fields \in Layouts : text \in [fields -> 0 .. MaxMemory]
    BY DEF Meminfos
  <1>2. CASE key \in DOMAIN text
    BY <1>1, <1>2, WordAssumption DEF Field
  <1>3. CASE key \notin DOMAIN text
    BY <1>3, WordAssumption DEF Field
  <1> QED
    BY <1>2, <1>3

(* The share of an amount in use, whether the parts fit the total or not.  *)
LEMMA MemoryShare ==
    ASSUME NEW total \in Nat, NEW used \in Nat, NEW s \in Nat,
           s < UllLimit, UllLimit \in Nat,
           used = IF s <= total THEN total - s ELSE total - s + UllLimit,
           mem_usage_percent \in [num : Nat, den : Nat]
    PROVE  LET share == MemShare(total, used)
           IN  /\ share \in [num : Nat, den : Nat]
               /\ total > 0 \/ s <= total => share.num * total = share.den * used
               /\ total > 0 => (Within(share) <=> s <= total)
  <1>1. CASE total > 0
    <2>1. MemShare(total, used) = [num |-> used, den |-> total]
      BY <1>1 DEF MemShare
    <2>2. used <= total <=> s <= total
      OBVIOUS
    <2> QED
      BY <2>1, <2>2 DEF Within
  <1>2. CASE total = 0
    <2>1. MemShare(total, used) = mem_usage_percent
      BY <1>2 DEF MemShare
    <2>2. s <= total => used = 0
      BY <1>2
    <2> QED
      BY <1>2, <2>1, <2>2
  <1> QED
    BY <1>1, <1>2

LEMMA SwapsShare ==
    ASSUME NEW total \in Nat, NEW used \in Nat, NEW s \in Nat,
           s < UllLimit, UllLimit \in Nat,
           used = IF s <= total THEN total - s ELSE total - s + UllLimit
    PROVE  LET share == SwapShare(total, used)
           IN  /\ share \in [num : Nat, den : Nat]
               /\ total > 0 \/ s <= total => share.num * total = share.den * used
               /\ total = 0 => share.num = 0
               /\ total > 0 => (Within(share) <=> s <= total)
  <1>1. CASE total > 0
    <2>1. SwapShare(total, used) = [num |-> used, den |-> total]
      BY <1>1 DEF SwapShare
    <2>2. used <= total <=> s <= total
      OBVIOUS
    <2> QED
      BY <1>1, <2>1, <2>2 DEF Within
  <1>2. CASE total = 0
    <2>1. SwapShare(total, used) = [num |-> 0, den |-> 1]
      BY <1>2 DEF SwapShare, Zero
    <2>2. s <= total => used = 0
      BY <1>2
    <2> QED
      BY <1>2, <2>1, <2>2
  <1> QED
    BY <1>1, <1>2

(* A read of memory.                                                       *)
LEMMA Memory ==
    ASSUME Shares, UpdateMemory
    PROVE  Shares' /\ MemoryRight' /\ SwapRight'
  <1>1. PICK text \in Meminfos :
          /\ mem_total' = Field(text, "MemTotal") /\ mem_free' = Field(text, "MemFree")
          /\ mem_used' = Used(text)
          /\ swap_total' = Field(text, "SwapTotal") /\ swap_free' = Field(text, "SwapFree")
          /\ swap_used' = Minus(swap_total', swap_free')
          /\ adds_up' = AddsUp(text)
    BY DEF UpdateMemory
  <1> DEFINE total   == Field(text, "MemTotal")
             free    == Field(text, "MemFree")
             buffers == Field(text, "Buffers")
             cached  == Field(text, "Cached")
             all     == Field(text, "SwapTotal")
             left    == Field(text, "SwapFree")
             s       == free + buffers + cached
  <1>2. /\ total \in Nat /\ free \in Nat /\ buffers \in Nat /\ cached \in Nat
        /\ total <= MaxMemory /\ free <= MaxMemory /\ buffers <= MaxMemory /\ cached <= MaxMemory
        /\ all \in Nat /\ left \in Nat /\ all <= MaxMemory /\ left <= MaxMemory
    BY Figure
  <1>3. adds_up'.memory <=> s <= total
    BY <1>1, Zenon DEF AddsUp
  <1>4. adds_up'.swap <=> left <= all
    BY <1>1, Zenon DEF AddsUp
  <1>5. mem_used' = Minus(Minus(Minus(total, free), buffers), cached)
    BY <1>1 DEF Used
  <1>6. mem_total' = total /\ mem_free' = free /\ swap_total' = all /\ swap_free' = left
    BY <1>1
  <1>7. swap_used' = Minus(all, left)
    BY <1>1, <1>6
  <1>8. UllLimit \in Nat /\ MaxMemory \in Nat /\ 3 * MaxMemory < UllLimit
    BY WordAssumption
  <1>9. /\ mem_usage_percent' = MemShare(mem_total', mem_used')
        /\ swap_usage_percent' = SwapShare(swap_total', swap_used')
    BY DEF UpdateMemory
  <1> HIDE DEF total, free, buffers, cached, all, left
  <1>10. MemoryRight' /\ mem_usage_percent' \in [num : Nat, den : Nat]
    <2>1. mem_used' \in Nat /\ mem_used' = IF s <= total THEN total - s ELSE total - s + UllLimit
      <3> DEFINE used == Minus(Minus(Minus(total, free), buffers), cached)
      <3>1. used \in Nat /\ used = IF s <= total THEN total - s ELSE total - s + UllLimit
        BY <1>2, Remainder
      <3> QED
        BY <1>5, <3>1
    <2>2. s \in Nat /\ s < UllLimit /\ free <= s /\ s - free <= 2 * MaxMemory
      BY <1>2, <1>8
    <2> HIDE DEF s
    <2>3. LET share == MemShare(total, mem_used')
          IN  /\ share \in [num : Nat, den : Nat]
              /\ total > 0 \/ s <= total => share.num * total = share.den * mem_used'
              /\ total > 0 => (Within(share) <=> s <= total)
      BY <1>2, <1>8, <2>1, <2>2, MemoryShare DEF Shares
    <2>4. mem_used' + free <= total <=> s <= total
      BY <1>2, <1>8, <2>1, <2>2
    <2>5. mem_usage_percent' = MemShare(total, mem_used')
      BY <1>6, <1>9
    <2>6. /\ total > 0 \/ adds_up'.memory
               => mem_usage_percent'.num * total = mem_usage_percent'.den * mem_used'
          /\ mem_used' + free <= total <=> adds_up'.memory
          /\ total > 0 => (Within(mem_usage_percent') <=> adds_up'.memory)
      BY <1>3, <2>3, <2>4, <2>5, Zenon
    <2> QED
      BY <1>6, <2>3, <2>5, <2>6, Zenon DEF MemoryRight, Within
  <1>11. SwapRight' /\ swap_usage_percent' \in [num : Nat, den : Nat]
    <2>1. left < UllLimit /\ all < UllLimit
      BY <1>2, <1>8
    <2>2. swap_used' \in Nat /\ swap_used' = IF left <= all THEN all - left ELSE all - left + UllLimit
      BY <1>2, <1>7, <2>1, Difference
    <2>3. LET share == SwapShare(all, swap_used')
          IN  /\ share \in [num : Nat, den : Nat]
              /\ all > 0 \/ left <= all => share.num * all = share.den * swap_used'
              /\ all = 0 => share.num = 0
              /\ all > 0 => (Within(share) <=> left <= all)
      BY <1>2, <1>8, <2>1, <2>2, SwapsShare
    <2>4. swap_used' + left = all <=> left <= all
      BY <1>2, <1>8, <2>1, <2>2
    <2>5. swap_usage_percent' = SwapShare(all, swap_used')
      BY <1>6, <1>9
    <2>6. /\ all > 0 \/ adds_up'.swap
               => swap_usage_percent'.num * all = swap_usage_percent'.den * swap_used'
          /\ all = 0 => swap_usage_percent'.num = 0
          /\ swap_used' + left = all <=> adds_up'.swap
          /\ all > 0 => (Within(swap_usage_percent') <=> adds_up'.swap)
      BY <1>4, <2>3, <2>4, <2>5, Zenon
    <2> QED
      BY <1>6, <2>3, <2>5, <2>6, Zenon DEF SwapRight, Within
  <1> QED
    BY <1>10, <1>11 DEF Shares

----------------------------------------------------------------------------
(* The theorems.                                                           *)

(* Before anything is read.                                                *)
LEMMA Initial == SystemInit => IInv
  <1> SUFFICES ASSUME SystemInit PROVE IInv
    OBVIOUS
  <1>1. adds_up.memory = TRUE /\ adds_up.swap = TRUE
    BY Zenon DEF SystemInit
  <1>2. Numbers /\ Behind /\ Remembered /\ Shares /\ CpuRight
    BY WordAssumption DEF SystemInit, Numbers, Behind, Remembered, Shares, CpuRight, Within,
       Total, Zero, None, Grown, Idled
  <1>3. MemoryRight /\ SwapRight
    BY <1>1 DEF SystemInit, MemoryRight, SwapRight, Zero, Within
  <1> QED
    BY <1>2, <1>3 DEF IInv

(* Neither the kernel nor a read, failed or not, breaks the invariant.     *)
LEMMA Step == IInv /\ [SystemNext]_systemVars => IInv'
  <1> SUFFICES ASSUME IInv, [SystemNext]_systemVars PROVE IInv'
    OBVIOUS
  <1> USE DEF IInv
  <1>1. CASE Run
    <2>1. UNCHANGED <<cpu, memory, swap>>
      BY <1>1 DEF Run
    <2>2. Total' <= MaxTotal
      BY <1>1 DEF Run, Total
    <2>3. busy' \in Nat \ {0} /\ busy <= busy' /\ idle' \in Nat /\ iowait' \in Nat
      BY <1>1, WordAssumption DEF Run, Numbers
    <2>4. Numbers' /\ Behind'
      BY <2>1, <2>2, <2>3, WordAssumption DEF Numbers, Behind, cpu
    <2> QED
      BY <2>1, <2>4 DEF cpu, memory, swap, Remembered, Shares, CpuRight, MemoryRight, SwapRight,
         Within, Grown, Idled
  <1>2. CASE UpdateCpu
    <2>1. UNCHANGED <<memory, swap>>
      BY <1>2 DEF UpdateCpu
    <2>2. Shares' /\ MemoryRight' /\ SwapRight'
      BY <2>1 DEF memory, swap, Shares, MemoryRight, SwapRight, Within
    <2> QED
      BY <1>2, <2>2, Cpu
  <1>3. CASE UpdateMemory
    <2>1. UNCHANGED <<kernel, cpu>>
      BY <1>3 DEF UpdateMemory
    <2>2. Numbers' /\ Behind' /\ Remembered' /\ CpuRight'
      BY <2>1 DEF kernel, cpu, Numbers, Behind, Remembered, CpuRight, Within, Total, Grown, Idled
    <2> QED
      BY <1>3, <2>2, Memory
  <1>4. CASE UNCHANGED <<kernel, cpu, memory, swap>>
    BY <1>4 DEF kernel, cpu, memory, swap, Numbers, Behind, Remembered, Shares, CpuRight,
       MemoryRight, SwapRight, Within, Total, Grown, Idled
  <1> QED
    BY <1>1, <1>2, <1>3, <1>4 DEF SystemNext, UpdateFails, systemVars

LEMMA Always == SystemSpec => []IInv
  BY Initial, Step, PTL DEF SystemSpec

(* Whatever the kernel does with iowait and whatever /proc/meminfo says,   *)
(* the CPU usage exceeds 100% exactly if the idle time fell while all time *)
(* grew, and an amount in use or its share is wrong exactly if the figures *)
(* of the last reading did not add up.                                     *)
THEOREM UsageIsInRange == SystemSpec => []UsageInRange
  <1>1. IInv => UsageInRange
    BY DEF IInv, UsageInRange, CpuRight, MemoryRight, SwapRight
  <1> QED
    BY <1>1, Always, PTL

(* Between the last two reads that succeeded, however many failed, the CPU *)
(* usage is the share of the growth that was not idle, and every share of  *)
(* memory belongs to the amounts shown beside it.                          *)
THEOREM UsageIsThatShare == SystemSpec => []UsageIsShare
  <1>1. IInv => UsageIsShare
    BY DEF IInv, UsageIsShare, CpuRight, MemoryRight, SwapRight
  <1> QED
    BY <1>1, Always, PTL
=============================================================================
