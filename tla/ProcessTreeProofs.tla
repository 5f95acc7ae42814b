------------------------- MODULE ProcessTreeProofs -------------------------
(***************************************************************************)
(* The tree view is right for any number of processes, forks and rows, any *)
(* names and any sizes of the buffers: entries are true, every pass of     *)
(* km_process_tree_build() stays in its arrays and the tree it builds is   *)
(* the one that the PPIDs describe, and the drawing of it is a hierarchy   *)
(* that has all there is room for and nothing twice, and it comes to an    *)
(* end.                                                                    *)
(***************************************************************************)
EXTENDS ProcessTree, FiniteSetTheorems, SequenceTheorems, TLAPS

----------------------------------------------------------------------------
(* What a line of /proc/<pid>/stat says.                                   *)

(* The least and the greatest member of a set of numbers.                  *)
LEMMA Least ==
    ASSUME NEW S \in SUBSET Int, NEW m \in S, \A y \in S : m <= y
    PROVE  Min(S) = m
  <1>1. \A x \in S : (\A y \in S : x <= y) => x = m
    OBVIOUS
  <1> QED
    BY <1>1 DEF Min

LEMMA Greatest ==
    ASSUME NEW S \in SUBSET Int, NEW m \in S, \A y \in S : y <= m
    PROVE  Max(S) = m
  <1>1. \A x \in S : (\A y \in S : x >= y) => x = m
    OBVIOUS
  <1> QED
    BY <1>1 DEF Max

\* What of a name fits into a buffer beside the terminating zero.
Fitting(name, size) == SubSeq(name, 1, Min({Len(name), size - 1}))

(* However often a name has the words around it, the first parenthesis and *)
(* the last are the kernel's: the name and the parent come out as they     *)
(* went in, the name cut to its room.                                      *)
LEMMA LineIsRead ==
    ASSUME NEW pid \in Nat, NEW name \in Seq(Int), NEW ppid \in Nat, NEW size \in Nat \ {0},
           NEW line, line = StatLine(pid, name, ppid)
    PROVE  /\ ParsesProcStat(line, size) /\ Ppid(line) = ppid
           /\ Comm(line, size) \in Seq(Int)
           /\ Comm(line, size) = Fitting(name, size)
  <1> DEFINE n == Len(name)
  <1>1. /\ line \in Seq(Int) /\ n \in Nat /\ Len(line) = n + 5
        /\ line[1] = pid /\ line[2] = -1
        /\ \A i \in 1 .. n : line[i + 2] = name[i]
        /\ line[n + 3] = -2 /\ line[n + 4] = -3 /\ line[n + 5] = ppid
    <2>1. line = <<pid, -1>> \o name \o <<-2, -3, ppid>>
      BY DEF StatLine, Open, Close, Letter
    <2>2. DEFINE front == <<pid, -1>> \o name
    <2>3. /\ front \in Seq(Int) /\ Len(front) = n + 2
          /\ front[1] = pid /\ front[2] = -1
          /\ \A i \in 1 .. n : front[i + 2] = name[i]
      OBVIOUS
    <2> HIDE DEF front
    <2>4. line = front \o <<-2, -3, ppid>>
      BY <2>1 DEF front
    <2>5. /\ line \in Seq(Int) /\ Len(line) = n + 5
          /\ \A i \in 1 .. n + 2 : line[i] = front[i]
          /\ line[n + 3] = -2 /\ line[n + 4] = -3 /\ line[n + 5] = ppid
      BY <2>3, <2>4, SMTT(30)
    <2>6. \A i \in 1 .. n : i + 2 \in 1 .. n + 2
      OBVIOUS
    <2>7. \A i \in 1 .. n : line[i + 2] = name[i]
      BY <2>3, <2>5, <2>6
    <2>8. n \in Nat /\ 1 \in 1 .. n + 2 /\ 2 \in 1 .. n + 2
      OBVIOUS
    <2> HIDE DEF n
    <2> QED
      BY <2>3, <2>5, <2>7, <2>8
  <1> HIDE DEF n
  <1>2. DOMAIN line = 1 .. n + 5
    BY <1>1
  <1>3. OpenParen(line) = 2
    <2>1. /\ Places(line, Open) \in SUBSET Int /\ 2 \in Places(line, Open)
          /\ \A i \in Places(line, Open) : 2 <= i
      <3>1. 2 \in 1 .. n + 5 /\ \A i \in 1 .. n + 5 : i # 1 => 2 <= i
        BY <1>1
      <3>2. line[1] # -1
        BY <1>1
      <3> QED
        BY <1>1, <1>2, <3>1, <3>2 DEF Places, Open
    <2> QED
      BY <2>1, Least DEF OpenParen
  <1>4. CloseParen(line) = n + 3
    <2>1. /\ Places(line, Close) \in SUBSET Int /\ n + 3 \in Places(line, Close)
          /\ \A i \in Places(line, Close) : i <= n + 3
      <3>1. n + 3 \in 1 .. n + 5 /\ \A i \in 1 .. n + 5 : i \notin {n + 4, n + 5} => i <= n + 3
        BY <1>1
      <3>2. line[n + 4] # -2 /\ line[n + 5] # -2
        BY <1>1
      <3> QED
        BY <1>1, <1>2, <3>1, <3>2, SMTT(30) DEF Places, Close
    <2> QED
      BY <2>1, Greatest DEF CloseParen
  <1>5. Len(Rest(line)) = 2 /\ Rest(line)[2] = ppid
    BY <1>1, <1>4 DEF Rest
  <1>6. ParsesProcStat(line, size) /\ Ppid(line) = ppid
    <2>1. Places(line, Open) # {} /\ Places(line, Close) # {}
      <3>1. 2 \in DOMAIN line /\ n + 3 \in DOMAIN line
        BY <1>1, <1>2
      <3> QED
        BY <1>1, <3>1 DEF Places, Open, Close
    <2>2. CloseParen(line) >= OpenParen(line)
      BY <1>1, <1>3, <1>4
    <2> QED
      BY <1>5, <2>1, <2>2 DEF ParsesProcStat, Ppid
  <1>7. PICK k \in {n, size - 1} : k <= n /\ k <= size - 1
    BY <1>1
  <1>8. Min({n, size - 1}) = k /\ Min({n + 2, size + 1}) = k + 2
    <2>1. /\ {n, size - 1} \in SUBSET Int /\ \A y \in {n, size - 1} : k <= y
          /\ {n + 2, size + 1} \in SUBSET Int /\ k + 2 \in {n + 2, size + 1}
          /\ \A y \in {n + 2, size + 1} : k + 2 <= y
      BY <1>1, <1>7
    <2> QED
      BY <2>1, Least
  <1>9. k \in Nat /\ k <= n
    BY <1>1, <1>7
  <1>10. Comm(line, size) = SubSeq(line, 3, k + 2)
    <2>1. CloseParen(line) - 1 = n + 2 /\ OpenParen(line) + size - 1 = size + 1
      BY <1>1, <1>3, <1>4
    <2>2. OpenParen(line) + 1 = 3
      BY <1>3
    <2> QED
      BY <1>8, <2>1, <2>2 DEF Comm
  <1>11. \A i \in 1 .. k : line[i + 2] = name[i]
    BY <1>1, <1>9
  <1>12. SubSeq(line, 3, k + 2) = SubSeq(name, 1, k) /\ SubSeq(name, 1, k) \in Seq(Int)
    <2> DEFINE part == SubSeq(line, 3, k + 2)
               front == SubSeq(name, 1, k)
    <2>1. /\ \A i \in 1 .. k : name[i] \in Int
          /\ \A j \in 3 .. k + 2 : j - 2 \in 1 .. k /\ (j - 2) + 2 = j
          /\ 3 \in Int /\ k + 2 \in Int /\ 1 \in Int /\ k \in Int
      BY <1>1, <1>9 DEF n
    <2>2. \A j \in 3 .. k + 2 : line[j] \in Int
      BY <1>11, <2>1
    <2>3. /\ part \in Seq(Int)
          /\ Len(part) = IF 3 <= k + 2 THEN (k + 2) - 3 + 1 ELSE 0
          /\ \A i \in 1 .. (k + 2) - 3 + 1 : part[i] = line[3 + i - 1]
      BY <2>1, <2>2, SubSeqProperties
    <2>4. /\ front \in Seq(Int)
          /\ Len(front) = IF 1 <= k THEN k - 1 + 1 ELSE 0
          /\ \A i \in 1 .. k - 1 + 1 : front[i] = name[1 + i - 1]
      BY <2>1, SubSeqProperties
    <2> HIDE DEF part, front
    <2>5. (k + 2) - 3 + 1 = k /\ k - 1 + 1 = k /\ (3 <= k + 2 <=> 1 <= k) /\ (1 <= k \/ k = 0)
      BY <1>9
    <2>6. \A i \in 1 .. k : 3 + i - 1 = i + 2 /\ 1 + i - 1 = i
      BY <1>9
    <2>7. Len(part) = k /\ Len(front) = k
      BY <2>3, <2>4, <2>5
    <2>8. \A i \in 1 .. k : part[i] = front[i]
      BY <1>11, <2>3, <2>4, <2>5, <2>6
    <2>9. part = front
      BY <2>3, <2>4, <2>7, <2>8, SeqEqual
    <2> QED
      BY <2>4, <2>9 DEF part, front
  <1> QED
    BY <1>6, <1>8, <1>10, <1>12 DEF n, Fitting

----------------------------------------------------------------------------
(* The sweep.                                                              *)

Entry  == [pid : Pid, ppid : Nat, name : Seq(Int)]
Labels == {"idle", "read", "count", "offset", "array", "place", "late", "draw", "done", "failed"}

\* Nobody is its own parent, and init has none.
Parents ==
    /\ alive \subseteq Pid /\ 1 \in alive /\ parent \in [Pid -> Nat]
    /\ parent[1] = 0 /\ \A p \in Pid : parent[p] # p

\* The sample is in PID order and does not overtake the list.
Swept ==
    /\ pc \in Labels /\ at \in Nat \ {0}
    /\ pids \in Seq(Pid) /\ Increasing(pids) /\ sample \in Seq(Entry)
    /\ \A i, j \in DOMAIN sample : i < j => sample[i].pid < sample[j].pid
    /\ \A i \in DOMAIN sample : sample[i].ppid # sample[i].pid
    /\ pc = "idle" => sample = <<>> /\ at = 1
    /\ pc = "read" => \A i \in DOMAIN sample, j \in DOMAIN pids :
                         j >= at => sample[i].pid < pids[j]

SweepInv == Parents /\ Swept

(* The list of PIDs is a sequence of PIDs.                                 *)
LEMMA Listed ==
    ASSUME Parents, ListPids
    PROVE  pids' \in Seq(Pid) /\ Increasing(pids')
  <1>1. PICK list \in [1 .. Cardinality(alive) -> alive] : Increasing(list) /\ pids' = list
    BY DEF ListPids
  <1>2. IsFiniteSet(Pid)
    BY FS_Interval, TreeAssumption DEF Pid
  <1>3. Cardinality(alive) \in Nat
    BY <1>2, FS_Subset, FS_CardinalityType DEF Parents
  <1>4. list \in [1 .. Cardinality(alive) -> Pid]
    BY <1>1 DEF Parents
  <1>5. list \in Seq(Pid)
    BY <1>3, <1>4
  <1> QED
    BY <1>1, <1>5

(* Reading a process enters it with its parent and the beginning of its    *)
(* name, whatever the name is, if the process still runs.                  *)
LEMMA Entered ==
    ASSUME SweepInv, Read
    PROVE  /\ pids[at] \in Pid
           /\ pids[at] \notin alive => sample' = sample
           /\ pids[at] \in alive =>
                 \E entry \in Entry :
                    /\ sample' = Append(sample, entry)
                    /\ entry.pid = pids[at] /\ entry.ppid = parent[pids[at]]
                    /\ entry.name = Fitting(Names[pids[at]], NameSize)
  <1> DEFINE p == pids[at]
             line == StatLine(p, Names[p], parent[p])
             entry == [pid |-> p, ppid |-> Ppid(line), name |-> Comm(line, NameSize)]
  <1>1. at \in DOMAIN pids
    BY DEF Read, SweepInv, Swept
  <1>2. p \in Pid
    BY <1>1 DEF SweepInv, Swept
  <1>3. /\ p \in Nat /\ Names[p] \in Seq(Int) /\ parent[p] \in Nat /\ NameSize \in Nat \ {0}
        /\ line = StatLine(p, Names[p], parent[p])
    BY <1>2, TreeAssumption DEF Pid, SweepInv, Parents
  <1>4. /\ ParsesProcStat(line, NameSize) /\ Ppid(line) = parent[p]
        /\ Comm(line, NameSize) \in Seq(Int)
        /\ Comm(line, NameSize) = Fitting(Names[p], NameSize)
    <2> HIDE DEF p, line
    <2> QED
      BY <1>3, LineIsRead
  <1>5. sample' = IF p \in alive /\ ParsesProcStat(line, NameSize)
                  THEN Append(sample, entry) ELSE sample
    BY DEF Read
  <1>6. entry \in Entry
    BY <1>2, <1>3, <1>4 DEF Entry
  <1>7. /\ entry.pid = p /\ entry.ppid = parent[p]
        /\ entry.name = Fitting(Names[p], NameSize)
    BY <1>4
  <1> HIDE DEF entry, line
  <1> QED
    BY <1>2, <1>4, <1>5, <1>6, <1>7

(* Appending a greater PID keeps the order.                                *)
LEMMA AppendEntry ==
    ASSUME NEW s \in Seq(Entry), NEW e \in Entry,
           \A i, j \in DOMAIN s : i < j => s[i].pid < s[j].pid,
           \A i \in DOMAIN s : s[i].pid < e.pid,
           \A i \in DOMAIN s : s[i].ppid # s[i].pid, e.ppid # e.pid
    PROVE  /\ Append(s, e) \in Seq(Entry)
           /\ \A i, j \in DOMAIN Append(s, e) : i < j => Append(s, e)[i].pid < Append(s, e)[j].pid
           /\ \A i \in DOMAIN Append(s, e) : Append(s, e)[i].ppid # Append(s, e)[i].pid
           /\ \A i \in DOMAIN Append(s, e) : Append(s, e)[i] = e \/ (i \in DOMAIN s /\ Append(s, e)[i] = s[i])
  <1> DEFINE t == Append(s, e)
             n == Len(s)
  <1>1. /\ t \in Seq(Entry) /\ DOMAIN t = 1 .. n + 1 /\ DOMAIN s = 1 .. n /\ n \in Nat
        /\ t[n + 1] = e /\ \A i \in 1 .. n : t[i] = s[i]
    OBVIOUS
  <1> HIDE DEF t, n
  <1>2. \A i \in 1 .. n + 1 : i = n + 1 \/ i \in 1 .. n
    BY <1>1
  <1>3. \A i, j \in 1 .. n + 1 : i < j => i \in 1 .. n
    BY <1>1
  <1>4. \A i, j \in DOMAIN t : i < j => t[i].pid < t[j].pid
    BY <1>1, <1>2, <1>3
  <1>5. \A i \in DOMAIN t : t[i].ppid # t[i].pid /\ (t[i] = e \/ (i \in DOMAIN s /\ t[i] = s[i]))
    BY <1>1, <1>2
  <1> QED
    BY <1>1, <1>4, <1>5 DEF t

(* Forks, exits, the list and the reading keep the sample in order.        *)
LEMMA SweepStep == SweepInv /\ [Next]_vars => SweepInv'
  <1> SUFFICES ASSUME SweepInv, [Next]_vars PROVE SweepInv'
    OBVIOUS
  <1> USE DEF SweepInv
  <1>1. ASSUME NEW p \in Pid, NEW q \in Pid, Fork(q, p) PROVE SweepInv'
    <2>1. /\ q \in alive /\ p \notin alive /\ UNCHANGED <<pids, sample, pc, at>>
          /\ alive' = alive \cup {p} /\ parent' = [parent EXCEPT ![p] = q]
      BY <1>1 DEF Fork
    <2>2. q \in Nat /\ q # p /\ p # 1
      BY <2>1 DEF Parents, Pid
    <2> QED
      BY <2>1, <2>2 DEF Parents, Swept
  <1>2. ASSUME NEW p \in Pid, Exit(p) PROVE SweepInv'
    <2>1. /\ p # 1 /\ alive' = alive \ {p} /\ UNCHANGED <<pids, sample, pc, at>>
          /\ parent' = [q \in Pid |-> IF q \in alive /\ parent[q] = p THEN 1 ELSE parent[q]]
      BY <1>2 DEF Exit
    <2>2. 1 \in Pid /\ p # 0
      BY TreeAssumption DEF Pid
    <2>3. parent' \in [Pid -> Nat] /\ parent'[1] = 0
      BY <2>1, <2>2 DEF Parents
    <2>4. ASSUME NEW q \in Pid PROVE parent'[q] # q
      BY <2>1, <2>2, <2>3 DEF Parents
    <2> QED
      BY <2>1, <2>3, <2>4 DEF Parents, Swept
  <1>3. CASE ListPids
    <2>1. pids' \in Seq(Pid) /\ Increasing(pids')
      BY <1>3, Listed
    <2>2. pc = "idle" /\ pc' = "read" /\ UNCHANGED <<kernel, sample, at>>
      BY <1>3 DEF ListPids
    <2> QED
      BY <2>1, <2>2 DEF Parents, Swept, kernel, Labels
  <1>4. CASE Read
    <2>1. pc = "read" /\ at <= Len(pids) /\ at' = at + 1 /\ UNCHANGED <<kernel, pids, pc>>
      BY <1>4 DEF Read
    <2>2. at \in DOMAIN pids /\ at \in Nat
      BY <2>1 DEF Swept
    <2>3. CASE pids[at] \notin alive
      <3>1. sample' = sample
        BY <1>4, <2>3, Entered
      <3> QED
        BY <2>1, <2>2, <3>1 DEF Parents, Swept, kernel
    <2>4. CASE pids[at] \in alive
      <3>1. PICK e \in Entry : /\ sample' = Append(sample, e)
                               /\ e.pid = pids[at] /\ e.ppid = parent[pids[at]]
        BY <1>4, <2>4, Entered
      <3>2. \A i \in DOMAIN sample : sample[i].pid < e.pid
        BY <2>1, <2>2, <3>1 DEF Swept
      <3>3. e.ppid # e.pid
        BY <2>4, <3>1 DEF Parents
      <3>4. /\ sample' \in Seq(Entry)
            /\ \A i, j \in DOMAIN sample' : i < j => sample'[i].pid < sample'[j].pid
            /\ \A i \in DOMAIN sample' : sample'[i].ppid # sample'[i].pid
            /\ \A i \in DOMAIN sample' : sample'[i] = e \/ (i \in DOMAIN sample /\ sample'[i] = sample[i])
        BY <3>1, <3>2, <3>3, AppendEntry DEF Swept
      <3>5. ASSUME NEW i \in DOMAIN sample', NEW j \in DOMAIN pids, j >= at + 1
            PROVE  sample'[i].pid < pids[j]
        <4>1. j \in Nat /\ j >= at /\ j > at
          BY <2>2, <3>5 DEF Swept
        <4> QED
          BY <2>1, <2>2, <3>1, <3>4, <4>1 DEF Swept, Increasing
      <3> QED
        BY <2>1, <3>4, <3>5 DEF Parents, Swept, kernel
    <2> QED
      BY <2>3, <2>4
  <1>5. CASE Build \/ Draw
    <2>1. UNCHANGED <<kernel, pids, sample>> /\ pc # "idle"
      BY <1>5 DEF Build, Draw, Allocate, Count, Offset, AllocateChildren, Place, LateRoot,
                  NextRoot, NextChild, Return, Finish
    <2>2. pc' \in Labels \ {"idle", "read"} /\ at' \in Nat \ {0}
      BY <1>5 DEF Build, Draw, Allocate, Count, Offset, AllocateChildren, Place, LateRoot, Advance,
                  NextRoot, NextChild, Return, Finish, Labels, Swept
    <2> QED
      BY <2>1, <2>2 DEF Parents, Swept, kernel
  <1>6. CASE UNCHANGED vars
    BY <1>6 DEF vars, kernel, Parents, Swept
  <1> QED
    BY <1>1, <1>2, <1>3, <1>4, <1>5, <1>6 DEF Next

(* Before the first sweep there is init.                                   *)
LEMMA SweepInit == Init => SweepInv
  <1> SUFFICES ASSUME Init PROVE SweepInv
    OBVIOUS
  <1>1. 1 \in Pid
    BY TreeAssumption DEF Pid
  <1>2. Parents
    BY <1>1 DEF Init, Parents, Pid
  <1>3. Swept
    BY DEF Init, Swept, Labels, Increasing
  <1> QED
    BY <1>2, <1>3 DEF SweepInv

(* Whatever a process calls itself, it is entered with the parent and the  *)
(* beginning of the name that it has when its turn comes.                  *)
THEOREM EntriesTrue == Spec => EntriesAreTrue
  <1>1. SweepInv /\ [Next]_vars =>
          [pc = "read" /\ at' = at + 1 /\ pids[at] \in alive
           => LET entry == Last(sample')
                  name  == Names[pids[at]]
              IN  /\ Len(sample') = Len(sample) + 1
                  /\ entry.pid = pids[at] /\ entry.ppid = parent[pids[at]]
                  /\ entry.name = SubSeq(name, 1, Min({Len(name), NameSize - 1}))]_vars
    <2> SUFFICES ASSUME SweepInv, [Next]_vars,
                        pc = "read", at' = at + 1, pids[at] \in alive
                 PROVE  LET entry == Last(sample')
                            name  == Names[pids[at]]
                        IN  /\ Len(sample') = Len(sample) + 1
                            /\ entry.pid = pids[at] /\ entry.ppid = parent[pids[at]]
                            /\ entry.name = SubSeq(name, 1, Min({Len(name), NameSize - 1}))
      BY Zenon
    <2>1. at \in Nat \ {0} /\ sample \in Seq(Entry)
      BY DEF SweepInv, Swept
    <2>2. Read
      <3>1. at' # at /\ at' # 1
        BY <2>1
      <3> QED
        BY <3>1 DEF Next, Fork, Exit, ListPids, Build, Draw, Allocate, Count, Offset,
                    AllocateChildren, Place, LateRoot, NextRoot, NextChild, Return, Finish, vars
    <2>3. PICK e \in Entry :
            /\ sample' = Append(sample, e)
            /\ e.pid = pids[at] /\ e.ppid = parent[pids[at]]
            /\ e.name = Fitting(Names[pids[at]], NameSize)
      BY <2>2, Entered
    <2>4. Len(sample') = Len(sample) + 1 /\ Last(sample') = e
      BY <2>1, <2>3 DEF Last
    <2> QED
      BY <2>3, <2>4 DEF Fitting
  <1> QED
    BY <1>1, SweepInit, SweepStep, PTL DEF Spec, EntriesAreTrue

----------------------------------------------------------------------------
(* The passes of km_process_tree_build(), over a sample s in PID order.    *)

Ordered(s) ==
    /\ s \in Seq(Entry)
    /\ \A i, j \in DOMAIN s : i < j => s[i].pid < s[j].pid
    /\ \A i \in DOMAIN s : s[i].ppid # s[i].pid

\* The children of the i-th process among the first k.
KidsTo(s, i, k) == {j \in 1 .. k : s[j].ppid = s[i].pid}

\* What the passes have done when they have been through the first k.
CountedTo(s, count, k) == \A i \in DOMAIN s : count[i] = Cardinality(KidsTo(s, i, k))

RootsTo(s, rs, k) ==
    /\ rs \in Seq(Pid) /\ Len(rs) <= k /\ Increasing(rs)
    /\ \A r \in DOMAIN rs :
          \E j \in 1 .. k : rs[r] = s[j].pid /\ s[j].ppid \notin PidsOf(s)
    /\ \A j \in 1 .. k : s[j].ppid \notin PidsOf(s) => \E r \in DOMAIN rs : rs[r] = s[j].pid

SlicedTo(start, count, total, k) ==
    /\ \A i \in 1 .. k : start[i] + count[i] <= total
    /\ \A i, j \in 1 .. k : i < j => start[i] + count[i] <= start[j]

\* The first f places after the offset have the children among the first k.
Slice(s, i, offset, f, array, k) ==
    /\ f = Cardinality(KidsTo(s, i, k))
    /\ \A x \in 1 .. f : \E j \in KidsTo(s, i, k) : array[offset + x] = s[j].pid
    /\ \A x, y \in 1 .. f : x < y => array[offset + x] < array[offset + y]
    /\ \A j \in KidsTo(s, i, k) : \E x \in 1 .. f : array[offset + x] = s[j].pid

PlacedTo(s, start, filled, array, k) ==
    \A i \in DOMAIN s : Slice(s, i, start[i], filled[i], array, k)

(* The types of a sample.                                                  *)
LEMMA EntryAt ==
    ASSUME NEW s, Ordered(s)
    PROVE  /\ Len(s) \in Nat /\ DOMAIN s = 1 .. Len(s)
           /\ \A i \in DOMAIN s : /\ i \in Nat \ {0} /\ i <= Len(s) /\ s[i] \in Entry
                                 /\ s[i].pid \in Pid /\ s[i].pid \in Nat /\ s[i].ppid \in Nat
  <1>1. s \in Seq(Entry)
    BY DEF Ordered
  <1>2. \A e \in Entry : e.pid \in Pid /\ e.pid \in Nat /\ e.ppid \in Nat
    BY DEF Entry, Pid
  <1>3. Len(s) \in Nat /\ DOMAIN s = 1 .. Len(s) /\ \A i \in DOMAIN s : s[i] \in Entry
    BY <1>1
  <1> QED
    BY <1>2, <1>3

(* Each process is at one index.                                           *)
LEMMA OneIndex ==
    ASSUME NEW s, Ordered(s), NEW i \in DOMAIN s, NEW j \in DOMAIN s, s[i].pid = s[j].pid
    PROVE  i = j
  <1>1. /\ i \in Nat /\ j \in Nat /\ s[i].pid \in Nat /\ s[j].pid \in Nat
        /\ i < j => s[i].pid < s[j].pid
        /\ j < i => s[j].pid < s[i].pid
    BY EntryAt DEF Ordered
  <1> QED
    BY <1>1

(* How the children of a process among the first k grow with k.            *)
LEMMA KidsGrow ==
    ASSUME NEW s, Ordered(s), NEW i \in DOMAIN s, NEW k \in DOMAIN s
    PROVE  /\ Cardinality(KidsTo(s, i, k - 1)) \in Nat /\ Cardinality(KidsTo(s, i, k)) \in Nat
           /\ s[k].ppid = s[i].pid =>
                /\ \A j : j \in KidsTo(s, i, k) <=> j \in KidsTo(s, i, k - 1) \/ j = k
                /\ Cardinality(KidsTo(s, i, k)) = Cardinality(KidsTo(s, i, k - 1)) + 1
           /\ s[k].ppid # s[i].pid => KidsTo(s, i, k) = KidsTo(s, i, k - 1)
           /\ Cardinality(KidsTo(s, i, k)) <= Cardinality(KidsTo(s, i, Len(s)))
           /\ Cardinality(KidsTo(s, i, Len(s))) \in Nat
  <1>1. k \in Nat \ {0} /\ k <= Len(s) /\ Len(s) \in Nat
    BY DEF Ordered
  <1>2. ASSUME NEW m \in Nat
        PROVE  IsFiniteSet(KidsTo(s, i, m)) /\ Cardinality(KidsTo(s, i, m)) \in Nat
    <2>1. IsFiniteSet(1 .. m) /\ KidsTo(s, i, m) \in SUBSET (1 .. m)
      BY FS_Interval DEF KidsTo
    <2> QED
      BY <2>1, FS_Subset, FS_CardinalityType
  <1>3. 1 .. k = 1 .. k - 1 \cup {k} /\ k \notin 1 .. k - 1 /\ k - 1 \in Nat
    BY <1>1
  <1>4. s[k].ppid = s[i].pid => KidsTo(s, i, k) = KidsTo(s, i, k - 1) \cup {k}
    BY <1>3 DEF KidsTo
  <1>5. s[k].ppid # s[i].pid => KidsTo(s, i, k) = KidsTo(s, i, k - 1)
    BY <1>3 DEF KidsTo
  <1>6. k \notin KidsTo(s, i, k - 1)
    BY <1>3 DEF KidsTo
  <1>7. s[k].ppid = s[i].pid =>
          Cardinality(KidsTo(s, i, k)) = Cardinality(KidsTo(s, i, k - 1)) + 1
    BY <1>2, <1>3, <1>4, <1>6, FS_AddElement
  <1>8. KidsTo(s, i, k) \in SUBSET KidsTo(s, i, Len(s))
    BY <1>1 DEF KidsTo
  <1>9. Cardinality(KidsTo(s, i, k)) <= Cardinality(KidsTo(s, i, Len(s)))
    BY <1>1, <1>2, <1>8, FS_Subset
  <1> QED
    BY <1>1, <1>2, <1>3, <1>4, <1>5, <1>7, <1>9

(* First pass, a process whose parent is the i-th of the sample.           *)
LEMMA CountChild ==
    ASSUME NEW s, Ordered(s), NEW count \in [DOMAIN s -> Nat], NEW rs, NEW i \in DOMAIN s,
           NEW k \in DOMAIN s, s[i].pid = s[k].ppid,
           CountedTo(s, count, k - 1), RootsTo(s, rs, k - 1)
    PROVE  CountedTo(s, [count EXCEPT ![i] = @ + 1], k) /\ RootsTo(s, rs, k)
  <1>1. ASSUME NEW j \in DOMAIN s
        PROVE  [count EXCEPT ![i] = @ + 1][j] = Cardinality(KidsTo(s, j, k))
    <2>1. CASE j = i
      BY <2>1, KidsGrow DEF CountedTo
    <2>2. CASE j # i
      <3>1. s[k].ppid # s[j].pid
        BY <2>2, OneIndex
      <3> QED
        BY <2>2, <3>1, KidsGrow DEF CountedTo
    <2> QED
      BY <2>1, <2>2
  <1>2. k \in Nat /\ s[k].ppid \in PidsOf(s)
    BY DEF Ordered, PidsOf
  <1>3. Len(rs) \in Nat /\ Len(rs) <= k
    BY <1>2 DEF RootsTo
  <1>4. \A j \in 1 .. k : j # k => j \in 1 .. k - 1
    BY <1>2
  <1>5. \A j \in 1 .. k - 1 : j \in 1 .. k
    BY <1>2
  <1>6. RootsTo(s, rs, k)
    BY <1>2, <1>3, <1>4, <1>5 DEF RootsTo
  <1> QED
    BY <1>1, <1>6 DEF CountedTo

(* First pass, a process whose parent is not in the sample.                *)
LEMMA CountRoot ==
    ASSUME NEW s, Ordered(s), NEW count \in [DOMAIN s -> Nat], NEW rs,
           NEW k \in DOMAIN s, s[k].ppid \notin PidsOf(s),
           CountedTo(s, count, k - 1), RootsTo(s, rs, k - 1)
    PROVE  CountedTo(s, count, k) /\ RootsTo(s, Append(rs, s[k].pid), k)
  <1> DEFINE more == Append(rs, s[k].pid)
  <1>1. ASSUME NEW j \in DOMAIN s PROVE count[j] = Cardinality(KidsTo(s, j, k))
    <2>1. s[k].ppid # s[j].pid
      BY DEF PidsOf
    <2> QED
      BY <2>1, KidsGrow DEF CountedTo
  <1>2. /\ k \in Nat /\ Len(s) \in Nat /\ DOMAIN s = 1 .. Len(s) /\ s[k].pid \in Pid
        /\ rs \in Seq(Pid) /\ Len(rs) \in Nat /\ Len(rs) <= k - 1
    BY EntryAt DEF RootsTo
  <1>3. /\ more \in Seq(Pid) /\ Len(more) = Len(rs) + 1 /\ DOMAIN more = 1 .. Len(rs) + 1
        /\ DOMAIN rs = 1 .. Len(rs)
        /\ more[Len(rs) + 1] = s[k].pid /\ \A r \in 1 .. Len(rs) : more[r] = rs[r]
    BY <1>2
  <1> HIDE DEF more
  <1>4. \A r \in DOMAIN more : r \in 1 .. Len(rs) \/ r = Len(rs) + 1
    BY <1>2, <1>3
  <1>5. ASSUME NEW r \in 1 .. Len(rs) PROVE rs[r] < s[k].pid
    <2>1. PICK j \in 1 .. k - 1 : rs[r] = s[j].pid
      BY <1>3 DEF RootsTo
    <2>2. j < k /\ j \in DOMAIN s
      BY <1>2
    <2> QED
      BY <2>1, <2>2 DEF Ordered
  <1>6. Increasing(more)
    <2> SUFFICES ASSUME NEW i \in DOMAIN more, NEW j \in DOMAIN more, i < j
                 PROVE  more[i] < more[j]
      BY DEF Increasing
    <2>1. i \in 1 .. Len(rs)
      BY <1>2, <1>3
    <2>2. CASE j \in 1 .. Len(rs)
      BY <1>3, <2>1, <2>2 DEF RootsTo, Increasing
    <2>3. CASE j = Len(rs) + 1
      BY <1>3, <1>5, <2>1, <2>3
    <2> QED
      BY <1>4, <2>2, <2>3
  <1>7. Len(more) <= k
    BY <1>2, <1>3
  <1>8. \A j \in 1 .. k - 1 : j \in 1 .. k
    BY <1>2
  <1>9. \A j \in 1 .. k : j = k \/ j \in 1 .. k - 1
    BY <1>2
  <1>10. k \in 1 .. k /\ Len(rs) + 1 \in DOMAIN more /\ DOMAIN rs \subseteq DOMAIN more
    BY <1>2, <1>3
  <1>11. \A r \in DOMAIN more :
           \E j \in 1 .. k : more[r] = s[j].pid /\ s[j].ppid \notin PidsOf(s)
    BY <1>3, <1>4, <1>8, <1>10, SMTT(30) DEF RootsTo
  <1>12. \A j \in 1 .. k : s[j].ppid \notin PidsOf(s) => \E r \in DOMAIN more : more[r] = s[j].pid
    BY <1>3, <1>9, <1>10 DEF RootsTo
  <1>13. RootsTo(s, more, k)
    BY <1>3, <1>6, <1>7, <1>11, <1>12 DEF RootsTo
  <1> QED
    BY <1>1, <1>13 DEF CountedTo, more

(* The next slice begins where the last one ends.                          *)
LEMMA SliceBegins ==
    ASSUME NEW n \in Nat, NEW start \in [1 .. n -> Nat], NEW count \in [1 .. n -> Nat],
           NEW total \in Nat, NEW k \in 1 .. n, SlicedTo(start, count, total, k - 1)
    PROVE  SlicedTo([start EXCEPT ![k] = total], count, total + count[k], k)
  <1> DEFINE next == [start EXCEPT ![k] = total]
  <1>1. /\ next[k] = total /\ \A i \in 1 .. k - 1 : next[i] = start[i]
        /\ \A i \in 1 .. k : i \in 1 .. n /\ count[i] \in Nat /\ start[i] \in Nat
        /\ \A i \in 1 .. k : i = k \/ i \in 1 .. k - 1
    OBVIOUS
  <1> HIDE DEF next
  <1>2. ASSUME NEW i \in 1 .. k PROVE next[i] + count[i] <= total + count[k]
    BY <1>1, SMTT(30) DEF SlicedTo
  <1>3. ASSUME NEW i \in 1 .. k, NEW j \in 1 .. k, i < j PROVE next[i] + count[i] <= next[j]
    <2>1. i \in 1 .. k - 1
      BY <1>3
    <2> QED
      BY <1>1, <1>3, <2>1 DEF SlicedTo
  <1> QED
    BY <1>2, <1>3 DEF SlicedTo, next

(* Second pass, the next child of the i-th process is put at the end of    *)
(* what its slice has.                                                     *)
LEMMA SliceGrows ==
    ASSUME NEW s, Ordered(s), NEW i \in DOMAIN s, NEW k \in DOMAIN s, s[i].pid = s[k].ppid,
           NEW offset \in Nat, NEW f \in Nat, NEW array \in Seq(Nat),
           Slice(s, i, offset, f, array, k - 1), offset + f + 1 <= Len(array)
    PROVE  Slice(s, i, offset, f + 1, [array EXCEPT ![offset + f + 1] = s[k].pid], k)
  <1>1. /\ \A j : j \in KidsTo(s, i, k) <=> j \in KidsTo(s, i, k - 1) \/ j = k
        /\ Cardinality(KidsTo(s, i, k)) = Cardinality(KidsTo(s, i, k - 1)) + 1
    <2>1. s[k].ppid = s[i].pid
      OBVIOUS
    <2>2. \A j : j \in KidsTo(s, i, k) <=> j \in KidsTo(s, i, k - 1) \/ j = k
      BY <2>1, KidsGrow
    <2>3. Cardinality(KidsTo(s, i, k)) = Cardinality(KidsTo(s, i, k - 1)) + 1
      BY <2>1, KidsGrow
    <2> QED
      BY <2>2, <2>3
  <1> DEFINE more == [array EXCEPT ![offset + f + 1] = s[k].pid]
  <1>2. /\ more[offset + (f + 1)] = s[k].pid
        /\ \A x \in 1 .. f : more[offset + x] = array[offset + x]
    <2>1. /\ offset + f + 1 \in DOMAIN array /\ offset + (f + 1) = offset + f + 1
          /\ \A x \in 1 .. f : offset + x \in DOMAIN array /\ offset + x # offset + f + 1
      OBVIOUS
    <2> QED
      BY <2>1, Zenon
  <1> HIDE DEF more
  <1>3. \A x \in 1 .. f + 1 : x = f + 1 \/ x \in 1 .. f
    OBVIOUS
  <1>4. 1 .. f \subseteq 1 .. f + 1 /\ f + 1 \in 1 .. f + 1
    OBVIOUS
  <1>5. \A x \in 1 .. f + 1 : \E j \in KidsTo(s, i, k) : more[offset + x] = s[j].pid
    <2> SUFFICES ASSUME NEW x \in 1 .. f + 1
                 PROVE  \E j \in KidsTo(s, i, k) : more[offset + x] = s[j].pid
      OBVIOUS
    <2>1. CASE x = f + 1
      BY <1>1, <1>2, <2>1
    <2>2. CASE x \in 1 .. f
      BY <1>1, <1>2, <2>2 DEF Slice
    <2> QED
      BY <1>3, <2>1, <2>2
  <1>6. \A j \in KidsTo(s, i, k) : \E x \in 1 .. f + 1 : more[offset + x] = s[j].pid
    BY <1>1, <1>2, <1>4, ZenonT(30) DEF Slice
  <1>7. ASSUME NEW x \in 1 .. f PROVE array[offset + x] < s[k].pid
    <2>1. PICK j \in KidsTo(s, i, k - 1) : array[offset + x] = s[j].pid
      BY DEF Slice
    <2>2. j \in DOMAIN s /\ j < k
      BY EntryAt DEF KidsTo
    <2> QED
      BY <2>1, <2>2 DEF Ordered
  <1>8. \A x, y \in 1 .. f + 1 : x < y => more[offset + x] < more[offset + y]
    <2> SUFFICES ASSUME NEW x \in 1 .. f + 1, NEW y \in 1 .. f + 1, x < y
                 PROVE  more[offset + x] < more[offset + y]
      OBVIOUS
    <2>1. x \in 1 .. f
      OBVIOUS
    <2>2. CASE y \in 1 .. f
      BY <1>2, <2>1, <2>2 DEF Slice
    <2>3. CASE y = f + 1
      BY <1>2, <1>7, <2>1, <2>3
    <2> QED
      BY <1>3, <2>2, <2>3
  <1>9. f + 1 = Cardinality(KidsTo(s, i, k))
    BY <1>1 DEF Slice
  <1> QED
    BY <1>5, <1>6, <1>8, <1>9 DEF Slice, more

(* ... and leaves every other slice as it is.                              *)
LEMMA SliceStays ==
    ASSUME NEW s, Ordered(s), NEW j \in DOMAIN s, NEW k \in DOMAIN s, s[j].pid # s[k].ppid,
           NEW offset \in Nat, NEW f \in Nat, NEW array \in Seq(Nat),
           NEW place \in Nat, place \notin offset + 1 .. offset + f,
           NEW more, more = [array EXCEPT ![place] = s[k].pid],
           Slice(s, j, offset, f, array, k - 1)
    PROVE  Slice(s, j, offset, f, more, k)
  <1>1. KidsTo(s, j, k) = KidsTo(s, j, k - 1)
    BY KidsGrow
  <1>2. ASSUME NEW x \in 1 .. f PROVE more[offset + x] = array[offset + x]
    <2>1. offset + x # place
      OBVIOUS
    <2> QED
      BY <2>1
  <1>3. ASSUME NEW x \in 1 .. f
        PROVE  \E i \in KidsTo(s, j, k) : more[offset + x] = s[i].pid
    <2>1. \E i \in KidsTo(s, j, k - 1) : array[offset + x] = s[i].pid
      BY DEF Slice
    <2> QED
      BY <1>1, <1>2, <2>1
  <1>4. \A x, y \in 1 .. f : x < y => more[offset + x] < more[offset + y]
    BY <1>2 DEF Slice
  <1>5. \A i \in KidsTo(s, j, k) : \E x \in 1 .. f : more[offset + x] = s[i].pid
    BY <1>1, <1>2 DEF Slice
  <1>6. f = Cardinality(KidsTo(s, j, k))
    BY <1>1 DEF Slice
  <1> QED
    BY <1>3, <1>4, <1>5, <1>6 DEF Slice

(* A place with room in its slice is in no other slice.                    *)
LEMMA Apart ==
    ASSUME NEW a \in Nat, NEW f \in Nat, NEW c \in Nat, NEW b \in Nat, NEW g \in Nat,
           NEW d \in Nat, f + 1 <= c, g <= d, a + c <= b \/ b + d <= a
    PROVE  a + f + 1 \notin b + 1 .. b + g
  OBVIOUS

(* Second pass, a process that is nobody's child.                          *)
LEMMA PlaceNobody ==
    ASSUME NEW s, Ordered(s), NEW start, NEW filled, NEW array, NEW k \in DOMAIN s,
           PlacedTo(s, start, filled, array, k - 1), s[k].ppid \notin PidsOf(s)
    PROVE  PlacedTo(s, start, filled, array, k)
  <1>1. ASSUME NEW i \in DOMAIN s PROVE KidsTo(s, i, k) = KidsTo(s, i, k - 1)
    <2>1. s[k].ppid # s[i].pid
      BY DEF PidsOf
    <2> QED
      BY <2>1, KidsGrow
  <1> QED
    BY <1>1 DEF PlacedTo, Slice

(* Before the first process nothing is counted and nothing is placed.      *)
LEMMA KidsNone ==
    ASSUME NEW s, NEW i
    PROVE  KidsTo(s, i, 0) = {} /\ Cardinality(KidsTo(s, i, 0)) = 0
  <1>1. KidsTo(s, i, 0) = {}
    BY DEF KidsTo
  <1> QED
    BY <1>1, FS_EmptySet

----------------------------------------------------------------------------
(* The invariant of the passes.                                            *)

Arrays ==
    /\ child_count \in [DOMAIN sample -> Nat] /\ child_start \in [DOMAIN sample -> Nat]
    /\ fill \in [DOMAIN sample -> Nat]

Counted(k) == CountedTo(sample, child_count, k) /\ RootsTo(sample, roots, k)
Sliced(k)  == SlicedTo(child_start, child_count, total_children, k)
NoFill     == \A i \in DOMAIN sample : fill[i] = 0

Placed(k) ==
    /\ child_pids \in Seq(Nat) /\ Len(child_pids) = total_children
    /\ PlacedTo(sample, child_start, fill, child_pids, k)

Built == Arrays /\ Counted(Len(sample)) /\ Sliced(Len(sample)) /\ Placed(Len(sample))

BuildInv ==
    /\ total_children \in Nat /\ Len(roots) <= Len(sample)
    /\ pc \notin {"draw", "done"} => stack = <<>> /\ prefix = <<>> /\ rows = <<>>
    /\ pc \in {"idle", "read"} => roots = <<>> /\ child_pids = <<>> /\ total_children = 0
    /\ pc \in {"count", "offset", "place", "late"} => at \in DOMAIN sample
    /\ pc = "count" => Arrays /\ Counted(at - 1) /\ NoFill /\ total_children = 0
    /\ pc = "offset" => Arrays /\ Counted(Len(sample)) /\ Sliced(at - 1) /\ NoFill
    /\ pc = "array" => /\ Arrays /\ Counted(Len(sample)) /\ Sliced(Len(sample)) /\ NoFill
                       /\ at = 1 /\ 1 \in DOMAIN sample
    /\ pc = "place" => /\ Arrays /\ Counted(Len(sample)) /\ Sliced(Len(sample))
                       /\ Placed(at - 1)
    /\ pc \in {"late", "draw", "done"} => Built

(* A sample of the sweep is in PID order.                                  *)
LEMMA SampleOrdered == SweepInv => Ordered(sample)
  BY DEF SweepInv, Swept, Ordered

(* A loop over the processes ends or goes on to the next one.              *)
LEMMA LoopStep ==
    ASSUME SweepInv, at \in DOMAIN sample, NEW next, Advance(next)
    PROVE  \/ at' \in DOMAIN sample /\ at' - 1 = at /\ pc' = pc
           \/ at' = 1 /\ pc' = next /\ at = Len(sample) /\ at' \in DOMAIN sample
  <1>1. /\ at \in Nat \ {0} /\ at <= Len(sample) /\ Len(sample) \in Nat
        /\ DOMAIN sample = 1 .. Len(sample)
    BY SampleOrdered, EntryAt
  <1>2. CASE at < Len(sample)
    BY <1>1, <1>2 DEF Advance
  <1>3. CASE ~(at < Len(sample))
    BY <1>1, <1>3 DEF Advance
  <1> QED
    BY <1>2, <1>3

(* find_in() finds the process that has a PID.                             *)
LEMMA Found ==
    ASSUME SweepInv, NEW p \in PidsOf(sample)
    PROVE  IndexOf(p) \in DOMAIN sample /\ sample[IndexOf(p)].pid = p
  BY DEF IndexOf, PidsOf

(* Second pass: a child goes to its parent's slice, which has room.        *)
LEMMA PlaceChild ==
    ASSUME Ordered(sample), Arrays, total_children \in Nat, Counted(Len(sample)),
           Sliced(Len(sample)), at \in DOMAIN sample, Placed(at - 1),
           NEW i \in DOMAIN sample, sample[i].pid = sample[at].ppid,
           NEW more, more = [child_pids EXCEPT ![child_start[i] + fill[i] + 1] = sample[at].pid],
           NEW next, next = [fill EXCEPT ![i] = @ + 1]
    PROVE  /\ child_start[i] + fill[i] + 1 \in DOMAIN child_pids
           /\ more \in Seq(Nat) /\ Len(more) = total_children
           /\ PlacedTo(sample, child_start, next, more, at)
  <1>0. /\ child_count \in [DOMAIN sample -> Nat] /\ child_start \in [DOMAIN sample -> Nat]
        /\ fill \in [DOMAIN sample -> Nat] /\ child_pids \in Seq(Nat)
        /\ Len(child_pids) = total_children
        /\ CountedTo(sample, child_count, Len(sample))
        /\ SlicedTo(child_start, child_count, total_children, Len(sample))
        /\ PlacedTo(sample, child_start, fill, child_pids, at - 1)
    BY DEF Arrays, Counted, Sliced, Placed
  <1> DEFINE place == child_start[i] + fill[i] + 1
  <1>1. /\ Len(sample) \in Nat /\ DOMAIN sample = 1 .. Len(sample) /\ at \in Nat \ {0} /\ sample[at].pid \in Nat
        /\ child_start[i] \in Nat /\ fill[i] \in Nat /\ child_count[i] \in Nat
    BY <1>0, EntryAt
  <1>2. fill[i] + 1 <= child_count[i]
    <2>1. fill[i] = Cardinality(KidsTo(sample, i, at - 1)) /\ child_count[i] = Cardinality(KidsTo(sample, i, Len(sample)))
      BY <1>0 DEF CountedTo, PlacedTo, Slice
    <2>2. sample[at].ppid = sample[i].pid
      OBVIOUS
    <2>3. /\ Cardinality(KidsTo(sample, i, at)) = Cardinality(KidsTo(sample, i, at - 1)) + 1
          /\ Cardinality(KidsTo(sample, i, at)) <= Cardinality(KidsTo(sample, i, Len(sample)))
      BY <1>0, <2>2, KidsGrow, Zenon
    <2> QED
      BY <1>0, <2>1, <2>3, Zenon
  <1>3. child_start[i] + child_count[i] <= Len(child_pids)
    BY <1>0, <1>1 DEF SlicedTo
  <1>4. place \in Nat \ {0} /\ child_start[i] + fill[i] + 1 <= Len(child_pids) /\ place \in DOMAIN child_pids
    <2>1. \A a, f, c, l \in Nat :
            f + 1 <= c /\ a + c <= l => a + f + 1 \in Nat \ {0} /\ a + f + 1 <= l /\ a + f + 1 \in 1 .. l
      OBVIOUS
    <2>2. Len(child_pids) \in Nat /\ DOMAIN child_pids = 1 .. Len(child_pids)
      BY <1>0
    <2> QED
      BY <1>0, <1>1, <1>2, <1>3, <2>1, <2>2, Zenon
  <1>5. more \in Seq(Nat) /\ Len(more) = total_children
    BY <1>0, <1>1, <1>4
  <1>6. ASSUME NEW j \in DOMAIN sample, j # i PROVE Slice(sample, j, child_start[j], next[j], more, at)
    <2>1. next[j] = fill[j] /\ fill[j] \in Nat /\ child_count[j] \in Nat /\ child_start[j] \in Nat
      BY <1>0, <1>6
    <2>2. fill[j] <= child_count[j]
      <3>1. fill[j] = Cardinality(KidsTo(sample, j, at - 1)) /\ child_count[j] = Cardinality(KidsTo(sample, j, Len(sample)))
        BY <1>0 DEF CountedTo, PlacedTo, Slice
      <3>2. sample[at].ppid # sample[j].pid
        BY <1>0, <1>6, OneIndex
      <3>3. /\ KidsTo(sample, j, at) = KidsTo(sample, j, at - 1)
            /\ Cardinality(KidsTo(sample, j, at)) <= Cardinality(KidsTo(sample, j, Len(sample)))
        BY <1>0, <3>2, KidsGrow, Zenon
      <3> QED
        BY <1>0, <3>1, <3>3, Zenon
    <2>3. place \notin child_start[j] + 1 .. child_start[j] + fill[j]
      <3>1. i \in Nat /\ j \in Nat
        BY <1>0, EntryAt
      <3>2. child_start[i] + child_count[i] <= child_start[j] \/ child_start[j] + child_count[j] <= child_start[i]
        <4>1. i < j \/ j < i
          BY <1>0, <1>6, <3>1
        <4> QED
          BY <1>0, <1>1, <4>1 DEF SlicedTo
      <3> QED
        BY <1>0, <1>1, <1>2, <2>1, <2>2, <3>2, Apart, Zenon
    <2>4. sample[j].pid # sample[at].ppid
      BY <1>0, <1>6, OneIndex
    <2>5. Slice(sample, j, child_start[j], fill[j], child_pids, at - 1)
      BY <1>0 DEF PlacedTo
    <2>6. more = [child_pids EXCEPT ![place] = sample[at].pid]
      OBVIOUS
    <2>7. fill[j] \in Nat /\ child_start[j] \in Nat /\ place \in Nat /\ child_pids \in Seq(Nat)
      BY <1>0, <1>4, <2>1
    <2> HIDE DEF place
    <2>8. Slice(sample, j, child_start[j], fill[j], more, at)
      BY <2>3, <2>4, <2>5, <2>6, <2>7, SliceStays
    <2> QED
      BY <2>1, <2>8
  <1>7. Slice(sample, i, child_start[i], next[i], more, at)
    <2>1. next[i] = fill[i] + 1
      BY <1>0
    <2>2. Slice(sample, i, child_start[i], fill[i], child_pids, at - 1)
      BY <1>0 DEF PlacedTo
    <2>3. Slice(sample, i, child_start[i], fill[i] + 1, more, at)
      BY <1>0, <1>1, <1>4, <2>2, SliceGrows
    <2> QED
      BY <1>0, <2>1, <2>3
  <1> HIDE DEF place
  <1>8. PlacedTo(sample, child_start, next, more, at)
    BY <1>0, <1>6, <1>7 DEF PlacedTo
  <1> QED
    BY <1>0, <1>4, <1>5, <1>8 DEF place

(* The passes begin with empty arrays.                                     *)
LEMMA BuildAllocate ==
    ASSUME SweepInv, BuildInv, Allocate
    PROVE  BuildInv'
  <1>1. /\ pc = "read" /\ child_count' = Zeroes /\ child_start' = Zeroes /\ fill' = Zeroes
        /\ UNCHANGED <<sample, total_children, child_pids, roots, stack, prefix, rows>>
        /\ pc' \in (IF sample = <<>> THEN {"draw"} ELSE {"count", "failed"}) /\ at' = 1
    BY DEF Allocate, window
  <1>2. roots = <<>> /\ child_pids = <<>> /\ total_children = 0
        /\ stack = <<>> /\ prefix = <<>> /\ rows = <<>>
    BY <1>1 DEF BuildInv
  <1>3. Len(sample) \in Nat /\ DOMAIN sample = 1 .. Len(sample)
    BY SampleOrdered, EntryAt
  <1>4. Arrays' /\ NoFill'
    BY <1>1 DEF Arrays, NoFill, Zeroes
  <1>5. CountedTo(sample, Zeroes, 0) /\ RootsTo(sample, <<>>, 0)
    BY KidsNone DEF CountedTo, RootsTo, Zeroes, Increasing
  <1>6. Counted(0)'
    BY <1>1, <1>2, <1>5 DEF Counted
  <1>7. CASE sample = <<>>
    <2>1. Len(sample) = 0 /\ DOMAIN sample = {}
      BY <1>7
    <2>2. Counted(Len(sample))' /\ Sliced(Len(sample))' /\ Placed(Len(sample))'
      BY <1>1, <1>2, <1>6, <2>1 DEF Counted, Sliced, SlicedTo, Placed, PlacedTo
    <2>3. Built'
      BY <1>4, <2>2 DEF Built
    <2>4. pc' = "draw"
      BY <1>1, <1>7
    <2> QED
      BY <1>1, <1>2, <2>1, <2>3, <2>4 DEF BuildInv
  <1>8. CASE sample # <<>>
    <2>1. Len(sample) # 0
      BY <1>8 DEF SweepInv, Swept
    <2>2. 1 \in DOMAIN sample /\ Len(<<>>) <= Len(sample)
      BY <1>3, <2>1
    <2>3. pc' \in {"count", "failed"} /\ at' - 1 = 0
      BY <1>1, <1>8
    <2>4. Counted(at - 1)'
      BY <1>6, <2>3 DEF Counted
    <2> QED
      BY <1>1, <1>2, <1>4, <2>2, <2>3, <2>4 DEF BuildInv
  <1> QED
    BY <1>7, <1>8

(* First pass.                                                             *)
LEMMA BuildCount ==
    ASSUME SweepInv, BuildInv, Count
    PROVE  BuildInv'
  <1> DEFINE ppid == sample[at].ppid
  <1>1. /\ pc = "count" /\ Advance("offset")
        /\ UNCHANGED <<sample, child_start, total_children, fill, stack, prefix, rows>>
    BY DEF Count, window
  <1>2. /\ Ordered(sample) /\ at \in DOMAIN sample /\ Arrays /\ NoFill /\ total_children = 0
        /\ CountedTo(sample, child_count, at - 1) /\ RootsTo(sample, roots, at - 1)
        /\ stack = <<>> /\ prefix = <<>> /\ rows = <<>>
    BY <1>1, SampleOrdered DEF BuildInv, Counted
  <1>3. /\ child_count' \in [DOMAIN sample -> Nat]
        /\ CountedTo(sample, child_count', at) /\ RootsTo(sample, roots', at)
    <2>1. CASE ppid \in PidsOf(sample)
      <3>1. child_count' = [child_count EXCEPT ![IndexOf(ppid)] = @ + 1] /\ roots' = roots
        BY <2>1 DEF Count
      <3>2. IndexOf(ppid) \in DOMAIN sample /\ sample[IndexOf(ppid)].pid = ppid
        BY <2>1, Found
      <3>3. child_count \in [DOMAIN sample -> Nat]
        BY <1>2 DEF Arrays
      <3>4. child_count' \in [DOMAIN sample -> Nat]
        BY <3>1, <3>2, <3>3
      <3>5. ASSUME NEW i \in DOMAIN sample, sample[i].pid = sample[at].ppid
            PROVE  /\ CountedTo(sample, [child_count EXCEPT ![i] = @ + 1], at)
                   /\ RootsTo(sample, roots, at)
        BY <1>2, <3>3, <3>5, CountChild
      <3> QED
        BY <3>1, <3>2, <3>4, <3>5
    <2>2. CASE ppid \notin PidsOf(sample)
      <3>1. child_count' = child_count /\ roots' = Append(roots, sample[at].pid)
        BY <2>2 DEF Count
      <3>2. child_count \in [DOMAIN sample -> Nat]
        BY <1>2 DEF Arrays
      <3> QED
        BY <1>2, <2>2, <3>1, <3>2, CountRoot
    <2> QED
      BY <2>1, <2>2
  <1>4. Arrays' /\ NoFill' /\ total_children' = 0
    BY <1>1, <1>2, <1>3 DEF Arrays, NoFill
  <1>5. Len(roots') <= Len(sample') /\ Len(sample) \in Nat /\ at \in Nat
    <2>1. Len(roots') \in Nat /\ Len(roots') <= at
      BY <1>3 DEF RootsTo
    <2>2. at \in Nat /\ Len(sample) \in Nat /\ at <= Len(sample)
      BY <1>2, EntryAt
    <2> QED
      BY <1>1, <2>1, <2>2
  <1>6. CASE at' \in DOMAIN sample /\ at' - 1 = at /\ pc' = pc
    <2>1. Counted(at - 1)'
      BY <1>1, <1>3, <1>6 DEF Counted
    <2> QED
      BY <1>1, <1>2, <1>4, <1>5, <1>6, <2>1 DEF BuildInv
  <1>7. CASE at' = 1 /\ pc' = "offset" /\ at = Len(sample) /\ at' \in DOMAIN sample
    <2>1. Counted(Len(sample))'
      BY <1>1, <1>3, <1>7 DEF Counted
    <2>2. at' - 1 = 0
      BY <1>7
    <2>3. Sliced(at - 1)'
      BY <2>2 DEF Sliced, SlicedTo
    <2> QED
      BY <1>1, <1>2, <1>4, <1>5, <1>7, <2>1, <2>3 DEF BuildInv
  <1> QED
    BY <1>1, <1>2, <1>6, <1>7, LoopStep

(* The counts become offsets.                                              *)
LEMMA BuildOffset ==
    ASSUME SweepInv, BuildInv, Offset
    PROVE  BuildInv'
  <1>1. /\ pc = "offset" /\ Advance("array")
        /\ child_start' = [child_start EXCEPT ![at] = total_children]
        /\ total_children' = total_children + child_count[at]
        /\ UNCHANGED <<sample, child_count, child_pids, roots, fill, stack, prefix, rows>>
    BY DEF Offset, window
  <1>2. /\ at \in DOMAIN sample /\ Arrays /\ NoFill /\ total_children \in Nat
        /\ Counted(Len(sample)) /\ Sliced(at - 1) /\ Len(roots) <= Len(sample)
        /\ stack = <<>> /\ prefix = <<>> /\ rows = <<>>
    BY <1>1 DEF BuildInv
  <1>3. Len(sample) \in Nat /\ DOMAIN sample = 1 .. Len(sample)
    BY SampleOrdered, EntryAt
  <1>4. SlicedTo(child_start', child_count, total_children', at)
    BY <1>1, <1>2, <1>3, SliceBegins DEF Arrays, Sliced
  <1>5. Arrays' /\ NoFill' /\ total_children' \in Nat
    <2>1. child_count[at] \in Nat
      BY <1>2 DEF Arrays
    <2>2. child_start' \in [DOMAIN sample -> Nat]
      BY <1>1, <1>2 DEF Arrays
    <2> QED
      BY <1>1, <1>2, <2>1, <2>2 DEF Arrays, NoFill
  <1>6. Counted(Len(sample))'
    BY <1>1, <1>2 DEF Counted
  <1>7. CASE at' \in DOMAIN sample /\ at' - 1 = at /\ pc' = pc
    <2>1. Sliced(at - 1)'
      BY <1>1, <1>4, <1>7 DEF Sliced
    <2> QED
      BY <1>1, <1>2, <1>5, <1>6, <1>7, <2>1 DEF BuildInv
  <1>8. CASE at' = 1 /\ pc' = "array" /\ at = Len(sample) /\ at' \in DOMAIN sample
    <2>1. Sliced(Len(sample))'
      BY <1>1, <1>4, <1>8 DEF Sliced
    <2> QED
      BY <1>1, <1>2, <1>5, <1>6, <1>8, <2>1 DEF BuildInv
  <1> QED
    BY <1>1, <1>2, <1>7, <1>8, LoopStep

(* The array of the children.                                              *)
LEMMA BuildAllocateChildren ==
    ASSUME SweepInv, BuildInv, AllocateChildren
    PROVE  BuildInv'
  <1>1. /\ pc = "array" /\ pc' \in {"place", "failed"}
        /\ child_pids' = [k \in 1 .. total_children |-> 0]
        /\ UNCHANGED <<sample, child_count, child_start, total_children, roots, fill>>
        /\ UNCHANGED <<stack, prefix, rows, at>>
    <2>1. pc' \in (IF total_children = 0 THEN {"place"} ELSE {"place", "failed"})
      BY DEF AllocateChildren
    <2>2. pc' \in {"place", "failed"}
      BY <2>1
    <2> QED
      BY <2>2 DEF AllocateChildren, window
  <1>2. /\ 1 \in DOMAIN sample /\ at = 1 /\ Arrays /\ NoFill /\ total_children \in Nat
        /\ Counted(Len(sample)) /\ Sliced(Len(sample)) /\ Len(roots) <= Len(sample)
        /\ stack = <<>> /\ prefix = <<>> /\ rows = <<>>
    BY <1>1 DEF BuildInv
  <1>3. child_pids' \in Seq(Nat) /\ Len(child_pids') = total_children
    BY <1>1, <1>2
  <1>4. PlacedTo(sample, child_start, fill, child_pids', 0)
    BY <1>2, KidsNone DEF PlacedTo, Slice, NoFill
  <1>5. at' - 1 = 0
    BY <1>1, <1>2
  <1>6. Placed(at - 1)'
    BY <1>1, <1>3, <1>4, <1>5 DEF Placed
  <1>7. Arrays' /\ Counted(Len(sample))' /\ Sliced(Len(sample))'
    BY <1>1, <1>2 DEF Arrays, Counted, Sliced
  <1> QED
    BY <1>1, <1>2, <1>6, <1>7 DEF BuildInv

(* Second pass.                                                            *)
LEMMA BuildPlace ==
    ASSUME SweepInv, BuildInv, Place
    PROVE  BuildInv'
  <1> DEFINE ppid == sample[at].ppid
  <1>1. /\ pc = "place" /\ Advance("late")
        /\ UNCHANGED <<sample, child_count, child_start, total_children, roots, stack, prefix, rows>>
    BY DEF Place, window
  <1>2. /\ Ordered(sample) /\ at \in DOMAIN sample /\ Arrays /\ total_children \in Nat
        /\ Counted(Len(sample)) /\ Sliced(Len(sample)) /\ Placed(at - 1)
        /\ Len(roots) <= Len(sample) /\ stack = <<>> /\ prefix = <<>> /\ rows = <<>>
    BY <1>1, SampleOrdered DEF BuildInv
  <1>3. /\ fill' \in [DOMAIN sample -> Nat]
        /\ child_pids' \in Seq(Nat) /\ Len(child_pids') = total_children
        /\ PlacedTo(sample, child_start, fill', child_pids', at)
    <2>1. CASE ppid \in PidsOf(sample)
      <3> DEFINE i == IndexOf(ppid)
      <3>1. /\ child_pids' = [child_pids EXCEPT ![child_start[i] + fill[i] + 1] = sample[at].pid]
            /\ fill' = [fill EXCEPT ![i] = @ + 1]
        BY <2>1 DEF Place
      <3>2. i \in DOMAIN sample /\ sample[i].pid = ppid
        BY <2>1, Found
      <3> HIDE DEF i
      <3>3. fill' \in [DOMAIN sample -> Nat]
        BY <1>2, <3>1, <3>2 DEF Arrays
      <3>5. /\ child_pids' \in Seq(Nat) /\ Len(child_pids') = total_children
            /\ PlacedTo(sample, child_start, fill', child_pids', at)
        BY <1>2, <3>1, <3>2, PlaceChild
      <3> QED
        BY <3>3, <3>5
    <2>2. CASE ppid \notin PidsOf(sample)
      <3>1. child_pids' = child_pids /\ fill' = fill
        BY <2>2 DEF Place
      <3>2. PlacedTo(sample, child_start, fill, child_pids, at - 1)
        BY <1>2 DEF Placed
      <3> QED
        BY <1>2, <2>2, <3>1, <3>2, PlaceNobody DEF Placed, Arrays
    <2> QED
      BY <2>1, <2>2
  <1>4. Arrays' /\ Counted(Len(sample))' /\ Sliced(Len(sample))'
    BY <1>1, <1>2, <1>3 DEF Arrays, Counted, Sliced
  <1>5. CASE at' \in DOMAIN sample /\ at' - 1 = at /\ pc' = pc
    <2>1. Placed(at - 1)'
      BY <1>1, <1>3, <1>5 DEF Placed
    <2> QED
      BY <1>1, <1>2, <1>4, <1>5, <2>1 DEF BuildInv
  <1>6. CASE at' = 1 /\ pc' = "late" /\ at = Len(sample) /\ at' \in DOMAIN sample
    <2>1. Placed(Len(sample))'
      BY <1>1, <1>3, <1>6 DEF Placed
    <2>2. Built'
      BY <1>4, <2>1 DEF Built
    <2> QED
      BY <1>1, <1>2, <1>6, <2>2 DEF BuildInv
  <1> QED
    BY <1>1, <1>2, <1>5, <1>6, LoopStep

(* Third pass: on a kernel where nobody is its own parent it adds nothing, *)
(* a process without a parent is a root since the first pass.              *)
LEMMA NobodyIsLate ==
    ASSUME SweepInv, Built, NEW i \in DOMAIN sample
    PROVE  ~IsLateRoot(i)
  <1> SUFFICES ASSUME IsLateRoot(i) PROVE FALSE
    OBVIOUS
  <1>1. sample[i].ppid # sample[i].pid
    BY DEF SweepInv, Swept
  <1>2. sample[i].ppid = 0 /\ sample[i].pid \notin Range(roots)
    BY <1>1 DEF IsLateRoot
  <1>3. 0 \notin PidsOf(sample)
    <2>1. \A j \in DOMAIN sample : sample[j].pid \in Pid
      BY SampleOrdered, EntryAt
    <2> QED
      BY <2>1 DEF PidsOf, Pid
  <1>4. i \in 1 .. Len(sample)
    BY SampleOrdered, EntryAt
  <1>5. \E r \in DOMAIN roots : roots[r] = sample[i].pid
    BY <1>2, <1>3, <1>4 DEF Built, Counted, RootsTo
  <1> QED
    BY <1>2, <1>5 DEF Range

LEMMA BuildLateRoot ==
    ASSUME SweepInv, BuildInv, LateRoot
    PROVE  BuildInv'
  <1>1. /\ pc = "late" /\ Advance("draw")
        /\ UNCHANGED <<sample, child_count, child_start, total_children, child_pids, fill>>
        /\ UNCHANGED <<stack, prefix, rows>>
    BY DEF LateRoot, window
  <1>2. Built /\ at \in DOMAIN sample
    BY <1>1 DEF BuildInv
  <1>3. roots' = roots
    BY <1>2, NobodyIsLate DEF LateRoot
  <1>4. Built'
    BY <1>1, <1>2, <1>3 DEF Built, Arrays, Counted, Sliced, Placed
  <1>5. pc' \in {"late", "draw"} /\ (pc' = "late" => at' \in DOMAIN sample)
    BY <1>1, <1>2, LoopStep
  <1> QED
    BY <1>1, <1>3, <1>4, <1>5 DEF BuildInv

(* The kernel, the sweep and the drawing leave the tree as it is.          *)
LEMMA BuildStep == SweepInv /\ BuildInv /\ [Next]_vars => BuildInv'
  <1> SUFFICES ASSUME SweepInv, BuildInv, [Next]_vars PROVE BuildInv'
    OBVIOUS
  <1>1. ASSUME pc \in {"idle", "read"}, pc' \in {"idle", "read"}, UNCHANGED <<tree, window>>
        PROVE  BuildInv'
    <2>1. /\ roots = <<>> /\ child_pids = <<>> /\ total_children = 0
          /\ stack = <<>> /\ prefix = <<>> /\ rows = <<>>
      BY <1>1 DEF BuildInv
    <2>2. SweepInv'
      BY SweepStep
    <2>3. Len(sample') \in Nat /\ Len(<<>>) = 0
      BY <2>2 DEF SweepInv, Swept
    <2>4. /\ roots' = <<>> /\ child_pids' = <<>> /\ total_children' = 0
          /\ stack' = <<>> /\ prefix' = <<>> /\ rows' = <<>>
      BY <1>1, <2>1 DEF tree, window
    <2>5. Len(roots') <= Len(sample') /\ total_children' \in Nat
      BY <2>3, <2>4
    <2> QED
      BY <1>1, <2>4, <2>5 DEF BuildInv
  <1>2. ASSUME NEW p \in Pid, NEW q \in Pid, Fork(q, p) PROVE BuildInv'
    BY <1>1, <1>2 DEF Fork
  <1>3. ASSUME NEW p \in Pid, Exit(p) PROVE BuildInv'
    BY <1>1, <1>3 DEF Exit
  <1>4. CASE ListPids
    BY <1>1, <1>4 DEF ListPids
  <1>5. CASE Read
    BY <1>1, <1>5 DEF Read
  <1>6. CASE Draw
    <2>1. UNCHANGED <<sample, tree>> /\ pc = "draw" /\ pc' \in {"draw", "done"}
      BY <1>6 DEF Draw, NextRoot, NextChild, Return, Finish
    <2>2. UNCHANGED <<child_count, child_start, total_children, child_pids, roots, fill>>
      BY <2>1 DEF tree
    <2>3. Built'
      BY <2>1, <2>2 DEF BuildInv, Built, Arrays, Counted, Sliced, Placed
    <2> QED
      BY <2>1, <2>2, <2>3 DEF BuildInv
  <1>7. CASE Build
    BY <1>7, BuildAllocate, BuildCount, BuildOffset, BuildAllocateChildren, BuildPlace, BuildLateRoot
       DEF Build
  <1>8. CASE UNCHANGED vars
    <2>1. UNCHANGED <<sample, child_count, child_start, total_children, child_pids, roots, fill>>
          /\ UNCHANGED <<stack, prefix, rows, pc, at>>
      BY <1>8 DEF vars, tree, window
    <2> QED
      BY <2>1 DEF BuildInv, Built, Arrays, Counted, Sliced, Placed, NoFill
  <1> QED
    BY <1>2, <1>3, <1>4, <1>5, <1>6, <1>7, <1>8 DEF Next

(* Before the first sweep there is no tree.                                *)
LEMMA BuildInit == Init => BuildInv
  BY DEF Init, BuildInv

----------------------------------------------------------------------------
(* The tree that has been built.                                           *)

(* Every process is at its index.                                          *)
LEMMA Indexed ==
    ASSUME SweepInv, NEW j \in DOMAIN sample
    PROVE  /\ sample[j].pid \in PidsOf(sample) /\ IndexOf(sample[j].pid) = j
           /\ PpidOf(sample[j].pid) = sample[j].ppid
  <1>1. sample[j].pid \in PidsOf(sample)
    BY DEF PidsOf
  <1>2. /\ IndexOf(sample[j].pid) \in DOMAIN sample
        /\ sample[IndexOf(sample[j].pid)].pid = sample[j].pid
    BY <1>1, Found
  <1>3. IndexOf(sample[j].pid) = j
    BY <1>2, SampleOrdered, OneIndex
  <1> QED
    BY <1>1, <1>3 DEF PpidOf

(* The slice of a process holds its children in PID order.                 *)
LEMMA ChildrenAre ==
    ASSUME SweepInv, Built, NEW i \in DOMAIN sample
    PROVE  LET kids == Children(sample[i].pid)
           IN  /\ kids \in Seq(Nat) /\ Increasing(kids)
               /\ \A x \in DOMAIN kids :
                     \E j \in DOMAIN sample : kids[x] = sample[j].pid /\ sample[j].ppid = sample[i].pid
               /\ \A j \in DOMAIN sample :
                     sample[j].ppid = sample[i].pid => \E x \in DOMAIN kids : kids[x] = sample[j].pid
  <1> DEFINE start == child_start[i]
             n == child_count[i]
             all == Len(sample)
             kids == SubSeq(child_pids, start + 1, start + n)
  <1>1. /\ all \in Nat /\ DOMAIN sample = 1 .. all /\ start \in Nat /\ n \in Nat
        /\ child_pids \in Seq(Nat)
    BY SampleOrdered, EntryAt DEF Built, Arrays, Placed
  <1>2. start + n <= Len(child_pids)
    BY <1>1 DEF Built, Sliced, SlicedTo, Placed
  <1>3. n = fill[i] /\ Slice(sample, i, start, n, child_pids, all)
    <2>1. Slice(sample, i, child_start[i], fill[i], child_pids, Len(sample))
      BY DEF Built, Placed, PlacedTo
    <2>2. child_count[i] = Cardinality(KidsTo(sample, i, Len(sample)))
      BY DEF Built, Counted, CountedTo
    <2>3. fill[i] = Cardinality(KidsTo(sample, i, Len(sample)))
      BY <2>1 DEF Slice
    <2> QED
      BY <2>1, <2>2, <2>3
  <1>4. Children(sample[i].pid) = kids
    BY Indexed DEF Children
  <1> HIDE DEF start, n, all
  <1>5. /\ kids \in Seq(Nat) /\ DOMAIN kids = 1 .. n
        /\ \A x \in 1 .. n : kids[x] = child_pids[start + x]
    BY <1>1, <1>2
  <1> HIDE DEF kids
  <1>6. Increasing(kids)
    BY <1>3, <1>5 DEF Increasing, Slice
  <1>7. ASSUME NEW x \in DOMAIN kids
        PROVE  \E j \in DOMAIN sample : kids[x] = sample[j].pid /\ sample[j].ppid = sample[i].pid
    <2>1. PICK j \in KidsTo(sample, i, all) : kids[x] = sample[j].pid
      BY <1>3, <1>5, <1>7 DEF Slice
    <2> QED
      BY <1>1, <2>1 DEF KidsTo
  <1>8. ASSUME NEW j \in DOMAIN sample, sample[j].ppid = sample[i].pid
        PROVE  \E x \in DOMAIN kids : kids[x] = sample[j].pid
    <2>1. j \in KidsTo(sample, i, all)
      BY <1>1, <1>8 DEF KidsTo
    <2> QED
      BY <1>3, <1>5, <2>1 DEF Slice
  <1> QED
    BY <1>4, <1>5, <1>6, <1>7, <1>8

(* The children in terms of PIDs.                                          *)
LEMMA ChildrenOf ==
    ASSUME SweepInv, Built, NEW p \in PidsOf(sample)
    PROVE  /\ Children(p) \in Seq(Nat) /\ Increasing(Children(p))
           /\ Range(Children(p)) = {q \in PidsOf(sample) : PpidOf(q) = p}
  <1>1. PICK i \in DOMAIN sample : p = sample[i].pid
    BY DEF PidsOf
  <1> DEFINE kids == Children(p)
  <1>2. /\ kids \in Seq(Nat) /\ Increasing(kids)
        /\ \A x \in DOMAIN kids :
              \E j \in DOMAIN sample : kids[x] = sample[j].pid /\ sample[j].ppid = p
        /\ \A j \in DOMAIN sample :
              sample[j].ppid = p => \E x \in DOMAIN kids : kids[x] = sample[j].pid
    BY <1>1, ChildrenAre
  <1> HIDE DEF kids
  <1>3. ASSUME NEW q, q \in Range(kids) PROVE q \in PidsOf(sample) /\ PpidOf(q) = p
    <2>1. PICK x \in DOMAIN kids : q = kids[x]
      BY <1>3 DEF Range
    <2>2. PICK j \in DOMAIN sample : q = sample[j].pid /\ sample[j].ppid = p
      BY <1>2, <2>1
    <2> QED
      BY <2>2, Indexed
  <1>4. ASSUME NEW q \in PidsOf(sample), PpidOf(q) = p PROVE q \in Range(kids)
    <2>1. PICK j \in DOMAIN sample : q = sample[j].pid
      BY DEF PidsOf
    <2>2. sample[j].ppid = p
      BY <1>4, <2>1, Indexed
    <2>3. PICK x \in DOMAIN kids : kids[x] = q
      BY <1>2, <2>1, <2>2
    <2> QED
      BY <2>3 DEF Range
  <1> QED
    BY <1>2, <1>3, <1>4 DEF kids

(* The roots are the processes whose parent is not in the sample.          *)
LEMMA RootsAre ==
    ASSUME SweepInv, Built
    PROVE  /\ roots \in Seq(Pid) /\ Increasing(roots)
           /\ Range(roots) = {p \in PidsOf(sample) : PpidOf(p) \notin PidsOf(sample)}
  <1>1. DOMAIN sample = 1 .. Len(sample)
    BY SampleOrdered, EntryAt
  <1>2. /\ roots \in Seq(Pid) /\ Increasing(roots)
        /\ \A r \in DOMAIN roots :
              \E j \in DOMAIN sample : roots[r] = sample[j].pid /\ sample[j].ppid \notin PidsOf(sample)
        /\ \A j \in DOMAIN sample :
              sample[j].ppid \notin PidsOf(sample) => \E r \in DOMAIN roots : roots[r] = sample[j].pid
    BY <1>1 DEF Built, Counted, RootsTo
  <1>3. ASSUME NEW p, p \in Range(roots)
        PROVE  p \in PidsOf(sample) /\ PpidOf(p) \notin PidsOf(sample)
    <2>1. PICK r \in DOMAIN roots : p = roots[r]
      BY <1>3 DEF Range
    <2>2. PICK j \in DOMAIN sample : p = sample[j].pid /\ sample[j].ppid \notin PidsOf(sample)
      BY <1>2, <2>1
    <2> QED
      BY <2>2, Indexed
  <1>4. ASSUME NEW p \in PidsOf(sample), PpidOf(p) \notin PidsOf(sample) PROVE p \in Range(roots)
    <2>1. PICK j \in DOMAIN sample : p = sample[j].pid
      BY DEF PidsOf
    <2>2. sample[j].ppid \notin PidsOf(sample)
      BY <1>4, <2>1, Indexed
    <2>3. PICK r \in DOMAIN roots : roots[r] = p
      BY <1>2, <2>1, <2>2
    <2> QED
      BY <2>3 DEF Range
  <1> QED
    BY <1>2, <1>3, <1>4

(* The tree that is built is the one that the PPIDs describe.              *)
LEMMA TreeFacts == SweepInv /\ BuildInv => TreeIsRight
  <1> SUFFICES ASSUME SweepInv, BuildInv, pc \in {"draw", "done"}
               PROVE  /\ Range(roots) = {p \in PidsOf(sample) : PpidOf(p) \notin PidsOf(sample)}
                      /\ \A p \in PidsOf(sample) :
                            /\ Increasing(Children(p))
                            /\ Range(Children(p)) = {q \in PidsOf(sample) : PpidOf(q) = p}
    BY DEF TreeIsRight
  <1>1. Built
    BY DEF BuildInv
  <1> QED
    BY <1>1, ChildrenOf, RootsAre

(* Whatever happens while /proc is read, and whoever forks or exits: the   *)
(* tree that km_process_tree_build() builds is the one that the PPIDs of   *)
(* the sample describe, children in PID order, nobody missing or twice.    *)
THEOREM TreeRight == Spec => []TreeIsRight
  <1>1. Init => SweepInv /\ BuildInv
    BY SweepInit, BuildInit
  <1>2. SweepInv /\ BuildInv /\ [Next]_vars => (SweepInv /\ BuildInv)'
    BY SweepStep, BuildStep
  <1> QED
    BY <1>1, <1>2, TreeFacts, PTL DEF Spec

----------------------------------------------------------------------------
(* The drawing: the window and the buffer of the prefix.                   *)

Row   == [pid : Nat, depth : Nat, prefix : Seq(BOOLEAN)]
Frame == [pid : Nat, depth : Nat, len : Nat, kid : Nat \ {0}]

\* The m-th frame is that of a call m - 1 levels down, whose prefix is a part
\* of the present one.
WindowInv ==
    /\ term_height \in Nat
    /\ rows \in Seq(Row) /\ stack \in Seq(Frame) /\ prefix \in Seq(BOOLEAN)
    /\ \A i \in DOMAIN rows : rows[i].pid \in PidsOf(sample) /\ i + 1 < term_height - 8
    /\ \A m \in DOMAIN stack :
          /\ stack[m].pid \in PidsOf(sample) /\ stack[m].depth = m - 1
          /\ stack[m].len <= Len(prefix)
          /\ \A l \in DOMAIN stack : l <= m => stack[l].len <= stack[m].len
    /\ Bytes(prefix) < PrefixMax

(* A longer prefix has no fewer bytes.                                     *)
LEMMA BytesGrow ==
    ASSUME NEW s \in Seq(BOOLEAN), NEW t \in Seq(BOOLEAN), Len(s) <= Len(t),
           \A i \in 1 .. Len(s) : s[i] = t[i]
    PROVE  Bytes(s) \in Nat /\ Bytes(t) \in Nat /\ Bytes(s) <= Bytes(t)
  <1> DEFINE bars(u) == {i \in DOMAIN u : u[i]}
  <1>1. /\ Len(s) \in Nat /\ Len(t) \in Nat
        /\ DOMAIN s = 1 .. Len(s) /\ DOMAIN t = 1 .. Len(t)
    OBVIOUS
  <1>2. DOMAIN s \subseteq DOMAIN t
    BY <1>1
  <1>3. bars(s) \in SUBSET bars(t)
    BY <1>1, <1>2, Zenon
  <1>4. bars(t) \in SUBSET (1 .. Len(t))
    BY <1>1
  <1>5. IsFiniteSet(bars(t))
    <2>1. IsFiniteSet(1 .. Len(t))
      BY <1>1, FS_Interval
    <2> HIDE DEF bars
    <2> QED
      BY <1>4, <2>1, FS_Subset
  <1>6. IsFiniteSet(bars(s)) /\ Cardinality(bars(s)) <= Cardinality(bars(t))
    BY <1>3, <1>5, FS_Subset
  <1>7. Cardinality(bars(s)) \in Nat /\ Cardinality(bars(t)) \in Nat
    BY <1>5, <1>6, FS_CardinalityType
  <1>8. /\ Bytes(s) = 3 * Len(s) + 2 * Cardinality(bars(s))
        /\ Bytes(t) = 3 * Len(t) + 2 * Cardinality(bars(t))
    BY DEF Bytes
  <1> HIDE DEF bars
  <1> QED
    BY <1>1, <1>6, <1>7, <1>8

(* The empty prefix.                                                       *)
LEMMA BytesNone == Bytes(<<>>) = 0
  <1>1. {i \in DOMAIN <<>> : <<>>[i]} = {}
    OBVIOUS
  <1>2. Len(<<>>) = 0
    OBVIOUS
  <1> QED
    BY <1>1, <1>2, FS_EmptySet DEF Bytes

(* A prefix is only extended where there is room.                          *)
LEMMA ExtendedFits ==
    ASSUME prefix \in Seq(BOOLEAN), Bytes(prefix) < PrefixMax, NEW depth, NEW last \in BOOLEAN
    PROVE  /\ Extended(depth, last) \in Seq(BOOLEAN)
           /\ Bytes(Extended(depth, last)) < PrefixMax
           /\ Len(prefix) <= Len(Extended(depth, last))
           /\ \A i \in 1 .. Len(prefix) : Extended(depth, last)[i] = prefix[i]
  <1> DEFINE more == Append(prefix, ~last)
  <1>1. (~last) \in BOOLEAN
    OBVIOUS
  <1>2. /\ more \in Seq(BOOLEAN) /\ Len(prefix) \in Nat /\ Len(more) = Len(prefix) + 1
        /\ \A i \in 1 .. Len(prefix) : more[i] = prefix[i]
    BY <1>1
  <1>3. Extended(depth, last) = IF depth > 0 /\ Bytes(more) < PrefixMax THEN more ELSE prefix
    BY Zenon DEF Extended
  <1> HIDE DEF more
  <1>4. CASE depth > 0 /\ Bytes(more) < PrefixMax
    BY <1>2, <1>3, <1>4
  <1>5. CASE ~(depth > 0 /\ Bytes(more) < PrefixMax)
    BY <1>2, <1>3, <1>5
  <1> QED
    BY <1>4, <1>5

(* A call appends a row and, if there are children, a frame.               *)
LEMMA CallFacts ==
    ASSUME WindowInv, NEW p \in PidsOf(sample), p \in Nat, NEW depth \in Nat, NEW last \in BOOLEAN,
           NEW frames, frames \in Seq(Frame), Call(p, depth, last, frames)
    PROVE  /\ rows' \in Seq(Row) /\ Len(rows) \in Nat /\ Len(rows') = Len(rows) + 1
           /\ \A i \in 1 .. Len(rows) : rows'[i] = rows[i]
           /\ rows'[Len(rows) + 1] = [pid |-> p, depth |-> depth, prefix |-> prefix]
           /\ prefix' \in Seq(BOOLEAN) /\ Bytes(prefix') < PrefixMax /\ Len(prefix) <= Len(prefix')
           /\ \/ Children(p) = <<>> /\ stack' = frames /\ prefix' = prefix
              \/ /\ Children(p) # <<>> /\ prefix' = Extended(depth, last)
                 /\ stack' \in Seq(Frame) /\ Len(frames) \in Nat /\ Len(stack') = Len(frames) + 1
                 /\ \A m \in 1 .. Len(frames) : stack'[m] = frames[m]
                 /\ stack'[Len(frames) + 1]
                      = [pid |-> p, depth |-> depth, len |-> Len(prefix), kid |-> 1]
  <1> DEFINE row == [pid |-> p, depth |-> depth, prefix |-> prefix]
             frame == [pid |-> p, depth |-> depth, len |-> Len(prefix), kid |-> 1]
  <1>1. row \in Row
    BY DEF WindowInv, Row
  <1>2. frame \in Frame
    BY DEF WindowInv, Frame
  <1>3. rows' = Append(rows, row) /\ rows \in Seq(Row)
    BY DEF Call, WindowInv
  <1>4. \/ Children(p) = <<>> /\ stack' = frames /\ prefix' = prefix
        \/ Children(p) # <<>> /\ stack' = Append(frames, frame) /\ prefix' = Extended(depth, last)
    BY DEF Call
  <1> HIDE DEF row, frame
  <1>5. /\ rows' \in Seq(Row) /\ Len(rows) \in Nat /\ Len(rows') = Len(rows) + 1
        /\ \A i \in 1 .. Len(rows) : rows'[i] = rows[i]
        /\ rows'[Len(rows) + 1] = row
    BY <1>1, <1>3
  <1>6. /\ prefix \in Seq(BOOLEAN) /\ Bytes(prefix) < PrefixMax /\ Len(prefix) <= Len(prefix)
    BY DEF WindowInv
  <1>7. CASE Children(p) = <<>> /\ stack' = frames /\ prefix' = prefix
    BY <1>5, <1>6, <1>7 DEF row
  <1>8. CASE Children(p) # <<>> /\ stack' = Append(frames, frame) /\ prefix' = Extended(depth, last)
    <2>1. /\ stack' \in Seq(Frame) /\ Len(frames) \in Nat /\ Len(stack') = Len(frames) + 1
          /\ \A m \in 1 .. Len(frames) : stack'[m] = frames[m]
          /\ stack'[Len(frames) + 1] = frame
      BY <1>2, <1>8
    <2>2. prefix' \in Seq(BOOLEAN) /\ Bytes(prefix') < PrefixMax /\ Len(prefix) <= Len(prefix')
      BY <1>6, <1>8, ExtendedFits
    <2> QED
      BY <1>5, <1>8, <2>1, <2>2 DEF row, frame
  <1> QED
    BY <1>4, <1>7, <1>8

\* Two stacks of the same calls.
SameCalls(frames, others) ==
    /\ Len(frames) = Len(others)
    /\ \A m \in 1 .. Len(frames) :
          /\ frames[m].pid = others[m].pid /\ frames[m].depth = others[m].depth
          /\ frames[m].len = others[m].len

(* The frame of a call whose loop goes on.                                 *)
LEMMA NextKid ==
    ASSUME NEW f \in Frame
    PROVE  LET g == [f EXCEPT !.kid = @ + 1]
           IN  /\ g \in Frame /\ g.kid = f.kid + 1
               /\ g.pid = f.pid /\ g.depth = f.depth /\ g.len = f.len
  <1> DEFINE g == [f EXCEPT !.kid = @ + 1]
  <1>1. /\ f = [pid |-> f.pid, depth |-> f.depth, len |-> f.len, kid |-> f.kid]
        /\ f.pid \in Nat /\ f.depth \in Nat /\ f.len \in Nat /\ f.kid \in Nat \ {0}
    BY DEF Frame
  <1>2. g = [pid |-> f.pid, depth |-> f.depth, len |-> f.len, kid |-> f.kid + 1]
    BY <1>1
  <1>3. f.kid + 1 \in Nat \ {0}
    BY <1>1
  <1> HIDE DEF g
  <1> QED
    BY <1>1, <1>2, <1>3 DEF Frame, g

(* The loop of the innermost call goes on to its next child.               *)
LEMMA AdvancedFacts ==
    ASSUME stack \in Seq(Frame), stack # <<>>
    PROVE  /\ Advanced(stack) \in Seq(Frame) /\ SameCalls(Advanced(stack), stack)
           /\ Len(stack) \in Nat \ {0} /\ Len(Advanced(stack)) = Len(stack)
           /\ Advanced(stack)[Len(stack)].kid = stack[Len(stack)].kid + 1
           /\ \A m \in 1 .. Len(stack) : m # Len(stack) => Advanced(stack)[m] = stack[m]
  <1> DEFINE n == Len(stack)
             top == [stack[n] EXCEPT !.kid = @ + 1]
  <1>1. n \in Nat \ {0} /\ DOMAIN stack = 1 .. n /\ n \in DOMAIN stack /\ stack[n] \in Frame
    OBVIOUS
  <1>2. /\ top \in Frame /\ top.kid = stack[n].kid + 1
        /\ top.pid = stack[n].pid /\ top.depth = stack[n].depth /\ top.len = stack[n].len
    BY <1>1, NextKid
  <1>3. Advanced(stack) = [stack EXCEPT ![n] = top]
    BY DEF Advanced
  <1> HIDE DEF top
  <1>4. Advanced(stack) \in Seq(Frame) /\ Len(Advanced(stack)) = n
    BY <1>1, <1>2, <1>3
  <1>5. Advanced(stack)[n] = top
    BY <1>1, <1>3
  <1>6. \A m \in 1 .. n : m # n => Advanced(stack)[m] = stack[m]
    BY <1>1, <1>3
  <1>7. SameCalls(Advanced(stack), stack)
    BY <1>1, <1>2, <1>4, <1>5, <1>6 DEF SameCalls
  <1> QED
    BY <1>1, <1>2, <1>4, <1>5, <1>6, <1>7

(* What a sequence of frames holds.                                        *)
LEMMA FrameAt ==
    ASSUME NEW frames, frames \in Seq(Frame)
    PROVE  /\ Len(frames) \in Nat /\ DOMAIN frames = 1 .. Len(frames)
           /\ \A m \in DOMAIN frames :
                 /\ m \in Nat \ {0} /\ m <= Len(frames) /\ frames[m].pid \in Nat
                 /\ frames[m].depth \in Nat /\ frames[m].len \in Nat /\ frames[m].kid \in Nat \ {0}
  <1>1. \A f \in Frame : f.pid \in Nat /\ f.depth \in Nat /\ f.len \in Nat /\ f.kid \in Nat \ {0}
    BY DEF Frame
  <1>2. Len(frames) \in Nat /\ DOMAIN frames = 1 .. Len(frames)
        /\ \A m \in DOMAIN frames : frames[m] \in Frame
    OBVIOUS
  <1> QED
    BY <1>1, <1>2

(* A process of the sample has a number.                                   *)
LEMMA PidsAre == SweepInv => \A p \in PidsOf(sample) : p \in Nat /\ p \in Pid
  BY SampleOrdered, EntryAt DEF PidsOf

(* A call draws within the window and keeps the prefix in its buffer.      *)
LEMMA CallWindow ==
    ASSUME SweepInv, WindowInv, ~Full, NEW p \in PidsOf(sample), NEW last \in BOOLEAN,
           NEW frames, frames \in Seq(Frame), SameCalls(frames, stack),
           Call(p, Len(stack), last, frames), UNCHANGED <<sample, term_height>>
    PROVE  WindowInv'
  <1> DEFINE n == Len(rows)
             d == Len(stack)
             row == [pid |-> p, depth |-> d, prefix |-> prefix]
             frame == [pid |-> p, depth |-> d, len |-> Len(prefix), kid |-> 1]
  <1>1. d \in Nat /\ p \in Nat /\ term_height \in Nat /\ Len(prefix) \in Nat
    BY PidsAre DEF WindowInv
  <1>2. /\ rows' \in Seq(Row) /\ n \in Nat /\ Len(rows') = n + 1
        /\ \A i \in 1 .. n : rows'[i] = rows[i]
        /\ rows'[n + 1] = row
        /\ prefix' \in Seq(BOOLEAN) /\ Bytes(prefix') < PrefixMax /\ Len(prefix) <= Len(prefix')
        /\ \/ stack' = frames
           \/ /\ stack' \in Seq(Frame) /\ Len(frames) \in Nat /\ Len(stack') = Len(frames) + 1
              /\ \A m \in 1 .. Len(frames) : stack'[m] = frames[m]
              /\ stack'[Len(frames) + 1] = frame
    BY <1>1, CallFacts
  <1>3. n + 2 < term_height - 10
    BY <1>1, <1>2 DEF Full
  <1>4. \A i \in DOMAIN rows' : rows'[i].pid \in PidsOf(sample) /\ i + 1 < term_height - 8
    <2>1. DOMAIN rows' = 1 .. n + 1 /\ DOMAIN rows = 1 .. n
      BY <1>2 DEF WindowInv
    <2>2. row.pid = p
      OBVIOUS
    <2> HIDE DEF n, row
    <2>3. ASSUME NEW i \in 1 .. n + 1 PROVE i = n + 1 \/ i \in 1 .. n
      BY <1>2
    <2>4. n + 1 + 1 < term_height - 8
      BY <1>1, <1>2, <1>3
    <2> QED
      BY <1>2, <2>1, <2>2, <2>3, <2>4 DEF WindowInv
  <1>5. Len(prefix') \in Nat
    BY <1>2
  <1>6. /\ DOMAIN stack = 1 .. d /\ DOMAIN frames = 1 .. d /\ Len(frames) = d
        /\ \A m \in 1 .. d : /\ stack[m].pid \in PidsOf(sample) /\ stack[m].depth = m - 1
                             /\ stack[m].len \in Nat /\ stack[m].len <= Len(prefix)
                             /\ \A l \in 1 .. d : l <= m => stack[l].len <= stack[m].len
    BY FrameAt DEF WindowInv, SameCalls
  <1>7. \A m \in 1 .. d : /\ frames[m].pid \in PidsOf(sample) /\ frames[m].depth = m - 1
                          /\ frames[m].len \in Nat /\ frames[m].len <= Len(prefix)
                          /\ \A l \in 1 .. d : l <= m => frames[l].len <= frames[m].len
    BY <1>6 DEF SameCalls
  <1>8. \A m \in 1 .. d : frames[m].len <= Len(prefix')
    BY <1>1, <1>2, <1>5, <1>7
  <1>9. CASE stack' = frames
    <2>1. stack' \in Seq(Frame)
      BY <1>9
    <2>2. \A m \in DOMAIN stack' :
            /\ stack'[m].pid \in PidsOf(sample) /\ stack'[m].depth = m - 1
            /\ stack'[m].len <= Len(prefix')
            /\ \A l \in DOMAIN stack' : l <= m => stack'[l].len <= stack'[m].len
      BY <1>6, <1>7, <1>8, <1>9
    <2> QED
      BY <1>1, <1>2, <1>4, <2>1, <2>2 DEF WindowInv
  <1>10. CASE /\ stack' \in Seq(Frame) /\ Len(stack') = d + 1
              /\ \A m \in 1 .. d : stack'[m] = frames[m]
              /\ stack'[d + 1] = frame
    <2>1. DOMAIN stack' = 1 .. d + 1
      BY <1>10
    <2>2. frame.pid = p /\ frame.depth = d /\ frame.len = Len(prefix)
      OBVIOUS
    <2> HIDE DEF d, frame
    <2>3. d + 1 - 1 = d /\ \A m \in 1 .. d + 1 : m = d + 1 \/ m \in 1 .. d
      BY <1>1
    <2>4. \A m \in 1 .. d : ~(d + 1 <= m)
      BY <1>1
    <2>5. ASSUME NEW m \in 1 .. d + 1
          PROVE  /\ stack'[m].pid \in PidsOf(sample) /\ stack'[m].depth = m - 1
                 /\ stack'[m].len <= Len(prefix')
                 /\ \A l \in 1 .. d + 1 : l <= m => stack'[l].len <= stack'[m].len
      <3>1. CASE m = d + 1
        <4>1. stack'[m].len = Len(prefix) /\ Len(prefix) <= Len(prefix)
          BY <1>1, <1>10, <2>2, <3>1
        <4>2. \A l \in 1 .. d + 1 : stack'[l].len <= stack'[m].len
          BY <1>7, <1>10, <2>3, <3>1, <4>1
        <4>3. stack'[m].pid \in PidsOf(sample) /\ stack'[m].depth = d
          BY <1>10, <2>2, <3>1
        <4>4. m - 1 = d
          BY <1>1, <2>3, <3>1
        <4>5. stack'[m].len <= Len(prefix')
          BY <1>2, <4>1
        <4> QED
          BY <4>2, <4>3, <4>4, <4>5
      <3>2. CASE m \in 1 .. d
        BY <1>7, <1>8, <1>10, <2>3, <2>4, <3>2
      <3> QED
        BY <2>3, <3>1, <3>2
    <2> QED
      BY <1>1, <1>2, <1>4, <1>10, <2>1, <2>5 DEF WindowInv
  <1> QED
    BY <1>2, <1>6, <1>9, <1>10
(* While the sample and the tree stay, so do the parents and children.     *)
LEMMA Fixed ==
    ASSUME UNCHANGED <<sample, tree>>
    PROVE  /\ PidsOf(sample)' = PidsOf(sample)
           /\ \A p : /\ PpidOf(p)' = PpidOf(p) /\ Children(p)' = Children(p)
                     /\ Continues(p)' = Continues(p)
  <1>1. UNCHANGED <<sample, child_start, child_count, child_pids>>
    BY DEF tree
  <1>2. \A p : IndexOf(p)' = IndexOf(p)
    BY <1>1 DEF IndexOf
  <1>3. \A p : PpidOf(p)' = PpidOf(p) /\ Children(p)' = Children(p)
    BY <1>1, <1>2 DEF PpidOf, Children
  <1> QED
    BY <1>1, <1>3 DEF Continues

\* A call draws p, a root or a child of the innermost call that is in its loop.
Drawing(p, last, frames) ==
    /\ p \in PidsOf(sample) /\ last \in BOOLEAN /\ ~Full
    /\ frames \in Seq(Frame) /\ SameCalls(frames, stack)
    /\ \/ stack = <<>> /\ Len(stack) = 0 /\ p \in Range(roots)
       \/ /\ stack # <<>> /\ Len(stack) \in DOMAIN stack
          /\ PpidOf(p) = stack[Len(stack)].pid /\ last = ~Continues(p)
    /\ Call(p, Len(stack), last, frames)
    /\ UNCHANGED <<sample, tree, term_height>>

(* A root is drawn by a call of its own.                                   *)
LEMMA RootDrawing ==
    ASSUME SweepInv, BuildInv, WindowInv, NextRoot
    PROVE  /\ at \in DOMAIN roots /\ at' = at + 1 /\ stack = <<>>
           /\ Drawing(roots[at], at = Len(roots), <<>>)
  <1>1. /\ pc = "draw" /\ stack = <<>> /\ at <= Len(roots) /\ ~Full /\ at' = at + 1
        /\ Call(roots[at], 0, at = Len(roots), <<>>)
        /\ UNCHANGED <<sample, tree, term_height>>
    BY DEF NextRoot
  <1>2. /\ roots \in Seq(Pid) /\ at \in Nat \ {0}
        /\ Range(roots) = {p \in PidsOf(sample) : PpidOf(p) \notin PidsOf(sample)}
    BY <1>1, RootsAre DEF BuildInv, SweepInv, Swept
  <1>3. at \in DOMAIN roots
    BY <1>1, <1>2
  <1>4. roots[at] \in Range(roots) /\ roots[at] \in PidsOf(sample)
    BY <1>2, <1>3 DEF Range
  <1>5. /\ Len(<<>>) = 0 /\ <<>> \in Seq(Frame) /\ SameCalls(<<>>, <<>>)
    BY DEF SameCalls
  <1>6. (at = Len(roots)) \in BOOLEAN
    OBVIOUS
  <1> QED
    BY <1>1, <1>3, <1>4, <1>5, <1>6 DEF Drawing

(* The innermost call, which is the last frame.                            *)
LEMMA TopIs ==
    ASSUME WindowInv, stack # <<>>
    PROVE  /\ Len(stack) \in Nat \ {0} /\ Len(stack) \in DOMAIN stack
           /\ Top = stack[Len(stack)] /\ Kids = Children(stack[Len(stack)].pid)
           /\ Top.depth = Len(stack) - 1 /\ Top.pid \in PidsOf(sample)
           /\ Top.kid \in Nat \ {0} /\ Top.len \in Nat /\ Top.len <= Len(prefix)
  <1>1. stack \in Seq(Frame)
    BY DEF WindowInv
  <1>2. Len(stack) \in Nat \ {0} /\ Len(stack) \in DOMAIN stack
    BY <1>1
  <1>3. Top = stack[Len(stack)] /\ Kids = Children(stack[Len(stack)].pid)
    BY DEF Top, Kids, Last
  <1> QED
    BY <1>1, <1>2, <1>3, FrameAt DEF WindowInv

(* The next child is drawn by a call of its own, if the window has room.   *)
LEMMA ChildDrawing ==
    ASSUME SweepInv, BuildInv, WindowInv, NextChild
    PROVE  LET d    == Len(stack)
               kids == Children(stack[d].pid)
               x    == stack[d].kid
           IN  /\ stack # <<>> /\ x \in DOMAIN kids /\ UNCHANGED <<sample, tree, at, pc, term_height>>
               /\ \/ Full /\ stack' = Advanced(stack) /\ UNCHANGED <<prefix, rows>>
                  \/ Drawing(kids[x], ~Continues(kids[x]), Advanced(stack))
  <1> DEFINE d == Len(stack)
             kids == Children(stack[d].pid)
             x == stack[d].kid
  <1>1. /\ pc = "draw" /\ stack # <<>> /\ Top.kid <= Len(Kids)
        /\ UNCHANGED <<sample, tree, at, pc, term_height>>
    BY DEF NextChild
  <1>2. /\ d \in Nat \ {0} /\ d \in DOMAIN stack /\ Top = stack[d] /\ Kids = kids
        /\ Top.kid = x /\ x \in Nat \ {0}
        /\ Top.depth = d - 1 /\ stack[d].pid \in PidsOf(sample) /\ stack \in Seq(Frame)
    BY <1>1, TopIs DEF WindowInv
  <1>3. /\ kids \in Seq(Nat) /\ Increasing(kids)
        /\ Range(kids) = {q \in PidsOf(sample) : PpidOf(q) = stack[d].pid}
    BY <1>1, <1>2, ChildrenOf DEF BuildInv
  <1>4. \/ Full /\ stack' = Advanced(stack) /\ UNCHANGED <<prefix, rows>>
        \/ ~Full /\ Call(kids[x], Top.depth + 1, x = Len(kids), Advanced(stack))
    BY <1>2 DEF NextChild
  <1>5. Top.depth + 1 = d
    BY <1>2
  <1> HIDE DEF kids, x, d
  <1>6. x \in DOMAIN kids /\ Len(kids) \in DOMAIN kids /\ Len(kids) \in Nat
    BY <1>1, <1>2, <1>3
  <1>7. kids[x] \in PidsOf(sample) /\ PpidOf(kids[x]) = stack[d].pid
    BY <1>3, <1>6 DEF Range
  <1>8. Continues(kids[x]) = (kids[x] # kids[Len(kids)])
    BY <1>7 DEF Continues, Last, kids
  <1>9. (x = Len(kids)) = (kids[x] = kids[Len(kids)])
    BY <1>2, <1>3, <1>6 DEF Increasing
  <1>10. /\ (x = Len(kids)) = ~Continues(kids[x]) /\ (~Continues(kids[x])) \in BOOLEAN
    BY <1>8, <1>9
  <1>11. CASE Full /\ stack' = Advanced(stack) /\ UNCHANGED <<prefix, rows>>
    BY <1>1, <1>6, <1>11 DEF kids, x, d
  <1>12. CASE ~Full /\ Call(kids[x], Top.depth + 1, x = Len(kids), Advanced(stack))
    <2>1. Call(kids[x], d, ~Continues(kids[x]), Advanced(stack))
      BY <1>5, <1>10, <1>12
    <2>2. Advanced(stack) \in Seq(Frame) /\ SameCalls(Advanced(stack), stack)
      BY <1>1, <1>2, AdvancedFacts
    <2>3. Drawing(kids[x], ~Continues(kids[x]), Advanced(stack))
      BY <1>1, <1>2, <1>7, <1>10, <1>12, <2>1, <2>2 DEF Drawing, d
    <2> QED
      BY <1>1, <1>6, <2>3 DEF kids, x, d
  <1> QED
    BY <1>4, <1>11, <1>12

(* Of a call that returns the frame is gone, and with it its part of the   *)
(* prefix.                                                                 *)
LEMMA ReturnFacts ==
    ASSUME WindowInv, Return
    PROVE  LET d == Len(stack)
           IN  /\ d \in Nat \ {0} /\ d \in DOMAIN stack /\ stack # <<>>
               /\ stack' \in Seq(Frame) /\ Len(stack') = d - 1
               /\ \A m \in 1 .. d - 1 : stack'[m] = stack[m]
               /\ prefix' = SubSeq(prefix, 1, stack[d].len) /\ prefix' \in Seq(BOOLEAN)
               /\ Len(prefix') = stack[d].len /\ Bytes(prefix') <= Bytes(prefix)
               /\ Bytes(prefix') \in Nat /\ Bytes(prefix) \in Nat
               /\ \A i \in 1 .. Len(prefix') : prefix'[i] = prefix[i]
               /\ stack[d].kid > Len(Children(stack[d].pid))
               /\ UNCHANGED <<sample, tree, rows, at, pc, term_height>>
  <1> DEFINE d == Len(stack)
             len == stack[d].len
  <1>1. /\ stack # <<>> /\ Top.kid > Len(Kids)
        /\ prefix' = SubSeq(prefix, 1, Top.len) /\ stack' = Front(stack)
        /\ UNCHANGED <<sample, tree, rows, at, pc, term_height>>
    BY DEF Return
  <1>2. /\ d \in Nat \ {0} /\ d \in DOMAIN stack /\ Top = stack[d]
        /\ Kids = Children(stack[d].pid) /\ len \in Nat /\ len <= Len(prefix)
        /\ stack \in Seq(Frame) /\ prefix \in Seq(BOOLEAN)
    BY <1>1, TopIs DEF WindowInv
  <1>3. /\ stack' \in Seq(Frame) /\ Len(stack') = d - 1
        /\ \A m \in 1 .. d - 1 : stack'[m] = stack[m]
    <2>1. stack' = SubSeq(stack, 1, d - 1)
      BY <1>1 DEF Front
    <2>2. d - 1 \in Nat /\ d - 1 <= Len(stack)
      BY <1>2
    <2>3. \A k \in Nat : k <= Len(stack) =>
             /\ SubSeq(stack, 1, k) \in Seq(Frame) /\ Len(SubSeq(stack, 1, k)) = k
             /\ \A m \in 1 .. k : SubSeq(stack, 1, k)[m] = stack[m]
      BY <1>2
    <2> QED
      BY <2>1, <2>2, <2>3
  <1>4. prefix' = SubSeq(prefix, 1, len)
    BY <1>1, <1>2
  <1> HIDE DEF len, d
  <1>5. /\ prefix' \in Seq(BOOLEAN) /\ Len(prefix') = len
        /\ \A i \in 1 .. Len(prefix') : prefix'[i] = prefix[i]
    BY <1>2, <1>4
  <1>6. Bytes(prefix') \in Nat /\ Bytes(prefix) \in Nat /\ Bytes(prefix') <= Bytes(prefix)
    BY <1>2, <1>5, BytesGrow
  <1> QED
    BY <1>1, <1>2, <1>3, <1>4, <1>5, <1>6 DEF len, d
(* Before the drawing the window and the prefix are empty.                 *)
LEMMA WindowEmpty ==
    ASSUME term_height \in Nat, rows = <<>>, stack = <<>>, prefix = <<>>
    PROVE  WindowInv
  <1>1. /\ DOMAIN <<>> = {} /\ <<>> \in Seq(Row) /\ <<>> \in Seq(Frame) /\ <<>> \in Seq(BOOLEAN)
    OBVIOUS
  <1>2. Bytes(prefix) < PrefixMax
    BY BytesNone, TreeAssumption
  <1> QED
    BY <1>1, <1>2 DEF WindowInv

(* Until the drawing begins.                                               *)
LEMMA NotYetDrawn ==
    ASSUME SweepInv, BuildInv, term_height \in Nat, [Next]_vars
    PROVE  \/ /\ rows = <<>> /\ stack = <<>> /\ prefix = <<>>
              /\ rows' = <<>> /\ stack' = <<>> /\ prefix' = <<>>
              /\ term_height' \in Nat
              /\ pc' \in {"draw", "done"} => pc' = "draw" /\ at' = 1
           \/ pc = "draw" /\ Draw
           \/ pc \in {"draw", "done"} /\ UNCHANGED <<sample, tree, window, pc, at, term_height>>
  <1>1. CASE pc \in {"draw", "done"}
    <2>1. Draw \/ UNCHANGED vars
      BY <1>1 DEF Next, Fork, Exit, ListPids, Read, Build, Allocate, Count, Offset,
                  AllocateChildren, Place, LateRoot
    <2> QED
      BY <1>1, <2>1 DEF Draw, NextRoot, NextChild, Return, Finish, vars
  <1>2. CASE pc \notin {"draw", "done"}
    <2>1. rows = <<>> /\ stack = <<>> /\ prefix = <<>>
      BY <1>2 DEF BuildInv
    <2>2. UNCHANGED <<window, term_height>>
      BY <1>2 DEF Next, Fork, Exit, ListPids, Read, Build, Allocate, Count, Offset, AllocateChildren,
                  Place, LateRoot, Draw, NextRoot, NextChild, Return, Finish, vars
    <2>3. rows' = <<>> /\ stack' = <<>> /\ prefix' = <<>> /\ term_height' \in Nat
      BY <2>1, <2>2 DEF window
    <2>4. pc' \in {"draw", "done"} => pc' = "draw" /\ at' = 1
      BY <1>2 DEF Next, Fork, Exit, ListPids, Read, Build, Allocate, Count, Offset, AllocateChildren,
                  Place, LateRoot, Draw, NextRoot, NextChild, Return, Finish, vars, Advance
    <2> QED
      BY <2>1, <2>3, <2>4
  <1> QED
    BY <1>1, <1>2

LEMMA WindowStep == SweepInv /\ BuildInv /\ WindowInv /\ [Next]_vars => WindowInv'
  <1> SUFFICES ASSUME SweepInv, BuildInv, WindowInv, [Next]_vars PROVE WindowInv'
    OBVIOUS
  <1>1. /\ term_height \in Nat /\ rows \in Seq(Row) /\ stack \in Seq(Frame)
        /\ prefix \in Seq(BOOLEAN) /\ Bytes(prefix) < PrefixMax
    BY DEF WindowInv
  <1>2. ASSUME NEW p, NEW last, NEW frames, Drawing(p, last, frames) PROVE WindowInv'
    BY <1>2, CallWindow DEF Drawing
  <1>3. ASSUME rows' = <<>>, stack' = <<>>, prefix' = <<>>, term_height' \in Nat PROVE WindowInv'
    <2>1. /\ DOMAIN <<>> = {} /\ <<>> \in Seq(Row) /\ <<>> \in Seq(Frame) /\ <<>> \in Seq(BOOLEAN)
      OBVIOUS
    <2>2. Bytes(prefix') < PrefixMax
      BY <1>3, BytesNone, TreeAssumption
    <2>3. Bytes(prefix)' = Bytes(prefix')
      BY DEF Bytes
    <2> QED
      BY <1>3, <2>1, <2>2, <2>3 DEF WindowInv
  <1>4. CASE UNCHANGED <<sample, tree, window, pc, at, term_height>>
    BY <1>4 DEF WindowInv, window, Bytes
  <1>5. CASE NextRoot
    BY <1>2, <1>5, RootDrawing
  <1>6. CASE NextChild
    <2>1. CASE Full /\ stack' = Advanced(stack) /\ UNCHANGED <<prefix, rows, sample, term_height>>
      <3>1. stack # <<>>
        BY <1>6 DEF NextChild
      <3>2. stack' \in Seq(Frame) /\ SameCalls(stack', stack)
        BY <1>1, <2>1, <3>1, AdvancedFacts
      <3>3. /\ DOMAIN stack' = DOMAIN stack
            /\ \A m \in DOMAIN stack : /\ stack'[m].pid = stack[m].pid
                                       /\ stack'[m].depth = stack[m].depth
                                       /\ stack'[m].len = stack[m].len
        BY <1>1, <3>2, FrameAt, SMTT(30) DEF SameCalls
      <3> QED
        BY <1>1, <2>1, <3>2, <3>3, SMTT(30) DEF WindowInv
    <2> QED
      BY <1>2, <1>6, <2>1, ChildDrawing
  <1>7. CASE Return
    <2> DEFINE d == Len(stack)
    <2>1. /\ d \in Nat \ {0} /\ d \in DOMAIN stack
          /\ stack' \in Seq(Frame) /\ Len(stack') = d - 1
          /\ \A m \in 1 .. d - 1 : stack'[m] = stack[m]
          /\ prefix' \in Seq(BOOLEAN) /\ Len(prefix') = stack[d].len
          /\ Bytes(prefix') <= Bytes(prefix) /\ Bytes(prefix') \in Nat /\ Bytes(prefix) \in Nat
          /\ UNCHANGED <<sample, rows, term_height>>
      BY <1>7, ReturnFacts
    <2>2. Bytes(prefix') < PrefixMax
      BY <1>1, <2>1, TreeAssumption
    <2>3. DOMAIN stack' = 1 .. d - 1 /\ DOMAIN stack = 1 .. d
      BY <1>1, <2>1
    <2> HIDE DEF d
    <2>4. \A m \in 1 .. d - 1 : m \in 1 .. d /\ m <= d
      BY <2>1
    <2>5. \A m \in DOMAIN stack' :
            /\ stack'[m].pid \in PidsOf(sample) /\ stack'[m].depth = m - 1
            /\ stack'[m].len <= Len(prefix')
            /\ \A l \in DOMAIN stack' : l <= m => stack'[l].len <= stack'[m].len
      BY <2>1, <2>3, <2>4 DEF WindowInv
    <2> QED
      BY <1>1, <2>1, <2>2, <2>5 DEF WindowInv
  <1>8. CASE Finish
    BY <1>8 DEF Finish, WindowInv, window, Bytes
  <1> QED
    BY <1>1, <1>3, <1>4, <1>5, <1>6, <1>7, <1>8, NotYetDrawn DEF Draw

LEMMA WindowInit == Init => WindowInv
  <1> SUFFICES ASSUME Init PROVE WindowInv
    OBVIOUS
  <1>1. term_height \in Nat /\ rows = <<>> /\ stack = <<>> /\ prefix = <<>>
    BY TreeAssumption DEF Init
  <1> QED
    BY <1>1, WindowEmpty

(* The second pass writes into the slices, and these are in the array.     *)
LEMMA SlicesFit ==
    ASSUME SweepInv, BuildInv, pc \in {"place", "late", "draw", "done"}, NEW i \in DOMAIN sample
    PROVE  fill[i] <= child_count[i] /\ child_start[i] + child_count[i] <= Len(child_pids)
  <1>1. DOMAIN sample = 1 .. Len(sample) /\ Len(sample) \in Nat
    BY SampleOrdered, EntryAt
  <1>2. PICK k \in 0 .. Len(sample) :
          /\ Arrays /\ Counted(Len(sample)) /\ Sliced(Len(sample)) /\ Placed(k)
    <2>1. CASE pc = "place"
      <3>1. at - 1 \in 0 .. Len(sample) /\ Placed(at - 1)
        BY <1>1, <2>1 DEF BuildInv
      <3> QED
        BY <2>1, <3>1 DEF BuildInv
    <2>2. CASE pc # "place"
      BY <1>1, <2>2 DEF BuildInv, Built
    <2> QED
      BY <2>1, <2>2
  <1>3. child_start[i] + child_count[i] <= Len(child_pids)
    BY <1>1, <1>2 DEF Sliced, SlicedTo, Placed
  <1>4. /\ fill[i] = Cardinality(KidsTo(sample, i, k))
        /\ child_count[i] = Cardinality(KidsTo(sample, i, Len(sample)))
    BY <1>2 DEF Placed, PlacedTo, Slice, Counted, CountedTo
  <1>5. fill[i] <= child_count[i]
    <2>1. KidsTo(sample, i, k) \in SUBSET KidsTo(sample, i, Len(sample))
      BY <1>1, <1>2 DEF KidsTo
    <2>2. IsFiniteSet(KidsTo(sample, i, Len(sample)))
      <3>1. KidsTo(sample, i, Len(sample)) \in SUBSET (1 .. Len(sample))
        BY DEF KidsTo
      <3>2. IsFiniteSet(1 .. Len(sample))
        BY <1>1, FS_Interval
      <3> QED
        BY <3>1, <3>2, FS_Subset
    <2> QED
      BY <1>4, <2>1, <2>2, FS_Subset
  <1> QED
    BY <1>3, <1>5

(* Whatever is sampled, however deep the tree and however low the window:  *)
(* nothing is written beyond an array, the buffer of the prefix or the     *)
(* content window.                                                         *)
THEOREM NothingIsOverrun == Spec => []NothingOverrun
  <1>1. Init => SweepInv /\ BuildInv /\ WindowInv
    BY SweepInit, BuildInit, WindowInit
  <1>2. SweepInv /\ BuildInv /\ WindowInv /\ [Next]_vars => (SweepInv /\ BuildInv /\ WindowInv)'
    BY SweepStep, BuildStep, WindowStep
  <1>3. SweepInv /\ BuildInv /\ WindowInv => NothingOverrun
    BY SlicesFit DEF NothingOverrun, BuildInv, WindowInv
  <1> QED
    BY <1>1, <1>2, <1>3, PTL DEF Spec
----------------------------------------------------------------------------
(* The drawing: the hierarchy of the rows.                                 *)

\* Nobody is drawn twice; a row belongs to a root, or to a child of the
\* nearest row above that is one level up.
RowsOnce == \A i, j \in DOMAIN rows : rows[i].pid = rows[j].pid => i = j

RowsRight ==
    \A i \in DOMAIN rows :
       IF rows[i].depth = 0 THEN rows[i].pid \in Range(roots)
       ELSE \E j \in 1 .. i - 1 :
               /\ rows[j].depth = rows[i].depth - 1
               /\ rows[j].pid = PpidOf(rows[i].pid)
               /\ \A k \in j + 1 .. i - 1 : rows[k].depth >= rows[i].depth

\* The m-th frame is that of the last row at level m - 1.
FramesShown ==
    \A m \in DOMAIN stack :
       \E r \in DOMAIN rows :
          /\ rows[r].pid = stack[m].pid /\ rows[r].depth = m - 1
          /\ \A k \in DOMAIN rows : k > r => rows[k].depth >= m

\* The roots and the children that the loops have not come to are not drawn.
RootsAhead == \A r \in DOMAIN roots : r >= at => roots[r] \notin Drawn

KidsAhead ==
    \A m \in DOMAIN stack : \A x \in DOMAIN Children(stack[m].pid) :
       x >= stack[m].kid => Children(stack[m].pid)[x] \notin Drawn

DrawInv ==
    RowsOnce /\ RowsRight /\ FramesShown /\ RootsAhead /\ KidsAhead

\* Two sequences of rows, one of them with a row more.
OneMore(rs, more, row) ==
    /\ Len(more) = Len(rs) + 1 /\ more[Len(rs) + 1] = row
    /\ \A i \in 1 .. Len(rs) : more[i] = rs[i]

(* The rows of the window.                                                 *)
LEMMA RowAt ==
    ASSUME WindowInv
    PROVE  /\ Len(rows) \in Nat /\ DOMAIN rows = 1 .. Len(rows)
           /\ \A i \in DOMAIN rows : /\ i \in Nat \ {0} /\ i <= Len(rows) /\ rows[i].depth \in Nat
                                     /\ rows[i].pid \in PidsOf(sample)
           /\ Len(stack) \in Nat /\ DOMAIN stack = 1 .. Len(stack)
  <1>1. \A f \in Row : f.depth \in Nat
    BY DEF Row
  <1>2. Len(rows) \in Nat /\ DOMAIN rows = 1 .. Len(rows) /\ \A m \in DOMAIN rows : rows[m] \in Row
    BY DEF WindowInv
  <1> QED
    BY <1>1, <1>2, FrameAt DEF WindowInv

(* A call appends a row ...                                                *)
LEMMA DrawingRow ==
    ASSUME SweepInv, WindowInv, NEW p, NEW last, NEW frames, Drawing(p, last, frames)
    PROVE  /\ OneMore(rows, rows', [pid |-> p, depth |-> Len(stack), prefix |-> prefix])
           /\ rows' \in Seq(Row) /\ DOMAIN rows' = 1 .. Len(rows) + 1
           /\ Drawn' = Drawn \cup {p}
  <1> DEFINE row == [pid |-> p, depth |-> Len(stack), prefix |-> prefix]
             n == Len(rows)
  <1>1. /\ rows' \in Seq(Row) /\ n \in Nat /\ Len(rows') = n + 1
        /\ \A i \in 1 .. n : rows'[i] = rows[i]
        /\ rows'[n + 1] = row
    BY RowAt, PidsAre, CallFacts DEF Drawing
  <1>2. DOMAIN rows' = 1 .. n + 1 /\ DOMAIN rows = 1 .. n
    BY <1>1, RowAt
  <1>3. row.pid = p
    OBVIOUS
  <1> HIDE DEF n, row
  <1>4. \A i : i \in 1 .. n + 1 <=> i \in 1 .. n \/ i = n + 1
    BY <1>1
  <1>5. \A q : q \in Drawn' <=> q \in Drawn \/ q = p
    BY <1>1, <1>2, <1>3, <1>4 DEF Drawn
  <1>6. Drawn' = Drawn \cup {p}
    BY <1>5
  <1> QED
    BY <1>1, <1>2, <1>6 DEF OneMore, n, row

(* ... and a frame, if there are children.                                 *)
LEMMA DrawingFrames ==
    ASSUME SweepInv, WindowInv, NEW p, NEW last, NEW frames, Drawing(p, last, frames)
    PROVE  LET d == Len(stack)
           IN  /\ Len(frames) = d /\ DOMAIN frames = 1 .. d
               /\ \A m \in 1 .. d : frames[m].pid = stack[m].pid /\ frames[m].len = stack[m].len
               /\ \/ Children(p) = <<>> /\ stack' = frames /\ prefix' = prefix
                  \/ /\ Children(p) # <<>> /\ prefix' = Extended(d, last)
                     /\ stack' \in Seq(Frame) /\ Len(stack') = d + 1 /\ DOMAIN stack' = 1 .. d + 1
                     /\ \A m \in 1 .. d : stack'[m] = frames[m]
                     /\ stack'[d + 1].pid = p /\ stack'[d + 1].kid = 1
                     /\ stack'[d + 1].len = Len(prefix)
  <1> DEFINE d == Len(stack)
             frame == [pid |-> p, depth |-> d, len |-> Len(prefix), kid |-> 1]
  <1>1. /\ frames \in Seq(Frame) /\ SameCalls(frames, stack) /\ p \in PidsOf(sample) /\ p \in Nat
        /\ last \in BOOLEAN /\ d \in Nat /\ Call(p, d, last, frames)
    BY PidsAre, RowAt DEF Drawing
  <1>2. /\ Len(frames) = d /\ DOMAIN frames = 1 .. d
        /\ \A m \in 1 .. d : frames[m].pid = stack[m].pid /\ frames[m].len = stack[m].len
    BY <1>1, FrameAt DEF SameCalls
  <1>3. \/ Children(p) = <<>> /\ stack' = frames /\ prefix' = prefix
        \/ /\ Children(p) # <<>> /\ prefix' = Extended(d, last)
           /\ stack' \in Seq(Frame) /\ Len(stack') = d + 1
           /\ \A m \in 1 .. d : stack'[m] = frames[m]
           /\ stack'[d + 1] = frame
    <2>1. \/ Children(p) = <<>> /\ stack' = frames /\ prefix' = prefix
          \/ Children(p) # <<>> /\ stack' = Append(frames, frame) /\ prefix' = Extended(d, last)
      BY <1>1 DEF Call
    <2>2. frame \in Frame
      BY <1>1 DEF WindowInv, Frame
    <2> HIDE DEF frame
    <2> QED
      BY <1>1, <1>2, <2>1, <2>2
  <1>4. frame.pid = p /\ frame.kid = 1 /\ frame.len = Len(prefix)
    OBVIOUS
  <1> HIDE DEF frame
  <1>5. stack' \in Seq(Frame) /\ Len(stack') = d + 1 => DOMAIN stack' = 1 .. d + 1
    OBVIOUS
  <1> QED
    BY <1>2, <1>3, <1>4, <1>5

(* Whoever is drawn next is not drawn yet, and is no child of a process    *)
(* but the innermost of the calls.                                         *)
LEMMA RowsOnceDraw ==
    ASSUME SweepInv, BuildInv, WindowInv, DrawInv, NEW p, NEW last, NEW frames,
           Drawing(p, last, frames), p \notin Drawn
    PROVE  RowsOnce'
  <1> DEFINE n == Len(rows)
             row == [pid |-> p, depth |-> Len(stack), prefix |-> prefix]
  <1>1. /\ OneMore(rows, rows', row) /\ DOMAIN rows' = 1 .. n + 1
        /\ n \in Nat /\ DOMAIN rows = 1 .. n
    BY DrawingRow, RowAt
  <1>2. row.pid = p
    OBVIOUS
  <1>3. \A i \in 1 .. n : rows[i].pid # p
    BY <1>1 DEF Drawn
  <1> HIDE DEF n, row
  <1>4. \A i : i \in 1 .. n + 1 <=> i \in 1 .. n \/ i = n + 1
    BY <1>1
  <1>5. rows'[n + 1].pid = p /\ \A i \in 1 .. n : rows'[i] = rows[i]
    BY <1>1, <1>2 DEF OneMore, n
  <1> QED
    BY <1>1, <1>3, <1>4, <1>5 DEF DrawInv, RowsOnce

(* A call draws below the row of the innermost call.                       *)
LEMMA RowsRightDraw ==
    ASSUME SweepInv, BuildInv, WindowInv, DrawInv, NEW p, NEW last, NEW frames,
           Drawing(p, last, frames)
    PROVE  RowsRight'
  <1> DEFINE n == Len(rows)
             d == Len(stack)
             row == [pid |-> p, depth |-> d, prefix |-> prefix]
  <1>1. /\ OneMore(rows, rows', row) /\ DOMAIN rows' = 1 .. n + 1
        /\ n \in Nat /\ DOMAIN rows = 1 .. n /\ d \in Nat /\ DOMAIN stack = 1 .. d
    BY DrawingRow, RowAt
  <1>2. row.pid = p /\ row.depth = d
    OBVIOUS
  <1>3. /\ UNCHANGED <<sample, tree>> /\ roots' = roots
        /\ \/ d = 0 /\ p \in Range(roots)
           \/ d \in DOMAIN stack /\ PpidOf(p) = stack[d].pid
    BY DEF Drawing, tree
  <1>4. \A q : PpidOf(q)' = PpidOf(q)
    BY <1>3, Fixed
  <1> HIDE DEF n, d, row
  <1>5. /\ rows'[n + 1].pid = p /\ rows'[n + 1].depth = d
        /\ \A i \in 1 .. n : rows'[i] = rows[i]
    BY <1>1, <1>2 DEF OneMore, n
  <1> DEFINE Right(i) ==
               IF rows'[i].depth = 0 THEN rows'[i].pid \in Range(roots)
               ELSE \E j \in 1 .. i - 1 :
                       /\ rows'[j].depth = rows'[i].depth - 1
                       /\ rows'[j].pid = PpidOf(rows'[i].pid)
                       /\ \A k \in j + 1 .. i - 1 : rows'[k].depth >= rows'[i].depth
  <1>6. ASSUME NEW i \in 1 .. n PROVE Right(i)
    <2>1. \A j \in 1 .. i - 1 : j \in 1 .. n /\ \A k \in j + 1 .. i - 1 : k \in 1 .. n
      BY <1>1
    <2>2. rows'[i] = rows[i]
      BY <1>5
    <2>3. CASE rows[i].depth = 0
      BY <1>1, <2>2, <2>3 DEF DrawInv, RowsRight
    <2>4. CASE rows[i].depth # 0
      <3>1. PICK j \in 1 .. i - 1 :
               /\ rows[j].depth = rows[i].depth - 1
               /\ rows[j].pid = PpidOf(rows[i].pid)
               /\ \A k \in j + 1 .. i - 1 : rows[k].depth >= rows[i].depth
        BY <1>1, <2>4 DEF DrawInv, RowsRight
      <3>2. /\ rows'[j] = rows[j] /\ \A k \in j + 1 .. i - 1 : rows'[k] = rows[k]
        BY <1>5, <2>1
      <3> QED
        BY <2>2, <2>4, <3>1, <3>2
    <2> QED
      BY <2>3, <2>4
  <1>7. Right(n + 1)
    <2>1. CASE d = 0 /\ p \in Range(roots)
      BY <1>5, <2>1
    <2>2. CASE d \in DOMAIN stack /\ PpidOf(p) = stack[d].pid
      <3>1. PICK r \in DOMAIN rows :
               /\ rows[r].pid = stack[d].pid /\ rows[r].depth = d - 1
               /\ \A k \in DOMAIN rows : k > r => rows[k].depth >= d
        BY <2>2 DEF DrawInv, FramesShown
      <3>2. /\ r \in 1 .. (n + 1) - 1 /\ d # 0
            /\ \A k \in r + 1 .. (n + 1) - 1 : k \in 1 .. n /\ k > r
        BY <1>1, <2>2, <3>1
      <3>3. /\ rows'[r].depth = d - 1 /\ rows'[r].pid = PpidOf(p)
            /\ \A k \in r + 1 .. (n + 1) - 1 : rows'[k].depth >= d
        BY <1>1, <1>5, <2>2, <3>1, <3>2
      <3>4. /\ rows'[n + 1].depth # 0 /\ rows'[r].depth = rows'[n + 1].depth - 1
            /\ rows'[r].pid = PpidOf(rows'[n + 1].pid)
            /\ \A k \in r + 1 .. (n + 1) - 1 : rows'[k].depth >= rows'[n + 1].depth
        BY <1>5, <3>2, <3>3, Zenon
      <3>5. \E j \in 1 .. (n + 1) - 1 :
               /\ rows'[j].depth = rows'[n + 1].depth - 1
               /\ rows'[j].pid = PpidOf(rows'[n + 1].pid)
               /\ \A k \in j + 1 .. (n + 1) - 1 : rows'[k].depth >= rows'[n + 1].depth
        BY <3>2, <3>4
      <3> HIDE DEF Right
      <3> QED
        BY <3>4, <3>5 DEF Right
    <2> QED
      BY <1>3, <2>1, <2>2
  <1>8. \A i \in 1 .. n + 1 : i \in 1 .. n \/ i = n + 1
    BY <1>1
  <1>9. \A i \in DOMAIN rows' : Right(i)
    BY <1>1, <1>6, <1>7, <1>8
  <1> HIDE DEF Right
  <1> QED
    BY <1>3, <1>4, <1>9 DEF RowsRight, Right

(* The row of a call is the last one of its level.                         *)
LEMMA FramesShownDraw ==
    ASSUME SweepInv, BuildInv, WindowInv, DrawInv, NEW p, NEW last, NEW frames,
           Drawing(p, last, frames)
    PROVE  FramesShown'
  <1> DEFINE n == Len(rows)
             d == Len(stack)
             row == [pid |-> p, depth |-> d, prefix |-> prefix]
  <1>1. /\ OneMore(rows, rows', row) /\ DOMAIN rows' = 1 .. n + 1
        /\ n \in Nat /\ DOMAIN rows = 1 .. n /\ d \in Nat /\ DOMAIN stack = 1 .. d
    BY DrawingRow, RowAt
  <1>2. row.pid = p /\ row.depth = d
    OBVIOUS
  <1>3. /\ DOMAIN frames = 1 .. d /\ \A m \in 1 .. d : frames[m].pid = stack[m].pid
        /\ \/ stack' = frames
           \/ /\ DOMAIN stack' = 1 .. d + 1 /\ stack'[d + 1].pid = p
              /\ \A m \in 1 .. d : stack'[m] = frames[m]
    BY DrawingFrames
  <1> HIDE DEF n, d, row
  <1>4. /\ rows'[n + 1].pid = p /\ rows'[n + 1].depth = d
        /\ \A i \in 1 .. n : rows'[i] = rows[i]
    BY <1>1, <1>2 DEF OneMore, n
  <1> DEFINE Shown(m, q) ==
               \E r \in 1 .. n + 1 :
                  /\ rows'[r].pid = q /\ rows'[r].depth = m - 1
                  /\ \A k \in 1 .. n + 1 : k > r => rows'[k].depth >= m
  <1>5. ASSUME NEW m \in 1 .. d PROVE Shown(m, stack[m].pid)
    <2>1. PICK r \in DOMAIN rows :
             /\ rows[r].pid = stack[m].pid /\ rows[r].depth = m - 1
             /\ \A k \in DOMAIN rows : k > r => rows[k].depth >= m
      BY <1>1 DEF DrawInv, FramesShown
    <2>2. r \in 1 .. n + 1 /\ d >= m
      BY <1>1, <2>1
    <2>4. \A k \in 1 .. n + 1 : k \in 1 .. n \/ k = n + 1
      BY <1>1
    <2>3. \A k \in 1 .. n + 1 : k > r => rows'[k].depth >= m
      BY <1>1, <1>4, <2>1, <2>2, <2>4
    <2> QED
      BY <1>1, <1>4, <2>1, <2>2, <2>3
  <1>6. Shown(d + 1, p)
    <2>1. n + 1 \in 1 .. n + 1 /\ \A k \in 1 .. n + 1 : ~(k > n + 1)
      BY <1>1
    <2>2. rows'[n + 1].depth = (d + 1) - 1
      BY <1>1, <1>4
    <2>3. \E r \in 1 .. n + 1 :
             /\ rows'[r].pid = p /\ rows'[r].depth = (d + 1) - 1
             /\ \A k \in 1 .. n + 1 : k > r => rows'[k].depth >= d + 1
      BY <1>4, <2>1, <2>2
    <2> HIDE DEF Shown
    <2> QED
      BY <2>3 DEF Shown
  <1>7. \A m \in 1 .. d + 1 : m \in 1 .. d \/ m = d + 1
    BY <1>1
  <1> HIDE DEF Shown
  <1>8. \A m \in DOMAIN stack' : Shown(m, stack'[m].pid)
    BY <1>3, <1>5, <1>6, <1>7
  <1> QED
    BY <1>1, <1>8 DEF FramesShown, Shown
(* No process is in two loops.                                             *)
LEMMA FramesOnce ==
    ASSUME WindowInv, DrawInv, NEW m \in DOMAIN stack, NEW l \in DOMAIN stack,
           stack[m].pid = stack[l].pid
    PROVE  m = l
  <1>1. PICK r \in DOMAIN rows : rows[r].pid = stack[m].pid /\ rows[r].depth = m - 1
    BY DEF DrawInv, FramesShown
  <1>2. PICK s \in DOMAIN rows : rows[s].pid = stack[l].pid /\ rows[s].depth = l - 1
    BY DEF DrawInv, FramesShown
  <1>3. r = s
    BY <1>1, <1>2 DEF DrawInv, RowsOnce
  <1>4. m \in Nat /\ l \in Nat
    BY RowAt
  <1> QED
    BY <1>1, <1>2, <1>3, <1>4

(* The children of a process that is not drawn are not drawn.              *)
LEMMA KidsOfNew ==
    ASSUME SweepInv, Built, WindowInv, DrawInv, NEW p \in PidsOf(sample), p \notin Drawn,
           NEW x \in DOMAIN Children(p)
    PROVE  Children(p)[x] \notin Drawn /\ Children(p)[x] # p
  <1> DEFINE c == Children(p)[x]
  <1>1. c \in PidsOf(sample) /\ PpidOf(c) = p
    BY ChildrenOf DEF Range
  <1> HIDE DEF c
  <1>2. c # p
    <2>1. PICK j \in DOMAIN sample : c = sample[j].pid
      BY <1>1 DEF PidsOf
    <2>2. PpidOf(c) = sample[j].ppid /\ sample[j].ppid # sample[j].pid
      BY <2>1, Indexed, SampleOrdered DEF Ordered
    <2> QED
      BY <1>1, <2>1, <2>2
  <1>3. c \notin Drawn
    <2>1. SUFFICES ASSUME c \in Drawn PROVE FALSE
      OBVIOUS
    <2>2. PICK i \in DOMAIN rows : rows[i].pid = c
      BY <2>1 DEF Drawn
    <2>3. CASE rows[i].depth = 0
      <3>1. c \in Range(roots)
        BY <2>2, <2>3 DEF DrawInv, RowsRight
      <3>2. PpidOf(c) \notin PidsOf(sample)
        BY <3>1, RootsAre
      <3> QED
        BY <1>1, <3>2
    <2>4. CASE rows[i].depth # 0
      <3>1. PICK j \in 1 .. i - 1 : rows[j].pid = p
        BY <1>1, <2>2, <2>4 DEF DrawInv, RowsRight
      <3>2. j \in DOMAIN rows
        BY RowAt
      <3> QED
        BY <3>1, <3>2 DEF Drawn
    <2> QED
      BY <2>3, <2>4
  <1> QED
    BY <1>2, <1>3 DEF c

(* The children of the calls, once p is drawn, are still ahead of them.    *)
LEMMA KidsAheadDraw ==
    ASSUME SweepInv, Built, WindowInv, DrawInv, NEW p, NEW last, NEW frames,
           Drawing(p, last, frames), p \notin Drawn,
           \A m \in DOMAIN frames : \A x \in DOMAIN Children(frames[m].pid) :
              x >= frames[m].kid => Children(frames[m].pid)[x] \notin Drawn \cup {p}
    PROVE  KidsAhead'
  <1> DEFINE d == Len(stack)
  <1>1. /\ DOMAIN frames = 1 .. d
        /\ \/ stack' = frames
           \/ /\ DOMAIN stack' = 1 .. d + 1 /\ stack'[d + 1].pid = p
              /\ \A m \in 1 .. d : stack'[m] = frames[m]
    BY DrawingFrames
  <1>2. d \in Nat /\ p \in PidsOf(sample) /\ UNCHANGED <<sample, tree>>
    BY RowAt DEF Drawing
  <1>3. Drawn' = Drawn \cup {p} /\ \A q : Children(q)' = Children(q)
    BY <1>2, DrawingRow, Fixed
  <1> HIDE DEF d
  <1>4. \A m \in 1 .. d + 1 : m \in 1 .. d \/ m = d + 1
    BY <1>2
  <1>5. \A x \in DOMAIN Children(p) : Children(p)[x] \notin Drawn \cup {p}
    BY <1>2, KidsOfNew
  <1>6. \A m \in DOMAIN stack' : \A x \in DOMAIN Children(stack'[m].pid) :
           x >= stack'[m].kid => Children(stack'[m].pid)[x] \notin Drawn \cup {p}
    BY <1>1, <1>4, <1>5
  <1> QED
    BY <1>3, <1>6 DEF KidsAhead

(* A root is drawn.                                                        *)
LEMMA DrawRoot ==
    ASSUME SweepInv, BuildInv, WindowInv, DrawInv, NextRoot
    PROVE  DrawInv'
  <1> DEFINE p == roots[at]
             last == (at = Len(roots))
  <1>1. /\ at \in DOMAIN roots /\ at' = at + 1 /\ stack = <<>> /\ Drawing(p, last, <<>>)
    BY RootDrawing
  <1>2. Built
    BY DEF BuildInv, NextRoot
  <1>3. roots \in Seq(Pid) /\ Increasing(roots) /\ at \in Nat
    BY <1>2, RootsAre DEF SweepInv, Swept
  <1>4. p \notin Drawn
    BY <1>1, <1>3 DEF DrawInv, RootsAhead
  <1>5. roots' = roots
    BY <1>1 DEF Drawing, tree
  <1>6. \A r \in DOMAIN roots : r >= at + 1 => r >= at /\ roots[r] # p
    <2> SUFFICES ASSUME NEW r \in DOMAIN roots, r >= at + 1 PROVE r >= at /\ roots[r] # p
      OBVIOUS
    <2>1. at < r /\ r >= at
      BY <1>3
    <2>2. roots[at] < roots[r]
      BY <1>1, <1>3, <2>1 DEF Increasing
    <2>3. roots[at] \in Nat /\ roots[r] \in Nat
      BY <1>1, <1>3, TreeAssumption, SMTT(30) DEF Pid
    <2> QED
      BY <2>1, <2>2, <2>3
  <1>7. DOMAIN <<>> = {}
    OBVIOUS
  <1> HIDE DEF p, last
  <1>8. RowsOnce' /\ RowsRight' /\ FramesShown' /\ Drawn' = Drawn \cup {p}
    BY <1>1, <1>4, RowsOnceDraw, RowsRightDraw, FramesShownDraw, DrawingRow
  <1>9. KidsAhead'
    BY <1>1, <1>2, <1>4, <1>7, KidsAheadDraw
  <1>10. RootsAhead'
    BY <1>1, <1>5, <1>6, <1>8 DEF DrawInv, RootsAhead
  <1> QED
    BY <1>8, <1>9, <1>10 DEF DrawInv

(* A child is drawn.                                                       *)
LEMMA DrawChild ==
    ASSUME SweepInv, BuildInv, WindowInv, DrawInv, NextChild, ~Full
    PROVE  DrawInv'
  <1> DEFINE d == Len(stack)
             kids == Children(stack[d].pid)
             x == stack[d].kid
             p == kids[x]
             frames == Advanced(stack)
  <1>1. /\ stack # <<>> /\ x \in DOMAIN kids /\ UNCHANGED <<sample, tree, at>>
        /\ Drawing(p, ~Continues(p), frames)
    BY ChildDrawing
  <1>2. Built
    BY DEF BuildInv, NextChild
  <1>3. d \in Nat \ {0} /\ d \in DOMAIN stack /\ stack[d].pid \in PidsOf(sample) /\ DOMAIN stack = 1 .. d
    BY <1>1, TopIs, RowAt DEF WindowInv
  <1>4. /\ kids \in Seq(Nat) /\ Increasing(kids)
        /\ \A y \in DOMAIN kids : kids[y] \in PidsOf(sample) /\ PpidOf(kids[y]) = stack[d].pid
    BY <1>2, <1>3, ChildrenOf DEF Range
  <1>5. x \in Nat /\ p \notin Drawn /\ p \in PidsOf(sample) /\ PpidOf(p) = stack[d].pid
    <2>1. x \in Nat /\ x >= x
      BY <1>1, <1>4
    <2>2. p \notin Drawn
      BY <1>1, <1>3, <2>1 DEF DrawInv, KidsAhead
    <2> QED
      BY <1>1, <1>4, <2>1, <2>2
  <1>6. /\ DOMAIN frames = 1 .. d /\ frames[d].kid = x + 1
        /\ \A m \in 1 .. d : frames[m].pid = stack[m].pid
        /\ \A m \in 1 .. d : m # d => frames[m] = stack[m]
    <2>1. stack \in Seq(Frame)
      BY DEF WindowInv
    <2>2. frames[d].kid = x + 1 /\ \A m \in 1 .. d : m # d => frames[m] = stack[m]
      BY <1>1, <2>1, AdvancedFacts
    <2>3. DOMAIN frames = 1 .. d /\ \A m \in 1 .. d : frames[m].pid = stack[m].pid
      BY <1>1, DrawingFrames
    <2> QED
      BY <2>2, <2>3
  <1> HIDE DEF frames, p
  <1>7. ASSUME NEW m \in 1 .. d, NEW y \in DOMAIN Children(frames[m].pid), y >= frames[m].kid
        PROVE  Children(frames[m].pid)[y] \notin Drawn \cup {p}
    <2>1. CASE m = d
      <3>1. y \in DOMAIN kids /\ y >= x + 1
        BY <1>6, <1>7, <2>1
      <3>2. x < y /\ y >= x
        BY <1>4, <1>5, <3>1
      <3>3. kids[y] \notin Drawn
        BY <1>3, <3>1, <3>2 DEF DrawInv, KidsAhead
      <3>4. kids[y] # p
        <4>1. kids[x] < kids[y] /\ kids[x] \in Nat /\ kids[y] \in Nat
          BY <1>1, <1>4, <3>1, <3>2 DEF Increasing
        <4> QED
          BY <4>1 DEF p
      <3> QED
        BY <1>6, <2>1, <3>3, <3>4
    <2>2. CASE m # d
      <3>1. frames[m] = stack[m] /\ stack[m].pid \in PidsOf(sample)
        BY <1>3, <1>6, <2>2 DEF WindowInv
      <3>2. Children(frames[m].pid)[y] \notin Drawn
        BY <1>3, <1>7, <3>1 DEF DrawInv, KidsAhead
      <3>3. PpidOf(Children(frames[m].pid)[y]) = stack[m].pid
        BY <1>2, <1>7, <3>1, ChildrenOf DEF Range
      <3>4. stack[m].pid # stack[d].pid
        BY <1>3, <2>2, FramesOnce
      <3> QED
        BY <1>5, <3>2, <3>3, <3>4
    <2> QED
      BY <2>1, <2>2
  <1>8. KidsAhead'
    BY <1>1, <1>2, <1>5, <1>6, <1>7, KidsAheadDraw
  <1>9. RowsOnce' /\ RowsRight' /\ FramesShown' /\ Drawn' = Drawn \cup {p}
    BY <1>1, <1>5, RowsOnceDraw, RowsRightDraw, FramesShownDraw, DrawingRow
  <1>10. RootsAhead'
    <2>1. roots' = roots /\ at' = at
      BY <1>1 DEF tree
    <2>2. \A r \in DOMAIN roots : PpidOf(roots[r]) \notin PidsOf(sample)
      BY <1>2, RootsAre DEF Range
    <2>3. \A r \in DOMAIN roots : roots[r] # p
      BY <1>3, <1>5, <2>2
    <2> QED
      BY <1>9, <2>1, <2>3 DEF DrawInv, RootsAhead
  <1> QED
    BY <1>8, <1>9, <1>10 DEF DrawInv

(* No row is drawn by any other step.                                      *)
LEMMA DrawNothing ==
    ASSUME SweepInv, Built, WindowInv, DrawInv, UNCHANGED <<sample, tree, rows, at>>,
           stack' \in Seq(Frame),
           Len(stack') <= Len(stack),
           \A m \in DOMAIN stack' : stack'[m].pid = stack[m].pid /\ stack'[m].kid >= stack[m].kid
    PROVE  DrawInv'
  <1>1. /\ \A q : PpidOf(q)' = PpidOf(q) /\ Children(q)' = Children(q)
        /\ Drawn' = Drawn /\ roots' = roots
    BY Fixed DEF Drawn, tree
  <1>2. DOMAIN stack' \subseteq DOMAIN stack
    BY FrameAt, RowAt
  <1>3. RowsOnce'
    BY DEF DrawInv, RowsOnce
  <1>4. RowsRight'
    BY <1>1 DEF DrawInv, RowsRight
  <1>5. FramesShown'
    BY <1>2 DEF DrawInv, FramesShown
  <1>6. RootsAhead'
    BY <1>1 DEF DrawInv, RootsAhead
  <1>7. KidsAhead'
    <2>1. ASSUME NEW m \in DOMAIN stack', NEW x \in DOMAIN Children(stack[m].pid), x >= stack'[m].kid
          PROVE  Children(stack[m].pid)[x] \notin Drawn
      <3>1. m \in DOMAIN stack /\ stack[m].kid \in Nat /\ stack'[m].kid \in Nat
        BY <1>2, FrameAt DEF WindowInv
      <3>2. x \in Nat
        <4>1. Children(stack[m].pid) \in Seq(Nat)
          BY <3>1, ChildrenOf DEF WindowInv
        <4> QED
          BY <4>1
      <3>3. x >= stack[m].kid
        BY <1>1, <1>2, <2>1, <3>1, <3>2
      <3> QED
        BY <3>1, <3>3 DEF DrawInv, KidsAhead
    <2> QED
      BY <1>1, <2>1 DEF KidsAhead
  <1> QED
    BY <1>3, <1>4, <1>5, <1>6, <1>7 DEF DrawInv
LEMMA DrawStep == SweepInv /\ BuildInv /\ WindowInv /\ DrawInv /\ [Next]_vars => DrawInv'
  <1> SUFFICES ASSUME SweepInv, BuildInv, WindowInv, DrawInv, [Next]_vars PROVE DrawInv'
    OBVIOUS
  <1>1. term_height \in Nat /\ stack \in Seq(Frame)
    BY DEF WindowInv
  <1>2. CASE rows' = <<>> /\ stack' = <<>>
    <2>1. DOMAIN rows' = {} /\ DOMAIN stack' = {}
      BY <1>2
    <2>2. Drawn' = {}
      BY <2>1 DEF Drawn
    <2> QED
      BY <2>1, <2>2 DEF DrawInv, RowsOnce, RowsRight, FramesShown, RootsAhead, KidsAhead
  <1>3. ASSUME pc \in {"draw", "done"}, UNCHANGED <<sample, tree, rows, stack, at>> PROVE DrawInv'
    <2>1. /\ stack' \in Seq(Frame) /\ Len(stack') <= Len(stack)
          /\ \A m \in DOMAIN stack' : stack'[m].pid = stack[m].pid /\ stack'[m].kid >= stack[m].kid
      BY <1>1, <1>3, FrameAt
    <2> QED
      BY <1>3, <2>1, DrawNothing DEF BuildInv
  <1>4. CASE NextRoot
    BY <1>4, DrawRoot
  <1>5. CASE NextChild
    <2>1. CASE ~Full
      BY <1>5, <2>1, DrawChild
    <2>2. CASE Full
      <3>1. /\ stack # <<>> /\ stack' = Advanced(stack)
            /\ UNCHANGED <<sample, tree, rows, at>> /\ pc = "draw"
        BY <1>5, <2>2 DEF NextChild
      <3>2. /\ stack' \in Seq(Frame) /\ SameCalls(stack', stack) /\ Len(stack') = Len(stack)
            /\ stack'[Len(stack)].kid = stack[Len(stack)].kid + 1
            /\ \A m \in 1 .. Len(stack) : m # Len(stack) => stack'[m] = stack[m]
        BY <1>1, <3>1, AdvancedFacts
      <3>3. \A m \in DOMAIN stack' : stack'[m].pid = stack[m].pid /\ stack'[m].kid >= stack[m].kid
        BY <1>1, <3>2, FrameAt DEF SameCalls
      <3>4. Len(stack') <= Len(stack)
        BY <1>1, <3>2
      <3> QED
        BY <3>1, <3>2, <3>3, <3>4, DrawNothing DEF BuildInv
    <2> QED
      BY <2>1, <2>2
  <1>6. CASE Return
    <2> DEFINE d == Len(stack)
    <2>1. /\ d \in Nat \ {0} /\ stack' \in Seq(Frame) /\ Len(stack') = d - 1
          /\ \A m \in 1 .. d - 1 : stack'[m] = stack[m]
          /\ UNCHANGED <<sample, tree, rows, at>>
      BY <1>6, ReturnFacts
    <2>2. Len(stack') <= Len(stack) /\ DOMAIN stack' = 1 .. d - 1
      BY <1>1, <2>1
    <2>3. \A m \in DOMAIN stack' : m \in DOMAIN stack /\ stack[m].kid \in Nat
      BY <1>1, <2>1, <2>2, FrameAt
    <2>4. \A m \in DOMAIN stack' : stack'[m].pid = stack[m].pid /\ stack'[m].kid >= stack[m].kid
      BY <2>1, <2>2, <2>3
    <2>5. pc = "draw"
      BY <1>6 DEF Return
    <2> QED
      BY <2>1, <2>2, <2>4, <2>5, DrawNothing DEF BuildInv
  <1>7. CASE Finish
    BY <1>3, <1>7 DEF Finish, window
  <1> QED
    BY <1>1, <1>2, <1>3, <1>4, <1>5, <1>6, <1>7, NotYetDrawn DEF Draw, window

LEMMA DrawInit == Init => DrawInv
  <1> SUFFICES ASSUME Init PROVE DrawInv
    OBVIOUS
  <1>1. DOMAIN rows = {} /\ DOMAIN stack = {}
    BY DEF Init
  <1>2. Drawn = {}
    BY <1>1 DEF Drawn
  <1> QED
    BY <1>1, <1>2 DEF DrawInv, RowsOnce, RowsRight, FramesShown, RootsAhead, KidsAhead

----------------------------------------------------------------------------
(* The drawing: nobody is left out while there is room.                    *)

RootsBehind == \A r \in DOMAIN roots : r < at => roots[r] \in Drawn

KidsBehind ==
    \A m \in DOMAIN stack : \A x \in DOMAIN Children(stack[m].pid) :
       x < stack[m].kid => Children(stack[m].pid)[x] \in Drawn

\* Of a process whose loop has ended, all children are drawn.
LoopsEnded ==
    \A p \in Drawn : \/ \E m \in DOMAIN stack : stack[m].pid = p
                     \/ \A x \in DOMAIN Children(p) : Children(p)[x] \in Drawn

AllDrawn == RootsBehind /\ KidsBehind /\ LoopsEnded

CompleteInv ==
    /\ pc \in {"draw", "done"} /\ ~Full => AllDrawn
    /\ pc = "done" => stack = <<>> /\ (at > Len(roots) \/ Full)

(* What a call adds.                                                       *)
LEMMA AllDrawnDraw ==
    ASSUME SweepInv, Built, WindowInv, AllDrawn, NEW p, NEW last, NEW frames,
           Drawing(p, last, frames),
           \A r \in DOMAIN roots : r < at' => r < at \/ roots[r] = p,
           \A m \in DOMAIN frames : \A x \in DOMAIN Children(frames[m].pid) :
              x < frames[m].kid => Children(frames[m].pid)[x] \in Drawn \cup {p}
    PROVE  AllDrawn'
  <1> DEFINE d == Len(stack)
  <1>1. /\ DOMAIN frames = 1 .. d /\ DOMAIN stack = 1 .. d
        /\ \A m \in 1 .. d : frames[m].pid = stack[m].pid
        /\ \/ Children(p) = <<>> /\ stack' = frames
           \/ /\ DOMAIN stack' = 1 .. d + 1 /\ stack'[d + 1].pid = p /\ stack'[d + 1].kid = 1
              /\ \A m \in 1 .. d : stack'[m] = frames[m]
    BY DrawingFrames, RowAt
  <1>2. d \in Nat /\ p \in PidsOf(sample) /\ UNCHANGED <<sample, tree>>
    BY RowAt DEF Drawing
  <1>3. Drawn' = Drawn \cup {p} /\ roots' = roots /\ \A q : Children(q)' = Children(q)
    BY <1>2, DrawingRow, Fixed DEF tree
  <1> HIDE DEF d
  <1>4. \A m \in 1 .. d + 1 : m \in 1 .. d \/ m = d + 1
    BY <1>2
  <1>5. d + 1 \in 1 .. d + 1 /\ \A m \in 1 .. d : m \in 1 .. d + 1
    BY <1>2
  <1>6. RootsBehind'
    BY <1>3 DEF RootsBehind, AllDrawn
  <1>7. KidsBehind'
    <2>1. \A x \in DOMAIN Children(p) : ~(x < 1)
      <3>1. Children(p) \in Seq(Nat)
        BY <1>2, ChildrenOf
      <3> QED
        BY <3>1
    <2>2. \A m \in DOMAIN stack' : \A x \in DOMAIN Children(stack'[m].pid) :
             x < stack'[m].kid => Children(stack'[m].pid)[x] \in Drawn \cup {p}
      BY <1>1, <1>4, <2>1
    <2> QED
      BY <1>3, <2>2 DEF KidsBehind
  <1>8. LoopsEnded'
    <2>1. ASSUME NEW q \in Drawn \cup {p}
          PROVE  \/ \E m \in DOMAIN stack' : stack'[m].pid = q
                 \/ \A x \in DOMAIN Children(q) : Children(q)[x] \in Drawn \cup {p}
      <3>1. CASE q = p
        <4>1. DOMAIN <<>> = {}
          OBVIOUS
        <4> QED
          BY <1>1, <1>5, <3>1, <4>1
      <3>2. CASE q \in Drawn
        <4>1. ASSUME NEW m \in DOMAIN stack, stack[m].pid = q
              PROVE  \E l \in DOMAIN stack' : stack'[l].pid = q
          BY <1>1, <1>5, <4>1
        <4> QED
          BY <3>2, <4>1 DEF AllDrawn, LoopsEnded
      <3> QED
        BY <3>1, <3>2
    <2> QED
      BY <1>3, <2>1 DEF LoopsEnded
  <1> QED
    BY <1>6, <1>7, <1>8 DEF AllDrawn

LEMMA CompleteStep ==
    SweepInv /\ BuildInv /\ WindowInv /\ DrawInv /\ CompleteInv /\ [Next]_vars => CompleteInv'
  <1> SUFFICES ASSUME SweepInv, BuildInv, WindowInv, DrawInv, CompleteInv, [Next]_vars
               PROVE  CompleteInv'
    OBVIOUS
  <1>1. term_height \in Nat /\ stack \in Seq(Frame)
    BY DEF WindowInv
  <1>2. ASSUME rows' = <<>>, stack' = <<>>, pc' \in {"draw", "done"} => pc' = "draw" /\ at' = 1
        PROVE  CompleteInv'
    <2>1. DOMAIN rows' = {} /\ DOMAIN stack' = {}
      BY <1>2
    <2>2. Drawn' = {}
      BY <2>1 DEF Drawn
    <2>3. pc' = "draw" => RootsBehind'
      <3> SUFFICES ASSUME pc' = "draw" PROVE RootsBehind'
        OBVIOUS
      <3>1. Built'
        BY BuildStep DEF BuildInv
      <3>2. roots' \in Seq(Pid)
        BY <3>1 DEF Built, Counted, RootsTo
      <3> QED
        BY <1>2, <3>2 DEF RootsBehind
    <2>4. KidsBehind' /\ LoopsEnded'
      BY <2>1, <2>2 DEF KidsBehind, LoopsEnded
    <2> QED
      BY <1>2, <2>3, <2>4 DEF CompleteInv, AllDrawn
  <1>3. CASE UNCHANGED <<sample, tree, window, pc, at, term_height>>
    <2>1. UNCHANGED <<roots, stack, rows, prefix>> /\ Drawn' = Drawn /\ Full' = Full
      BY <1>3 DEF tree, window, Drawn, Full
    <2>2. \A q : Children(q)' = Children(q)
      BY <1>3, Fixed
    <2> QED
      BY <1>3, <2>1, <2>2 DEF CompleteInv, AllDrawn, RootsBehind, KidsBehind, LoopsEnded
  <1>4. CASE NextRoot
    <2> DEFINE p == roots[at]
               last == (at = Len(roots))
    <2>1. /\ at \in DOMAIN roots /\ at' = at + 1 /\ Drawing(p, last, <<>>)
          /\ pc = "draw" /\ pc' = "draw" /\ ~Full
      BY <1>4, RootDrawing DEF NextRoot
    <2>2. Built /\ AllDrawn
      BY <2>1 DEF BuildInv, CompleteInv
    <2>3. at \in Nat /\ roots \in Seq(Pid)
      BY <2>2, RootsAre DEF SweepInv, Swept
    <2>4. \A r \in DOMAIN roots : r < at' => r < at \/ roots[r] = p
      BY <2>1, <2>3
    <2>5. DOMAIN <<>> = {}
      OBVIOUS
    <2> HIDE DEF p, last
    <2>6. AllDrawn'
      BY <2>1, <2>2, <2>4, <2>5, AllDrawnDraw
    <2> QED
      BY <2>1, <2>6 DEF CompleteInv
  <1>5. CASE NextChild
    <2> DEFINE d == Len(stack)
               kids == Children(stack[d].pid)
               x == stack[d].kid
               p == kids[x]
               frames == Advanced(stack)
    <2>1. /\ stack # <<>> /\ x \in DOMAIN kids /\ UNCHANGED <<sample, tree, at, pc, term_height>>
          /\ \/ Full /\ UNCHANGED rows
             \/ Drawing(p, ~Continues(p), frames)
      BY <1>5, ChildDrawing
    <2>2. pc = "draw" /\ pc' = "draw"
      BY <1>5 DEF NextChild
    <2>3. CASE Full /\ UNCHANGED rows
      BY <2>1, <2>2, <2>3 DEF CompleteInv, Full
    <2>4. CASE Drawing(p, ~Continues(p), frames)
      <3>1. Built /\ AllDrawn
        BY <2>2, <2>4 DEF BuildInv, CompleteInv, Drawing
      <3>2. d \in Nat \ {0} /\ d \in DOMAIN stack /\ DOMAIN stack = 1 .. d
        BY <2>1, TopIs, RowAt
      <3>3. frames[d].kid = x + 1 /\ \A m \in 1 .. d : m # d => frames[m] = stack[m]
        BY <1>1, <2>1, AdvancedFacts
      <3>4. DOMAIN frames = 1 .. d /\ \A m \in 1 .. d : frames[m].pid = stack[m].pid
        BY <2>4, DrawingFrames
      <3>5. kids \in Seq(Nat)
        BY <3>1, <3>2, ChildrenOf DEF WindowInv
      <3> HIDE DEF frames, p
      <3>6. ASSUME NEW m \in DOMAIN frames, NEW y \in DOMAIN Children(frames[m].pid),
                   y < frames[m].kid
            PROVE  Children(frames[m].pid)[y] \in Drawn \cup {p}
        <4>1. CASE m = d
          <5>1. y \in DOMAIN kids /\ y < x + 1
            BY <3>2, <3>3, <3>4, <3>6, <4>1
          <5>2. y < x \/ y = x
            BY <2>1, <3>5, <5>1
          <5> QED
            BY <3>1, <3>2, <3>4, <4>1, <5>1, <5>2 DEF AllDrawn, KidsBehind, p
        <4>2. CASE m # d
          BY <3>1, <3>2, <3>3, <3>4, <3>6, <4>2 DEF AllDrawn, KidsBehind
        <4> QED
          BY <4>1, <4>2
      <3>7. AllDrawn'
        BY <2>1, <2>4, <3>1, <3>6, AllDrawnDraw
      <3> QED
        BY <2>2, <3>7 DEF CompleteInv
    <2> QED
      BY <2>1, <2>3, <2>4
  <1>6. CASE Return
    <2> DEFINE d == Len(stack)
    <2>1. /\ d \in Nat \ {0} /\ d \in DOMAIN stack /\ stack' \in Seq(Frame) /\ Len(stack') = d - 1
          /\ \A m \in 1 .. d - 1 : stack'[m] = stack[m]
          /\ stack[d].kid > Len(Children(stack[d].pid))
          /\ UNCHANGED <<sample, tree, rows, at, pc, term_height>>
      BY <1>6, ReturnFacts
    <2>2. pc = "draw" /\ Full' = Full /\ Drawn' = Drawn /\ roots' = roots
      BY <1>6, <2>1 DEF Return, Full, Drawn, tree
    <2>3. \A q : Children(q)' = Children(q)
      BY <2>1, Fixed
    <2>4. DOMAIN stack' = 1 .. d - 1 /\ DOMAIN stack = 1 .. d
      BY <1>1, <2>1
    <2> HIDE DEF d
    <2>5. \A m \in 1 .. d : m \in 1 .. d - 1 \/ m = d
      BY <2>1
    <2>6. \A m \in 1 .. d - 1 : m \in 1 .. d
      BY <2>1
    <2>7. \A y \in DOMAIN Children(stack[d].pid) : y < stack[d].kid
      <3>1. Children(stack[d].pid) \in Seq(Nat) /\ stack[d].kid \in Nat
        BY <1>1, <2>1, <2>2, ChildrenOf, FrameAt DEF BuildInv, WindowInv
      <3> QED
        BY <2>1, <3>1
    <2>8. ASSUME AllDrawn PROVE AllDrawn'
      <3>1. RootsBehind'
        BY <2>1, <2>2, <2>8 DEF AllDrawn, RootsBehind
      <3>2. KidsBehind'
        BY <2>1, <2>2, <2>3, <2>4, <2>6, <2>8 DEF AllDrawn, KidsBehind
      <3>3. LoopsEnded'
        <4>1. ASSUME NEW q \in Drawn
              PROVE  \/ \E m \in DOMAIN stack' : stack'[m].pid = q
                     \/ \A y \in DOMAIN Children(q) : Children(q)[y] \in Drawn
          <5>1. CASE q = stack[d].pid
            BY <2>1, <2>7, <2>8, <5>1 DEF AllDrawn, KidsBehind
          <5>2. ASSUME NEW m \in DOMAIN stack, stack[m].pid = q, q # stack[d].pid
                PROVE  \E l \in DOMAIN stack' : stack'[l].pid = q
            BY <2>1, <2>4, <2>5, <5>2
          <5> QED
            BY <2>8, <5>1, <5>2 DEF AllDrawn, LoopsEnded
        <4> QED
          BY <2>2, <2>3, <4>1 DEF LoopsEnded
      <3> QED
        BY <3>1, <3>2, <3>3 DEF AllDrawn
    <2> QED
      BY <2>1, <2>2, <2>8 DEF CompleteInv
  <1>7. CASE Finish
    <2>1. /\ pc = "draw" /\ stack = <<>> /\ (at > Len(roots) \/ Full) /\ pc' = "done"
          /\ UNCHANGED <<sample, tree, roots, stack, rows, at, term_height>>
      BY <1>7 DEF Finish, window, tree
    <2>2. Drawn' = Drawn /\ Full' = Full /\ \A q : Children(q)' = Children(q)
      BY <2>1, Fixed DEF Drawn, Full
    <2> QED
      BY <2>1, <2>2 DEF CompleteInv, AllDrawn, RootsBehind, KidsBehind, LoopsEnded
  <1> QED
    BY <1>1, <1>2, <1>3, <1>4, <1>5, <1>6, <1>7, NotYetDrawn DEF Draw

LEMMA CompleteInit == Init => CompleteInv
  BY DEF Init, CompleteInv
(* A set of numbers has a least one.                                       *)
LEMMA HasLeast ==
    ASSUME NEW S \in SUBSET Nat, S # {}
    PROVE  \E i \in S : \A j \in S : i <= j
  <1> DEFINE R == OpToRel(<, Nat)
  <1>1. IsWellFoundedOn(R, Nat)
    BY NatLessThanWellFounded
  <1>2. \A i, j \in S : <<j, i>> \in R <=> j < i
    BY DEF OpToRel
  <1> HIDE DEF R
  <1>3. PICK i \in S : \A j \in S : ~(<<j, i>> \in R)
    BY <1>1, WFMin, Zenon
  <1>4. ASSUME NEW j \in S PROVE i <= j
    <2>1. ~(j < i)
      BY <1>2, <1>3
    <2> QED
      BY <2>1
  <1> QED
    BY <1>4

(* When the drawing is over and the window has room, the way up from a     *)
(* process that is not drawn never leaves the processes that are not, and  *)
(* of the drawn ones in any set the uppermost has its parent elsewhere.    *)
LEMMA RootedFacts ==
    SweepInv /\ BuildInv /\ WindowInv /\ DrawInv /\ CompleteInv => RootedAreDrawn
  <1> SUFFICES ASSUME SweepInv, BuildInv, WindowInv, DrawInv, CompleteInv, pc = "done", ~Full
               PROVE  Drawn = {p \in PidsOf(sample) : Rooted(p)}
    BY DEF RootedAreDrawn
  <1>1. Built /\ AllDrawn /\ stack = <<>> /\ at > Len(roots)
    BY DEF BuildInv, CompleteInv
  <1>2. Drawn \subseteq PidsOf(sample)
    BY RowAt DEF Drawn
  <1>3. ASSUME NEW p \in PidsOf(sample), Rooted(p) PROVE p \in Drawn
    <2> DEFINE C == PidsOf(sample) \ Drawn
    <2>1. SUFFICES ASSUME p \in C PROVE FALSE
      OBVIOUS
    <2>2. C \in SUBSET PidsOf(sample)
      OBVIOUS
    <2>3. PICK q \in C : PpidOf(q) \notin C
      BY <1>3, <2>1, <2>2, Zenon DEF Rooted
    <2>4. CASE PpidOf(q) \notin PidsOf(sample)
      <3>1. roots \in Seq(Pid) /\ q \in Range(roots) /\ at \in Nat
        BY <1>1, <2>3, <2>4, RootsAre DEF SweepInv, Swept
      <3>2. PICK r \in DOMAIN roots : roots[r] = q
        BY <3>1 DEF Range
      <3>3. r < at
        BY <1>1, <3>1, <3>2
      <3> QED
        BY <1>1, <2>3, <3>2, <3>3 DEF AllDrawn, RootsBehind
    <2>5. CASE PpidOf(q) \in PidsOf(sample)
      <3> DEFINE u == PpidOf(q)
      <3>1. u \in Drawn /\ q \in PidsOf(sample)
        BY <2>3, <2>5
      <3>2. q \in Range(Children(u))
        BY <1>1, <2>5, <3>1, ChildrenOf
      <3>3. DOMAIN stack = {}
        BY <1>1
      <3> HIDE DEF u
      <3>4. PICK x \in DOMAIN Children(u) : Children(u)[x] = q
        BY <3>2 DEF Range
      <3>5. q \in Drawn
        BY <1>1, <3>1, <3>3, <3>4 DEF AllDrawn, LoopsEnded
      <3> QED
        BY <2>3, <3>5
    <2> QED
      BY <2>4, <2>5
  <1>4. ASSUME NEW p \in Drawn, NEW C \in SUBSET PidsOf(sample), p \in C
        PROVE  \E q \in C : PpidOf(q) \notin C
    <2> DEFINE S == {i \in DOMAIN rows : rows[i].pid \in C}
    <2>1. S \in SUBSET Nat /\ S # {}
      BY <1>4, RowAt DEF Drawn
    <2> HIDE DEF S
    <2>2. PICK i \in S : \A j \in S : i <= j
      BY <2>1, HasLeast
    <2>3. i \in DOMAIN rows /\ rows[i].pid \in C
      BY <2>2 DEF S
    <2>4. CASE rows[i].depth = 0
      <3>1. rows[i].pid \in Range(roots)
        BY <2>3, <2>4 DEF DrawInv, RowsRight
      <3>2. PpidOf(rows[i].pid) \notin PidsOf(sample)
        BY <1>1, <3>1, RootsAre
      <3> QED
        BY <2>3, <3>2
    <2>5. CASE rows[i].depth # 0
      <3>1. PICK j \in 1 .. i - 1 : rows[j].pid = PpidOf(rows[i].pid)
        BY <2>3, <2>5 DEF DrawInv, RowsRight
      <3>2. j \in DOMAIN rows /\ ~(i <= j)
        BY <2>3, <3>1, RowAt
      <3>3. rows[j].pid \notin C
        BY <2>2, <3>2 DEF S
      <3> QED
        BY <2>3, <3>1, <3>3
    <2> QED
      BY <2>4, <2>5
  <1> QED
    BY <1>2, <1>3, <1>4 DEF Rooted

(* Whatever is sampled, also PPIDs that go in a circle: a window that has  *)
(* room shows exactly the processes whose way up leaves the sample.        *)
THEOREM RootedDrawn == Spec => []RootedAreDrawn
  <1>1. Init => SweepInv /\ BuildInv /\ WindowInv /\ DrawInv /\ CompleteInv
    BY SweepInit, BuildInit, WindowInit, DrawInit, CompleteInit
  <1>2. SweepInv /\ BuildInv /\ WindowInv /\ DrawInv /\ CompleteInv /\ [Next]_vars
        => (SweepInv /\ BuildInv /\ WindowInv /\ DrawInv /\ CompleteInv)'
    BY SweepStep, BuildStep, WindowStep, DrawStep, CompleteStep
  <1> QED
    BY <1>1, <1>2, RootedFacts, PTL DEF Spec

----------------------------------------------------------------------------
(* The drawing: the bars and blanks of the prefix.                         *)

\* Who has siblings below; the bars and blanks for the calls from the second
\* on, which are not roots.
Ongoing == [p \in PidsOf(sample) |-> Continues(p)]

Bars(open, frames, m) == [k \in 1 .. m |-> open[frames[k + 1].pid]]

\* A frame knows the length of the prefix of its row; what the calls since
\* have added comes after it.
PrefixIn(open, frames, pre) ==
    /\ frames = <<>> => pre = <<>>
    /\ \A m \in DOMAIN frames : m = 1 => frames[m].len = 0
    /\ \A m \in DOMAIN frames :
          m > 1 /\ Bytes(Bars(open, frames, m - 2)) < PrefixMax =>
             /\ frames[m].len = m - 2
             /\ \A k \in 1 .. m - 2 : pre[k] = open[frames[k + 1].pid]
    /\ frames # <<>> /\ Bytes(Bars(open, frames, Len(frames) - 1)) < PrefixMax
          => pre = Bars(open, frames, Len(frames) - 1)

PrefixRight == PrefixIn(Ongoing, stack, prefix)

(* The bars are a sequence.                                                *)
LEMMA BarsAre ==
    ASSUME NEW S, NEW open \in [S -> BOOLEAN], NEW frames, NEW m \in Nat,
           \A k \in 1 .. m : frames[k + 1].pid \in S
    PROVE  /\ Bars(open, frames, m) \in Seq(BOOLEAN) /\ Len(Bars(open, frames, m)) = m
           /\ \A k \in 1 .. m : Bars(open, frames, m)[k] = open[frames[k + 1].pid]
  BY DEF Bars

(* Who has siblings below is fixed with the tree.                          *)
LEMMA OngoingIs ==
    /\ Ongoing \in [PidsOf(sample) -> BOOLEAN]
    /\ \A p \in PidsOf(sample) : Ongoing[p] = Continues(p)
    /\ UNCHANGED <<sample, tree>> => Ongoing' = Ongoing
  <1>1. \A p : Continues(p) \in BOOLEAN
    BY DEF Continues
  <1>2. UNCHANGED <<sample, tree>> => Ongoing' = Ongoing
    BY Fixed DEF Ongoing
  <1> QED
    BY <1>1, <1>2 DEF Ongoing

(* The first call leaves no prefix: a root has neither bar nor blank.      *)
LEMMA PrefixRoot ==
    ASSUME SweepInv, WindowInv, PrefixRight, NEW p, NEW last, NEW frames,
           Drawing(p, last, frames), stack = <<>>
    PROVE  PrefixRight'
  <1> DEFINE open == Ongoing
  <1>1. Len(stack) = 0 /\ prefix = <<>> /\ Len(prefix) = 0 /\ Ongoing' = open
    BY OngoingIs DEF PrefixRight, PrefixIn, Drawing
  <1> HIDE DEF open
  <1>2. /\ Len(frames) = 0 /\ frames \in Seq(Frame)
        /\ \/ stack' = frames /\ prefix' = prefix
           \/ /\ prefix' = Extended(0, last)
              /\ stack' \in Seq(Frame) /\ Len(stack') = 1 /\ stack'[1].len = 0
    <2>1. 0 + 1 = 1
      OBVIOUS
    <2> QED
      BY <1>1, <2>1, DrawingFrames DEF Drawing
  <1>3. Extended(0, last) = prefix
    BY DEF Extended
  <1>4. CASE stack' = frames /\ prefix' = prefix
    <2>1. stack' = <<>> /\ prefix' = <<>> /\ DOMAIN stack' = {}
      BY <1>1, <1>2, <1>4
    <2> QED
      BY <2>1 DEF PrefixRight, PrefixIn
  <1>5. CASE /\ prefix' = Extended(0, last)
             /\ stack' \in Seq(Frame) /\ Len(stack') = 1 /\ stack'[1].len = 0
    <2>1. prefix' = <<>> /\ \A m \in DOMAIN stack' : m = 1
      BY <1>1, <1>3, <1>5
    <2>2. stack' # <<>> /\ Len(stack') - 1 = 0 /\ ~(1 > 1)
      BY <1>5
    <2>3. Bars(open, stack', 0) = <<>>
      BY DEF Bars
    <2> QED
      BY <1>1, <1>5, <2>1, <2>2, <2>3 DEF PrefixRight, PrefixIn
  <1> QED
    BY <1>2, <1>4, <1>5

(* A call leaves a prefix with its bar or blank for its children.          *)
LEMMA PrefixChild ==
    ASSUME SweepInv, WindowInv, PrefixRight, NEW p, NEW last, NEW frames,
           Drawing(p, last, frames), stack # <<>>
    PROVE  PrefixRight'
  <1> DEFINE d == Len(stack)
             open == Ongoing
  <1>1. /\ d \in Nat \ {0} /\ DOMAIN stack = 1 .. d /\ d \in DOMAIN stack /\ stack \in Seq(Frame)
        /\ prefix \in Seq(BOOLEAN) /\ Len(prefix) \in Nat /\ Bytes(prefix) < PrefixMax
        /\ \A m \in 1 .. d : stack[m].len \in Nat /\ stack[m].len <= Len(prefix)
    BY RowAt, TopIs, FrameAt DEF WindowInv
  <1>2. /\ open \in [PidsOf(sample) -> BOOLEAN] /\ Ongoing' = open /\ p \in PidsOf(sample)
        /\ last \in BOOLEAN /\ last = ~open[p]
        /\ \A m \in 1 .. d : stack[m].pid \in PidsOf(sample)
    BY <1>1, OngoingIs DEF Drawing, WindowInv
  <1>3. /\ DOMAIN frames = 1 .. d /\ Len(frames) = d
        /\ \A m \in 1 .. d : frames[m].pid = stack[m].pid /\ frames[m].len = stack[m].len
        /\ \/ stack' = frames /\ prefix' = prefix
           \/ /\ prefix' = Extended(d, last)
              /\ Len(stack') = d + 1 /\ DOMAIN stack' = 1 .. d + 1
              /\ \A m \in 1 .. d : stack'[m] = frames[m]
              /\ stack'[d + 1].pid = p /\ stack'[d + 1].len = Len(prefix)
    BY DrawingFrames
  <1>4. /\ \A m \in DOMAIN stack : m = 1 => stack[m].len = 0
        /\ \A m \in DOMAIN stack :
              m > 1 /\ Bytes(Bars(open, stack, m - 2)) < PrefixMax =>
                 /\ stack[m].len = m - 2
                 /\ \A k \in 1 .. m - 2 : prefix[k] = open[stack[k + 1].pid]
        /\ Bytes(Bars(open, stack, d - 1)) < PrefixMax => prefix = Bars(open, stack, d - 1)
    BY DEF PrefixRight, PrefixIn
  <1> HIDE DEF d, open
  <1>6. /\ \A m \in 1 .. d : stack'[m].pid = stack[m].pid /\ stack'[m].len = stack[m].len
        /\ stack' # <<>> /\ Len(stack') \in {d, d + 1} /\ DOMAIN stack' = 1 .. Len(stack')
    <2>1. frames # <<>> /\ stack' = frames => stack' # <<>>
      BY <1>1, <1>3
    <2>2. DOMAIN stack' = 1 .. d + 1 => stack' # <<>>
      <3>1. d + 1 \in 1 .. d + 1 /\ DOMAIN <<>> = {}
        BY <1>1
      <3> QED
        BY <3>1
    <2>3. frames # <<>>
      <3>1. d \in 1 .. d /\ DOMAIN <<>> = {}
        BY <1>1
      <3> QED
        BY <1>3, <3>1
    <2> QED
      BY <1>3, <2>1, <2>2, <2>3
  <1>7. ASSUME NEW m \in Nat, m < d PROVE Bars(open, stack', m) = Bars(open, stack, m)
    <2>1. \A k \in 1 .. m : k + 1 \in 1 .. d
      BY <1>1, <1>7
    <2> QED
      BY <1>6, <2>1 DEF Bars
  <1>8. Len(prefix) <= Len(prefix') /\ \A k \in 1 .. Len(prefix) : prefix'[k] = prefix[k]
    <2>1. /\ Len(prefix) <= Len(Extended(d, last))
          /\ \A k \in 1 .. Len(prefix) : Extended(d, last)[k] = prefix[k]
      BY <1>1, <1>2, ExtendedFits
    <2> QED
      BY <1>1, <1>3, <2>1
  <1>9. \A m \in 1 .. d : m = 1 => stack'[m].len = 0
    BY <1>1, <1>4, <1>6
  <1>10. ASSUME NEW m \in 1 .. d, m > 1, Bytes(Bars(open, stack', m - 2)) < PrefixMax
         PROVE  /\ stack'[m].len = m - 2
                /\ \A k \in 1 .. m - 2 : prefix'[k] = open[stack'[k + 1].pid]
    <2>1. m - 2 \in Nat /\ m - 2 < d /\ \A k \in 1 .. m - 2 : k + 1 \in 1 .. d
      BY <1>1, <1>10
    <2>2. Bars(open, stack', m - 2) = Bars(open, stack, m - 2)
      BY <1>7, <2>1
    <2>3. stack[m].len = m - 2 /\ \A k \in 1 .. m - 2 : prefix[k] = open[stack[k + 1].pid]
      BY <1>1, <1>4, <1>10, <2>2
    <2>4. \A k \in 1 .. m - 2 : k \in 1 .. Len(prefix)
      BY <1>1, <2>1, <2>3
    <2>5. \A k \in 1 .. m - 2 : prefix'[k] = prefix[k] /\ stack'[k + 1].pid = stack[k + 1].pid
      BY <1>6, <1>8, <2>1, <2>4
    <2> QED
      BY <1>6, <2>3, <2>5
  <1>11. CASE stack' = frames /\ prefix' = prefix
    <2>1. Len(stack') = d /\ d - 1 \in Nat /\ d - 1 < d
      BY <1>1, <1>3, <1>11
    <2>2. Bars(open, stack', d - 1) = Bars(open, stack, d - 1)
      BY <1>7, <2>1
    <2>3. PrefixIn(open, stack', prefix')
      BY <1>4, <1>6, <1>9, <1>10, <1>11, <2>1, <2>2 DEF PrefixIn
    <2> QED
      BY <1>2, <2>3 DEF PrefixRight
  <1>12. CASE /\ prefix' = Extended(d, last) /\ Len(stack') = d + 1
              /\ stack'[d + 1].pid = p /\ stack'[d + 1].len = Len(prefix)
    <2> DEFINE old == Bars(open, stack, d - 1)
               all == Bars(open, stack', d)
    <2>1. d - 1 \in Nat /\ d - 1 < d /\ d \in Nat /\ d > 0
      BY <1>1
    <2>2. /\ \A k \in 1 .. d - 1 : k \in 1 .. d /\ k + 1 \in 1 .. d
          /\ \A k \in 1 .. d : k \in 1 .. d - 1 \/ k = d
      BY <2>1
    <2>3. old \in Seq(BOOLEAN) /\ Len(old) = d - 1
          /\ \A k \in 1 .. d - 1 : old[k] = open[stack[k + 1].pid]
      <3>1. \A k \in 1 .. d - 1 : stack[k + 1].pid \in PidsOf(sample)
        BY <1>2, <2>2
      <3>2. open \in [PidsOf(sample) -> BOOLEAN] /\ d - 1 \in Nat
        BY <1>2, <2>1
      <3>3. ASSUME NEW m \in Nat, \A k \in 1 .. m : stack[k + 1].pid \in PidsOf(sample)
            PROVE  /\ Bars(open, stack, m) \in Seq(BOOLEAN) /\ Len(Bars(open, stack, m)) = m
                   /\ \A k \in 1 .. m : Bars(open, stack, m)[k] = open[stack[k + 1].pid]
        BY <3>2, <3>3, BarsAre
      <3> QED
        BY <3>1, <3>2, <3>3
    <2>4. \A k \in 1 .. d : stack'[k + 1].pid \in PidsOf(sample)
      BY <1>2, <1>6, <1>12, <2>2
    <2>5. all \in Seq(BOOLEAN) /\ Len(all) = d
          /\ \A k \in 1 .. d : all[k] = open[stack'[k + 1].pid]
      BY <1>2, <2>1, <2>4, BarsAre
    <2>6. Bars(open, stack', d - 1) = old
      BY <1>7, <2>1
    <2> HIDE DEF old, all
    <2>7. all[d] = open[p] /\ \A k \in 1 .. d - 1 : all[k] = old[k]
      <3>1. all[d] = open[p]
        <4>1. d \in 1 .. d
          BY <2>1
        <4> QED
          BY <1>12, <2>5, <4>1
      <3>2. ASSUME NEW k \in 1 .. d - 1 PROVE all[k] = old[k]
        <4>1. stack'[k + 1].pid = stack[k + 1].pid
          BY <1>6, <2>2
        <4> QED
          BY <2>2, <2>3, <2>5, <4>1
      <3> QED
        BY <3>1, <3>2
    <2>8. Bytes(old) <= Bytes(all) /\ Bytes(old) \in Nat /\ Bytes(all) \in Nat
      <3>1. Len(old) <= Len(all)
        BY <2>1, <2>3, <2>5
      <3>2. \A k \in 1 .. Len(old) : old[k] = all[k]
        BY <2>3, <2>7
      <3> QED
        BY <2>3, <2>5, <3>1, <3>2, BytesGrow
    <2>9. all = Append(old, open[p])
      <3>1. open[p] \in BOOLEAN
        BY <1>2
      <3>2. /\ Append(old, open[p]) \in Seq(BOOLEAN) /\ Len(Append(old, open[p])) = d
            /\ \A k \in 1 .. d - 1 : Append(old, open[p])[k] = old[k]
            /\ Append(old, open[p])[d] = open[p]
        BY <2>1, <2>3, <3>1
      <3> QED
        BY <2>2, <2>5, <2>7, <3>2
    <2>10. (~last) = open[p]
      BY <1>2
    <2>11. Bytes(all) < PrefixMax => prefix' = all
      <3> SUFFICES ASSUME Bytes(all) < PrefixMax PROVE prefix' = all
        OBVIOUS
      <3>1. Bytes(old) < PrefixMax
        BY <2>8, TreeAssumption
      <3>2. prefix = old
        BY <1>4, <3>1 DEF old
      <3>3. Append(prefix, ~last) = all
        BY <2>9, <2>10, <3>2
      <3> QED
        BY <1>12, <2>1, <3>3, Zenon DEF Extended
    <2>12. Bytes(old) < PrefixMax =>
             /\ Len(prefix) = d - 1
             /\ \A k \in 1 .. d - 1 : prefix'[k] = open[stack'[k + 1].pid]
      <3> SUFFICES ASSUME Bytes(old) < PrefixMax
                   PROVE  /\ Len(prefix) = d - 1
                          /\ \A k \in 1 .. d - 1 : prefix'[k] = open[stack'[k + 1].pid]
        OBVIOUS
      <3>1. prefix = old
        BY <1>4 DEF old
      <3>2. Len(prefix) = d - 1 /\ \A k \in 1 .. d - 1 : prefix'[k] = old[k]
        BY <1>8, <2>3, <3>1
      <3> QED
        BY <2>2, <2>5, <2>7, <3>2
    <2>13. /\ (d + 1) - 1 = d /\ (d + 1) - 2 = d - 1 /\ d + 1 > 1 /\ d + 1 # 1
           /\ \A m \in 1 .. d + 1 : m \in 1 .. d \/ m = d + 1
      BY <2>1
    <2>14. \A m \in DOMAIN stack' : m = 1 => stack'[m].len = 0
      BY <1>6, <1>9, <1>12, <2>13
    <2>15. ASSUME NEW m \in DOMAIN stack', m > 1, Bytes(Bars(open, stack', m - 2)) < PrefixMax
           PROVE  /\ stack'[m].len = m - 2
                  /\ \A k \in 1 .. m - 2 : prefix'[k] = open[stack'[k + 1].pid]
      <3>1. CASE m \in 1 .. d
        BY <1>10, <2>15, <3>1
      <3>2. CASE m = d + 1
        <4>1. m - 2 = d - 1
          BY <2>13, <3>2
        <4>2. Bytes(old) < PrefixMax
          BY <2>6, <2>15, <4>1
        <4> QED
          BY <1>12, <2>12, <3>2, <4>1, <4>2
      <3> QED
        BY <1>6, <1>12, <2>13, <3>1, <3>2
    <2>16. Bytes(Bars(open, stack', Len(stack') - 1)) < PrefixMax
             => prefix' = Bars(open, stack', Len(stack') - 1)
      BY <1>12, <2>11, <2>13 DEF all
    <2>17. PrefixIn(open, stack', prefix')
      BY <1>6, <2>14, <2>15, <2>16 DEF PrefixIn
    <2> QED
      BY <1>2, <2>17 DEF PrefixRight
  <1> QED
    BY <1>3, <1>11, <1>12
(* When a call returns its part of the prefix goes.                        *)
LEMMA PrefixReturn ==
    ASSUME SweepInv, WindowInv, PrefixRight, Return
    PROVE  PrefixRight'
  <1> DEFINE d == Len(stack)
             open == Ongoing
             len == stack[d].len
  <1>1. /\ d \in Nat \ {0} /\ d \in DOMAIN stack /\ stack # <<>>
        /\ stack' \in Seq(Frame) /\ Len(stack') = d - 1
        /\ \A m \in 1 .. d - 1 : stack'[m] = stack[m]
        /\ prefix' \in Seq(BOOLEAN) /\ Len(prefix') = len
        /\ \A i \in 1 .. Len(prefix') : prefix'[i] = prefix[i]
        /\ Ongoing' = open
    BY ReturnFacts, OngoingIs
  <1>2. /\ DOMAIN stack = 1 .. d /\ len \in Nat
        /\ \A m \in 1 .. d : /\ stack[m].len \in Nat /\ stack[m].pid \in PidsOf(sample)
                             /\ m <= d => stack[m].len <= len
    BY <1>1, RowAt, FrameAt DEF WindowInv
  <1>3. /\ \A m \in DOMAIN stack : m = 1 => stack[m].len = 0
        /\ \A m \in DOMAIN stack :
              m > 1 /\ Bytes(Bars(open, stack, m - 2)) < PrefixMax =>
                 /\ stack[m].len = m - 2
                 /\ \A k \in 1 .. m - 2 : prefix[k] = open[stack[k + 1].pid]
    BY DEF PrefixRight, PrefixIn
  <1>4. open \in [PidsOf(sample) -> BOOLEAN]
    BY OngoingIs
  <1> HIDE DEF d, open, len
  <1>5. DOMAIN stack' = 1 .. d - 1 /\ \A m \in 1 .. d - 1 : m \in 1 .. d /\ m <= d
    BY <1>1
  <1>6. ASSUME NEW m \in Nat, m < d - 1 PROVE Bars(open, stack', m) = Bars(open, stack, m)
    <2>1. \A k \in 1 .. m : k + 1 \in 1 .. d - 1
      BY <1>1, <1>6
    <2> QED
      BY <1>1, <2>1 DEF Bars
  <1>7. \A m \in DOMAIN stack' : m = 1 => stack'[m].len = 0
    BY <1>1, <1>2, <1>3, <1>5
  <1>8. ASSUME NEW m \in DOMAIN stack', m > 1, Bytes(Bars(open, stack', m - 2)) < PrefixMax
        PROVE  /\ stack'[m].len = m - 2
               /\ \A k \in 1 .. m - 2 : prefix'[k] = open[stack'[k + 1].pid]
    <2>1. m \in 1 .. d - 1 /\ m - 2 \in Nat /\ m - 2 < d - 1
      BY <1>1, <1>5, <1>8
    <2>2. Bytes(Bars(open, stack, m - 2)) < PrefixMax
      BY <1>6, <1>8, <2>1
    <2>3. stack[m].len = m - 2 /\ \A k \in 1 .. m - 2 : prefix[k] = open[stack[k + 1].pid]
      BY <1>2, <1>3, <1>5, <1>8, <2>1, <2>2
    <2>4. m - 2 <= len
      BY <1>2, <1>5, <2>1, <2>3
    <2>5. \A k \in 1 .. m - 2 : k \in 1 .. len /\ k + 1 \in 1 .. d - 1
      BY <1>1, <1>2, <2>1, <2>4
    <2> QED
      BY <1>1, <2>1, <2>3, <2>5
  <1>9. CASE d = 1
    <2>1. stack' = <<>> /\ len = 0
      BY <1>1, <1>2, <1>3, <1>9 DEF len
    <2>2. prefix' = <<>>
      BY <1>1, <2>1
    <2>3. DOMAIN <<>> = {}
      OBVIOUS
    <2> QED
      BY <2>1, <2>2, <2>3 DEF PrefixRight, PrefixIn
  <1>10. CASE d # 1
    <2> DEFINE all == Bars(open, stack', d - 2)
    <2>1. d > 1 /\ d - 2 \in Nat /\ d - 2 < d - 1 /\ (d - 1) - 1 = d - 2
      BY <1>1, <1>10
    <2>2. all = Bars(open, stack, d - 2)
      BY <1>6, <2>1
    <2>3. all \in Seq(BOOLEAN) /\ Len(all) = d - 2
          /\ \A k \in 1 .. d - 2 : all[k] = open[stack[k + 1].pid]
      <3>1. \A k \in 1 .. d - 2 : stack[k + 1].pid \in PidsOf(sample)
        <4>1. \A k \in 1 .. d - 2 : k + 1 \in 1 .. d
          BY <1>1, <2>1
        <4> QED
          BY <1>2, <4>1
      <3>2. /\ Bars(open, stack, d - 2) \in Seq(BOOLEAN) /\ Len(Bars(open, stack, d - 2)) = d - 2
            /\ \A k \in 1 .. d - 2 : Bars(open, stack, d - 2)[k] = open[stack[k + 1].pid]
        <4>1. \A m \in Nat :
                 (\A k \in 1 .. m : stack[k + 1].pid \in PidsOf(sample)) =>
                    /\ Bars(open, stack, m) \in Seq(BOOLEAN) /\ Len(Bars(open, stack, m)) = m
                    /\ \A k \in 1 .. m : Bars(open, stack, m)[k] = open[stack[k + 1].pid]
          BY <1>4, BarsAre
        <4> QED
          BY <2>1, <3>1, <4>1
      <3> HIDE DEF all
      <3> QED
        BY <2>2, <3>2
    <2> HIDE DEF all
    <2>4. Bytes(all) < PrefixMax => prefix' = all
      <3> SUFFICES ASSUME Bytes(all) < PrefixMax PROVE prefix' = all
        OBVIOUS
      <3>1. len = d - 2 /\ \A k \in 1 .. d - 2 : prefix[k] = open[stack[k + 1].pid]
        BY <1>1, <1>3, <2>1, <2>2 DEF len
      <3>2. Len(prefix') = d - 2 /\ \A k \in 1 .. d - 2 : prefix'[k] = all[k]
        BY <1>1, <2>3, <3>1
      <3>3. prefix' \in Seq(BOOLEAN)
        BY <1>1
      <3> QED
        BY <2>1, <2>3, <3>2, <3>3
    <2>5. stack' # <<>>
      BY <1>1, <2>1
    <2>6. Bytes(Bars(open, stack', Len(stack') - 1)) < PrefixMax
            => prefix' = Bars(open, stack', Len(stack') - 1)
      BY <1>1, <2>1, <2>4 DEF all
    <2>7. PrefixIn(open, stack', prefix')
      BY <1>7, <1>8, <2>5, <2>6 DEF PrefixIn
    <2> QED
      BY <1>1, <2>7 DEF PrefixRight
  <1> QED
    BY <1>9, <1>10

(* The loop of a call goes on without a row.                               *)
LEMMA PrefixSame ==
    ASSUME WindowInv, PrefixRight, UNCHANGED <<sample, tree, prefix>>, stack' \in Seq(Frame),
           SameCalls(stack', stack)
    PROVE  PrefixRight'
  <1> DEFINE open == Ongoing
             d == Len(stack)
  <1>1. /\ d \in Nat /\ DOMAIN stack = 1 .. d /\ DOMAIN stack' = 1 .. d /\ Len(stack') = d
        /\ \A m \in 1 .. d : stack'[m].pid = stack[m].pid /\ stack'[m].len = stack[m].len
        /\ Ongoing' = open
    BY RowAt, FrameAt, OngoingIs DEF SameCalls
  <1>2. PrefixIn(open, stack, prefix)
    BY DEF PrefixRight
  <1> HIDE DEF open, d
  <1>3. stack' = <<>> <=> stack = <<>>
    BY <1>1 DEF WindowInv, d
  <1>4. ASSUME NEW m \in Nat, m < d PROVE Bars(open, stack', m) = Bars(open, stack, m)
    <2>1. \A k \in 1 .. m : k + 1 \in 1 .. d
      BY <1>1, <1>4
    <2> QED
      BY <1>1, <2>1 DEF Bars
  <1>5. ASSUME NEW m \in DOMAIN stack', m > 1, Bytes(Bars(open, stack', m - 2)) < PrefixMax
        PROVE  /\ stack'[m].len = m - 2
               /\ \A k \in 1 .. m - 2 : prefix'[k] = open[stack'[k + 1].pid]
    <2>1. m \in 1 .. d /\ m - 2 \in Nat /\ m - 2 < d /\ \A k \in 1 .. m - 2 : k + 1 \in 1 .. d
      BY <1>1, <1>5
    <2>2. Bytes(Bars(open, stack, m - 2)) < PrefixMax
      BY <1>4, <1>5, <2>1
    <2>3. stack[m].len = m - 2 /\ \A k \in 1 .. m - 2 : prefix[k] = open[stack[k + 1].pid]
      BY <1>1, <1>2, <1>5, <2>1, <2>2 DEF PrefixIn
    <2> QED
      BY <1>1, <2>1, <2>3
  <1>6. stack' # <<>> /\ Bytes(Bars(open, stack', d - 1)) < PrefixMax
          => prefix' = Bars(open, stack', d - 1)
    <2> SUFFICES ASSUME stack' # <<>>, Bytes(Bars(open, stack', d - 1)) < PrefixMax
                 PROVE  prefix' = Bars(open, stack', d - 1)
      OBVIOUS
    <2>1. d - 1 \in Nat /\ d - 1 < d
      BY <1>1, <1>3 DEF WindowInv, d
    <2>2. Bars(open, stack', d - 1) = Bars(open, stack, d - 1)
      BY <1>4, <2>1
    <2> QED
      BY <1>2, <1>3, <2>2 DEF PrefixIn, d
  <1>7. \A m \in DOMAIN stack' : m = 1 => stack'[m].len = 0
    BY <1>1, <1>2 DEF PrefixIn
  <1>8. PrefixIn(open, stack', prefix')
    BY <1>1, <1>2, <1>3, <1>5, <1>6, <1>7 DEF PrefixIn
  <1> QED
    BY <1>1, <1>8 DEF PrefixRight

LEMMA PrefixStep == SweepInv /\ BuildInv /\ WindowInv /\ PrefixRight /\ [Next]_vars => PrefixRight'
  <1> SUFFICES ASSUME SweepInv, BuildInv, WindowInv, PrefixRight, [Next]_vars PROVE PrefixRight'
    OBVIOUS
  <1>1. term_height \in Nat /\ stack \in Seq(Frame) /\ SameCalls(stack, stack)
    BY DEF WindowInv, SameCalls
  <1>2. CASE stack' = <<>> /\ prefix' = <<>>
    <2>1. DOMAIN stack' = {}
      BY <1>2
    <2> QED
      BY <1>2, <2>1 DEF PrefixRight, PrefixIn
  <1>3. ASSUME UNCHANGED <<sample, tree, prefix, stack>> PROVE PrefixRight'
    BY <1>1, <1>3, PrefixSame
  <1>4. ASSUME NEW p, NEW last, NEW frames, Drawing(p, last, frames) PROVE PrefixRight'
    BY <1>4, PrefixRoot, PrefixChild
  <1>5. CASE NextRoot
    BY <1>4, <1>5, RootDrawing
  <1>6. CASE NextChild
    <2>1. CASE Full /\ stack' = Advanced(stack) /\ UNCHANGED <<prefix, rows, sample, tree>>
      <3>1. stack' \in Seq(Frame) /\ SameCalls(stack', stack)
        BY <1>1, <1>6, <2>1, AdvancedFacts DEF NextChild
      <3> QED
        BY <2>1, <3>1, PrefixSame
    <2> QED
      BY <1>4, <1>6, <2>1, ChildDrawing
  <1>7. CASE Return
    BY <1>7, PrefixReturn
  <1>8. CASE Finish
    BY <1>3, <1>8 DEF Finish, window
  <1> QED
    BY <1>1, <1>2, <1>3, <1>5, <1>6, <1>7, <1>8, NotYetDrawn DEF Draw, window

LEMMA PrefixInit == Init => PrefixRight
  <1> SUFFICES ASSUME Init PROVE PrefixRight
    OBVIOUS
  <1>1. stack = <<>> /\ prefix = <<>> /\ DOMAIN stack = {}
    BY DEF Init
  <1> QED
    BY <1>1 DEF PrefixRight, PrefixIn
----------------------------------------------------------------------------
(* The drawing: every row has the prefix that its ancestors call for.      *)

AboveIn(rs, i, level) ==
    CHOOSE j \in 1 .. i : rs[j].depth = level /\ \A k \in j + 1 .. i : rs[k].depth # level

WantedIn(open, rs, i) == [k \in 1 .. rs[i].depth - 1 |-> open[rs[AboveIn(rs, i, k)].pid]]

\* Above a row there is one of every lesser level, with none less after it.
LevelsIn(rs, n) ==
    \A i \in 1 .. n : \A l \in 0 .. rs[i].depth :
       \E j \in 1 .. i : rs[j].depth = l /\ \A k \in j + 1 .. i : rs[k].depth > l

PrefixesIn(open, rs, n) ==
    \A i \in 1 .. n :
       Bytes(WantedIn(open, rs, i)) < PrefixMax => rs[i].prefix = WantedIn(open, rs, i)

RowsInv == LevelsIn(rows, Len(rows)) /\ PrefixesIn(Ongoing, rows, Len(rows))

(* The nearest row above is the last one of its level.                     *)
LEMMA AboveIs ==
    ASSUME NEW rs, NEW i \in Nat, NEW l, NEW j \in 1 .. i, rs[j].depth = l,
           \A k \in j + 1 .. i : rs[k].depth # l
    PROVE  AboveIn(rs, i, l) = j
  <1> DEFINE P(x) == rs[x].depth = l /\ \A k \in x + 1 .. i : rs[k].depth # l
  <1>1. ASSUME NEW x \in 1 .. i, P(x) PROVE x = j
    <2>1. CASE x < j
      <3>1. j \in x + 1 .. i
        BY <2>1
      <3> QED
        BY <1>1, <3>1
    <2>2. CASE j < x
      <3>1. x \in j + 1 .. i
        BY <2>2
      <3> QED
        BY <1>1, <3>1
    <2> QED
      BY <2>1, <2>2
  <1>2. P(j)
    OBVIOUS
  <1>3. AboveIn(rs, i, l) = CHOOSE x \in 1 .. i : P(x)
    BY DEF AboveIn
  <1> HIDE DEF P
  <1> QED
    BY <1>1, <1>2, <1>3

(* What is above a row does not change when rows are drawn below it.       *)
LEMMA AboveStays ==
    ASSUME NEW n \in Nat, NEW rs, LevelsIn(rs, n), NEW more, \A k \in 1 .. n : more[k] = rs[k],
           NEW i \in 1 .. n, rs[i].depth \in Nat,
           \A k \in 1 .. n : rs[k].depth \in Nat,
           NEW l \in 0 .. rs[i].depth
    PROVE  /\ AboveIn(rs, i, l) \in 1 .. i /\ AboveIn(more, i, l) = AboveIn(rs, i, l)
           /\ more[AboveIn(rs, i, l)] = rs[AboveIn(rs, i, l)]
  <1>1. PICK j \in 1 .. i : rs[j].depth = l /\ \A k \in j + 1 .. i : rs[k].depth > l
    BY DEF LevelsIn
  <1>2. /\ j \in 1 .. n /\ i \in Nat /\ l \in Nat /\ \A k \in j + 1 .. i : k \in 1 .. n
    OBVIOUS
  <1>3. \A k \in j + 1 .. i : rs[k].depth # l
    BY <1>1, <1>2
  <1>4. AboveIn(rs, i, l) = j
    BY <1>1, <1>2, <1>3, AboveIs
  <1>5. more[j].depth = l /\ \A k \in j + 1 .. i : more[k].depth # l
    BY <1>1, <1>2, <1>3
  <1>6. AboveIn(more, i, l) = j
    BY <1>2, <1>5, AboveIs
  <1> QED
    BY <1>2, <1>4, <1>6

(* The prefix that is wanted does not change either.                       *)
LEMMA WantedStays ==
    ASSUME NEW n \in Nat, NEW rs, LevelsIn(rs, n), NEW more, \A k \in 1 .. n : more[k] = rs[k],
           NEW i \in 1 .. n, \A k \in 1 .. n : rs[k].depth \in Nat, NEW open
    PROVE  WantedIn(open, more, i) = WantedIn(open, rs, i)
  <1>1. more[i] = rs[i] /\ rs[i].depth \in Nat
    OBVIOUS
  <1>2. ASSUME NEW k \in 1 .. rs[i].depth - 1
        PROVE  more[AboveIn(more, i, k)] = rs[AboveIn(rs, i, k)]
    <2>1. k \in 0 .. rs[i].depth
      BY <1>1
    <2>2. /\ AboveIn(more, i, k) = AboveIn(rs, i, k)
          /\ more[AboveIn(rs, i, k)] = rs[AboveIn(rs, i, k)]
      BY <1>1, <2>1, AboveStays
    <2> QED
      BY <2>2
  <1> QED
    BY <1>1, <1>2 DEF WantedIn

(* A call draws a row with the prefix that its ancestors call for.         *)
LEMMA RowsDraw ==
    ASSUME SweepInv, WindowInv, DrawInv, PrefixRight, RowsInv, NEW p, NEW last, NEW frames,
           Drawing(p, last, frames)
    PROVE  RowsInv'
  <1> DEFINE n == Len(rows)
             d == Len(stack)
             open == Ongoing
             row == [pid |-> p, depth |-> d, prefix |-> prefix]
  <1>1. /\ n \in Nat /\ DOMAIN rows = 1 .. n /\ \A i \in 1 .. n : rows[i].depth \in Nat
        /\ d \in Nat /\ DOMAIN stack = 1 .. d
    BY RowAt
  <1>2. Len(rows') = n + 1 /\ rows'[n + 1] = row /\ \A i \in 1 .. n : rows'[i] = rows[i]
    BY DrawingRow DEF OneMore
  <1>3. row.depth = d /\ row.prefix = prefix
    OBVIOUS
  <1>4. Ongoing' = open
    BY OngoingIs DEF Drawing
  <1>5. LevelsIn(rows, n) /\ PrefixesIn(open, rows, n)
    BY DEF RowsInv
  <1>6. /\ stack = <<>> => prefix = <<>>
        /\ stack # <<>> /\ Bytes(Bars(open, stack, d - 1)) < PrefixMax
              => prefix = Bars(open, stack, d - 1)
    BY DEF PrefixRight, PrefixIn
  <1>7. stack = <<>> <=> d = 0
    BY DEF WindowInv
  <1>8. \A m \in 1 .. d :
           \E r \in 1 .. n : /\ rows[r].pid = stack[m].pid /\ rows[r].depth = m - 1
                             /\ \A k \in 1 .. n : k > r => rows[k].depth >= m
    BY <1>1 DEF DrawInv, FramesShown
  <1> HIDE DEF n, d, open, row
  <1>9. rows'[n + 1].depth = d /\ rows'[n + 1].prefix = prefix
    BY <1>2, <1>3
  <1>10. \A i \in 1 .. n + 1 : i \in 1 .. n \/ i = n + 1
    BY <1>1
  <1>11. ASSUME NEW l \in 0 .. d - 1
         PROVE  \E r \in 1 .. n : /\ rows'[r].pid = stack[l + 1].pid /\ rows'[r].depth = l
                                  /\ \A k \in r + 1 .. n + 1 : rows'[k].depth > l
    <2>1. l + 1 \in 1 .. d /\ (l + 1) - 1 = l /\ d > l /\ l \in Nat
      BY <1>1
    <2>2. PICK r \in 1 .. n : /\ rows[r].pid = stack[l + 1].pid /\ rows[r].depth = l
                              /\ \A k \in 1 .. n : k > r => rows[k].depth >= l + 1
      BY <1>8, <2>1
    <2>3. ASSUME NEW k \in r + 1 .. n + 1 PROVE rows'[k].depth > l
      <3>1. k = n + 1 \/ (k \in 1 .. n /\ k > r)
        BY <1>1
      <3>2. CASE k \in 1 .. n /\ k > r
        <4>1. rows[k].depth >= l + 1 /\ rows[k].depth \in Nat
          BY <1>1, <2>2, <3>2
        <4> QED
          BY <1>2, <2>1, <3>2, <4>1
      <3> QED
        BY <1>9, <2>1, <3>1, <3>2
    <2> QED
      BY <1>2, <2>2, <2>3
  <1>12. LevelsIn(rows', n + 1)
    <2>1. ASSUME NEW i \in 1 .. n, NEW l \in 0 .. rows'[i].depth
          PROVE  \E j \in 1 .. i : rows'[j].depth = l /\ \A k \in j + 1 .. i : rows'[k].depth > l
      <3>1. PICK j \in 1 .. i : rows[j].depth = l /\ \A k \in j + 1 .. i : rows[k].depth > l
        BY <1>2, <1>5 DEF LevelsIn
      <3>2. j \in 1 .. n /\ \A k \in j + 1 .. i : k \in 1 .. n
        BY <1>1
      <3> QED
        BY <1>2, <3>1, <3>2
    <2>2. ASSUME NEW l \in 0 .. d
          PROVE  \E j \in 1 .. n + 1 :
                    rows'[j].depth = l /\ \A k \in j + 1 .. n + 1 : rows'[k].depth > l
      <3>1. CASE l = d
        <4>1. n + 1 \in 1 .. n + 1 /\ \A k \in (n + 1) + 1 .. n + 1 : FALSE
          BY <1>1
        <4> QED
          BY <1>9, <3>1, <4>1
      <3>2. CASE l # d
        <4>1. l \in 0 .. d - 1 /\ \A r \in 1 .. n : r \in 1 .. n + 1
          BY <1>1, <3>2
        <4> QED
          BY <1>11, <4>1
      <3> QED
        BY <3>1, <3>2
    <2> QED
      BY <1>9, <1>10, <2>1, <2>2 DEF LevelsIn
  <1>13. ASSUME NEW k \in 1 .. d - 1
         PROVE  rows'[AboveIn(rows', n + 1, k)].pid = stack[k + 1].pid
    <2>1. k \in 0 .. d - 1 /\ n + 1 \in Nat
      BY <1>1
    <2>2. PICK r \in 1 .. n : /\ rows'[r].pid = stack[k + 1].pid /\ rows'[r].depth = k
                              /\ \A x \in r + 1 .. n + 1 : rows'[x].depth > k
      BY <1>11, <2>1
    <2>3. \A x \in r + 1 .. n + 1 : rows'[x].depth # k
      <3>1. \A x \in r + 1 .. n + 1 : x \in 1 .. n \/ x = n + 1
        BY <1>1
      <3>2. \A x \in r + 1 .. n + 1 : rows'[x].depth \in Nat
        BY <1>1, <1>2, <1>9, <3>1
      <3> QED
        BY <2>2, <3>2
    <2>4. AboveIn(rows', n + 1, k) = r
      <3>1. r \in 1 .. n + 1
        BY <1>1
      <3> QED
        BY <2>1, <2>2, <2>3, <3>1, AboveIs, SMTT(30)
    <2> QED
      BY <2>2, <2>4
  <1>14. WantedIn(open, rows', n + 1) = Bars(open, stack, d - 1)
    BY <1>9, <1>13 DEF WantedIn, Bars
  <1>15. Bytes(WantedIn(open, rows', n + 1)) < PrefixMax => prefix = WantedIn(open, rows', n + 1)
    <2>1. CASE d = 0
      <3>1. Bars(open, stack, d - 1) = <<>>
        BY <2>1 DEF Bars
      <3> QED
        BY <1>6, <1>7, <1>14, <2>1, <3>1
    <2>2. CASE d # 0
      BY <1>6, <1>7, <1>14, <2>2
    <2> QED
      BY <2>1, <2>2
  <1>16. \A i \in 1 .. n : WantedIn(open, rows', i) = WantedIn(open, rows, i)
    BY <1>1, <1>2, <1>5, WantedStays
  <1>17. PrefixesIn(open, rows', n + 1)
    BY <1>2, <1>5, <1>9, <1>10, <1>15, <1>16 DEF PrefixesIn
  <1> QED
    BY <1>2, <1>4, <1>12, <1>17 DEF RowsInv

LEMMA RowsStep ==
    SweepInv /\ BuildInv /\ WindowInv /\ DrawInv /\ PrefixRight /\ RowsInv /\ [Next]_vars => RowsInv'
  <1> SUFFICES ASSUME SweepInv, BuildInv, WindowInv, DrawInv, PrefixRight, RowsInv, [Next]_vars
               PROVE  RowsInv'
    OBVIOUS
  <1>1. term_height \in Nat
    BY DEF WindowInv
  <1>2. CASE rows' = <<>>
    <2>1. Len(rows') = 0 /\ \A i \in 1 .. 0 : FALSE
      BY <1>2
    <2> QED
      BY <2>1 DEF RowsInv, LevelsIn, PrefixesIn
  <1>3. ASSUME UNCHANGED <<sample, tree, rows>> PROVE RowsInv'
    <2>1. Ongoing' = Ongoing
      BY <1>3, OngoingIs
    <2> QED
      BY <1>3, <2>1 DEF RowsInv
  <1>4. ASSUME NEW p, NEW last, NEW frames, Drawing(p, last, frames) PROVE RowsInv'
    BY <1>4, RowsDraw
  <1>5. CASE NextRoot
    BY <1>4, <1>5, RootDrawing
  <1>6. CASE NextChild
    BY <1>3, <1>4, <1>6, ChildDrawing
  <1>7. CASE Return
    BY <1>3, <1>7 DEF Return
  <1>8. CASE Finish
    BY <1>3, <1>8 DEF Finish, window
  <1> QED
    BY <1>1, <1>2, <1>3, <1>5, <1>6, <1>7, <1>8, NotYetDrawn DEF Draw, window

LEMMA RowsInit == Init => RowsInv
  <1> SUFFICES ASSUME Init PROVE RowsInv
    OBVIOUS
  <1>1. Len(rows) = 0 /\ \A i \in 1 .. 0 : FALSE
    BY DEF Init
  <1> QED
    BY <1>1 DEF RowsInv, LevelsIn, PrefixesIn

(* What the invariants say about the rows.                                 *)
LEMMA HierarchyFacts == WindowInv /\ DrawInv /\ RowsInv => HierarchyShown
  <1> SUFFICES ASSUME WindowInv, DrawInv, RowsInv PROVE HierarchyShown
    OBVIOUS
  <1>1. IsInjective([i \in DOMAIN rows |-> rows[i].pid])
    BY DEF IsInjective, DrawInv, RowsOnce
  <1>2. ASSUME NEW i \in DOMAIN rows PROVE Wanted(i) = WantedIn(Ongoing, rows, i)
    <2>1. /\ Len(rows) \in Nat /\ DOMAIN rows = 1 .. Len(rows) /\ i \in Nat
          /\ \A k \in 1 .. Len(rows) : rows[k].depth \in Nat /\ rows[k].pid \in PidsOf(sample)
      BY RowAt
    <2>2. \A k : Above(i, k) = AboveIn(rows, i, k)
      BY DEF Above, AboveIn
    <2>3. ASSUME NEW k \in 1 .. rows[i].depth - 1
          PROVE  Continues(rows[Above(i, k)].pid) = Ongoing[rows[AboveIn(rows, i, k)].pid]
      <3>1. k \in 0 .. rows[i].depth /\ i \in 1 .. Len(rows) /\ LevelsIn(rows, Len(rows))
        BY <2>1 DEF RowsInv
      <3>2. AboveIn(rows, i, k) \in 1 .. i
        BY <2>1, <3>1, AboveStays
      <3>3. rows[AboveIn(rows, i, k)].pid \in PidsOf(sample)
        BY <2>1, <3>2
      <3> QED
        BY <2>2, <3>3, OngoingIs
    <2> QED
      BY <2>3 DEF Wanted, WantedIn
  <1>3. ASSUME NEW i \in DOMAIN rows PROVE Bytes(Wanted(i)) < PrefixMax => rows[i].prefix = Wanted(i)
    BY <1>2, RowAt DEF RowsInv, PrefixesIn
  <1> QED
    BY <1>1, <1>3 DEF HierarchyShown, DrawInv, RowsRight

(* Whatever is sampled, also PPIDs that go in a circle: the drawing is a   *)
(* hierarchy, nobody is drawn twice, and the bars and blanks of a row are  *)
(* those of its ancestors as long as the buffer has room for them.         *)
THEOREM HierarchyIsShown == Spec => []HierarchyShown
  <1> DEFINE Inv == /\ SweepInv /\ BuildInv /\ WindowInv
                    /\ DrawInv /\ PrefixRight /\ RowsInv
  <1>1. Init => Inv
    BY SweepInit, BuildInit, WindowInit, DrawInit, PrefixInit, RowsInit
  <1>2. Inv /\ [Next]_vars => Inv'
    BY SweepStep, BuildStep, WindowStep, DrawStep, PrefixStep, RowsStep
  <1>3. Inv => HierarchyShown
    BY HierarchyFacts
  <1> HIDE DEF Inv
  <1> QED
    BY <1>1, <1>2, <1>3, PTL DEF Spec
----------------------------------------------------------------------------
(* Building and drawing take as many steps as there are processes, times a *)
(* constant.                                                               *)

\* A loop over the children has still to come to a process.
AheadIn(frames, p) ==
    \E m \in DOMAIN frames : \E x \in DOMAIN Children(frames[m].pid) :
       x >= frames[m].kid /\ Children(frames[m].pid)[x] = p

\* The processes that a loop can still come to: the one over the children of
\* their parent goes on, or has not begun.
LeftIn(frames, drawn) ==
    {i \in DOMAIN sample : sample[i].ppid \notin drawn \/ AheadIn(frames, sample[i].pid)}

Left == LeftIn(stack, Drawn)

\* The passes that follow the one that is on.
Passes == [count |-> 4, offset |-> 3, array |-> 2, place |-> 1, late |-> 0]

\* At most so many steps are left.  A child or a root is a call and a return.
Work ==
    LET n == Len(sample)
    IN  IF pc = "read" THEN 10 * (n + 1)
        ELSE IF pc \in DOMAIN Passes THEN 4 * n + 1 + Passes[pc] * (n + 1) + (n + 1 - at)
        ELSE IF pc = "draw"
             THEN 2 * (Cardinality(Left) + (Len(roots) + 1 - at)) + Len(stack) + 1
        ELSE 0
\* The cursor of the loop over the roots is at most one beyond them.
CursorInv == pc = "draw" => at <= Len(roots) + 1

LEMMA CursorStep ==
    SweepInv /\ BuildInv /\ WindowInv /\ BuildInv' /\ CursorInv /\ [Next]_vars => CursorInv'
  <1> SUFFICES ASSUME SweepInv, BuildInv, WindowInv, BuildInv', CursorInv, [Next]_vars, pc' = "draw"
               PROVE  at' <= Len(roots') + 1
    BY DEF CursorInv
  <1>1. CASE at' = 1
    <2>1. roots' \in Seq(Pid)
      BY DEF BuildInv, Built, Counted, RootsTo
    <2> QED
      BY <1>1, <2>1
  <1>2. CASE pc = "draw" /\ UNCHANGED <<tree, at>>
    BY <1>2 DEF CursorInv, tree
  <1>3. CASE NextRoot
    <2>1. at \in DOMAIN roots /\ at' = at + 1 /\ roots' = roots
      BY <1>3, RootDrawing DEF NextRoot, tree
    <2>2. roots \in Seq(Pid)
      BY <1>3, RootsAre DEF BuildInv, NextRoot
    <2> QED
      BY <2>1, <2>2
  <1>4. CASE NextChild \/ Return \/ Finish
    BY <1>2, <1>4 DEF NextChild, Return, Finish
  <1>5. term_height \in Nat
    BY DEF WindowInv
  <1> QED
    BY <1>1, <1>2, <1>3, <1>4, <1>5, NotYetDrawn DEF Draw

LEMMA CursorInit == Init => CursorInv
  BY DEF Init, CursorInv

(* A part of the processes is no more of them, and less without one.       *)
LEMMA PartOf ==
    ASSUME NEW n \in Nat, NEW L, L \subseteq 1 .. n
    PROVE  /\ Cardinality(L) \in Nat /\ Cardinality(L) <= n
           /\ \A M : M \subseteq L => Cardinality(M) \in Nat /\ Cardinality(M) <= Cardinality(L)
           /\ \A M, i : i \in L /\ M \subseteq L \ {i} =>
                 Cardinality(M) \in Nat /\ Cardinality(M) < Cardinality(L)
  <1>1. IsFiniteSet(1 .. n) /\ Cardinality(1 .. n) = n
    BY FS_Interval
  <1>2. IsFiniteSet(L) /\ Cardinality(L) \in Nat /\ Cardinality(L) <= n
    BY <1>1, FS_Subset, FS_CardinalityType
  <1>3. ASSUME NEW M, M \subseteq L PROVE Cardinality(M) \in Nat /\ Cardinality(M) <= Cardinality(L)
    BY <1>2, <1>3, FS_Subset, FS_CardinalityType
  <1>4. ASSUME NEW M, NEW i, i \in L, M \subseteq L \ {i}
        PROVE  Cardinality(M) \in Nat /\ Cardinality(M) < Cardinality(L)
    <2>1. IsFiniteSet(L \ {i}) /\ Cardinality(L \ {i}) = Cardinality(L) - 1
      BY <1>2, <1>4, FS_RemoveElement
    <2>2. Cardinality(M) \in Nat /\ Cardinality(M) <= Cardinality(L \ {i})
      BY <1>4, <2>1, FS_Subset, FS_CardinalityType
    <2> QED
      BY <1>2, <2>1, <2>2
  <1> QED
    BY <1>2, <1>3, <1>4

(* What a call can come to, it could come to without it: the children of a *)
(* process that was not drawn.                                             *)
LEMMA LeftDraw ==
    ASSUME SweepInv, Built, WindowInv, NEW p, NEW last, NEW frames,
           Drawing(p, last, frames), p \notin Drawn
    PROVE  Left' \subseteq LeftIn(frames, Drawn)
  <1> DEFINE d == Len(stack)
  <1>1. /\ DOMAIN frames = 1 .. d
        /\ \/ stack' = frames
           \/ /\ DOMAIN stack' = 1 .. d + 1 /\ stack'[d + 1].pid = p
              /\ \A m \in 1 .. d : stack'[m] = frames[m]
    BY DrawingFrames
  <1>2. d \in Nat /\ p \in PidsOf(sample) /\ UNCHANGED <<sample, tree>>
    BY RowAt DEF Drawing
  <1>3. Drawn' = Drawn \cup {p} /\ \A q : Children(q)' = Children(q)
    BY <1>2, DrawingRow, Fixed
  <1> HIDE DEF d
  <1>4. SUFFICES ASSUME NEW i \in DOMAIN sample,
                        sample[i].ppid \notin Drawn \cup {p} \/ AheadIn(stack, sample[i].pid)'
                 PROVE  sample[i].ppid \notin Drawn \/ AheadIn(frames, sample[i].pid)
    BY <1>2, <1>3 DEF Left, LeftIn, AheadIn
  <1>5. CASE AheadIn(stack, sample[i].pid)'
    <2>1. PICK m \in DOMAIN stack' :
             \E x \in DOMAIN Children(stack'[m].pid) :
                x >= stack'[m].kid /\ Children(stack'[m].pid)[x] = sample[i].pid
      BY <1>2, <1>3, <1>5 DEF AheadIn
    <2>2. CASE m \in DOMAIN frames /\ stack'[m] = frames[m]
      BY <2>1, <2>2 DEF AheadIn
    <2>3. CASE stack'[m].pid = p
      <3>1. PpidOf(sample[i].pid) = p
        BY <1>2, <2>1, <2>3, ChildrenOf DEF Range
      <3> QED
        BY <3>1, Indexed
    <2>4. m \in 1 .. d + 1 => m \in 1 .. d \/ m = d + 1
      BY <1>2
    <2> QED
      BY <1>1, <2>1, <2>2, <2>3, <2>4
  <1> QED
    BY <1>4, <1>5

(* The loop that goes on leaves the child behind that it was at.           *)
LEMMA LeftAdvanced ==
    ASSUME SweepInv, BuildInv, WindowInv, DrawInv, NextChild
    PROVE  \E i \in Left : LeftIn(Advanced(stack), Drawn) \subseteq Left \ {i}
  <1> DEFINE d == Len(stack)
             kids == Children(stack[d].pid)
             x == stack[d].kid
             frames == Advanced(stack)
  <1>1. stack # <<>> /\ x \in DOMAIN kids
    BY ChildDrawing
  <1>2. Built
    BY DEF BuildInv, NextChild
  <1>3. /\ d \in Nat \ {0} /\ d \in DOMAIN stack /\ stack[d].pid \in PidsOf(sample)
        /\ DOMAIN stack = 1 .. d /\ stack \in Seq(Frame)
    BY <1>1, TopIs, RowAt DEF WindowInv
  <1>4. /\ kids \in Seq(Nat) /\ Increasing(kids)
        /\ \A y \in DOMAIN kids : kids[y] \in PidsOf(sample) /\ PpidOf(kids[y]) = stack[d].pid
    BY <1>2, <1>3, ChildrenOf DEF Range
  <1>5. PICK i \in DOMAIN sample : sample[i].pid = kids[x]
    BY <1>1, <1>4 DEF PidsOf
  <1>6. sample[i].ppid = stack[d].pid /\ stack[d].pid \in Drawn
    <2>1. sample[i].ppid = stack[d].pid
      BY <1>1, <1>4, <1>5, Indexed
    <2>2. \E r \in DOMAIN rows : rows[r].pid = stack[d].pid
      BY <1>3 DEF DrawInv, FramesShown
    <2> QED
      BY <2>1, <2>2 DEF Drawn
  <1>7. i \in Left
    <2>1. x \in Nat /\ x >= x
      BY <1>1, <1>4
    <2> QED
      BY <1>1, <1>3, <1>5, <2>1 DEF Left, LeftIn, AheadIn
  <1>8. /\ DOMAIN frames = 1 .. d /\ frames[d].kid = x + 1 /\ frames[d].pid = stack[d].pid
        /\ \A m \in 1 .. d : m # d => frames[m] = stack[m]
    <2>1. frames \in Seq(Frame) /\ SameCalls(frames, stack) /\ Len(frames) = d /\ frames[d].kid = x + 1
      BY <1>1, <1>3, AdvancedFacts
    <2>2. DOMAIN frames = 1 .. d
      BY <2>1
    <2>3. frames[d].pid = stack[d].pid
      BY <1>3, <2>1 DEF SameCalls
    <2>4. \A m \in 1 .. d : m # d => frames[m] = stack[m]
      BY <1>1, <1>3, AdvancedFacts
    <2> QED
      BY <2>1, <2>2, <2>3, <2>4
  <1> HIDE DEF frames
  <1>9. ASSUME NEW j \in DOMAIN sample, AheadIn(frames, sample[j].pid)
        PROVE  AheadIn(stack, sample[j].pid) /\ j # i
    <2>1. PICK m \in 1 .. d : \E y \in DOMAIN Children(frames[m].pid) :
                                 y >= frames[m].kid /\ Children(frames[m].pid)[y] = sample[j].pid
      BY <1>8, <1>9 DEF AheadIn
    <2>2. CASE m = d
      <3>1. PICK y \in DOMAIN kids : y >= x + 1 /\ kids[y] = sample[j].pid
        BY <1>8, <2>1, <2>2
      <3>2. x \in Nat /\ y \in Nat /\ x < y /\ y >= x
        BY <1>1, <1>4, <3>1
      <3>3. kids[x] < kids[y] /\ kids[x] \in Nat /\ kids[y] \in Nat
        BY <1>1, <1>4, <3>2 DEF Increasing
      <3>4. sample[j].pid # sample[i].pid
        BY <1>5, <3>1, <3>3
      <3> QED
        BY <1>3, <3>1, <3>2, <3>4 DEF AheadIn
    <2>3. CASE m # d
      <3>1. frames[m] = stack[m] /\ m \in DOMAIN stack /\ stack[m].pid \in PidsOf(sample)
        BY <1>3, <1>8, <2>3 DEF WindowInv
      <3>2. AheadIn(stack, sample[j].pid)
        BY <2>1, <3>1 DEF AheadIn
      <3>3. PpidOf(sample[j].pid) = stack[m].pid
        BY <1>2, <2>1, <3>1, ChildrenOf DEF Range
      <3>4. stack[m].pid # stack[d].pid
        BY <1>3, <2>3, <3>1, FramesOnce
      <3>5. sample[j].ppid # sample[i].ppid
        BY <1>6, <3>3, <3>4, Indexed
      <3> QED
        BY <3>2, <3>5
    <2> QED
      BY <2>2, <2>3
  <1>10. LeftIn(frames, Drawn) \subseteq Left \ {i}
    BY <1>6, <1>9 DEF Left, LeftIn
  <1> QED
    BY <1>7, <1>10 DEF frames
(* Every pass and every allocation leaves less to do.                      *)
LEMMA BuildLess ==
    ASSUME SweepInv, BuildInv, BuildInv', Build
    PROVE  Work \in Nat /\ Work' \in Nat /\ Work' < Work
  <1> DEFINE n == Len(sample)
  <1>1. /\ n \in Nat /\ DOMAIN sample = 1 .. n /\ sample' = sample
        /\ UNCHANGED <<stack, rows>> /\ at \in Nat \ {0}
    BY SampleOrdered, EntryAt DEF Build, Allocate, Count, Offset, AllocateChildren, Place, LateRoot,
       window, SweepInv, Swept
  <1>2. /\ DOMAIN Passes = {"count", "offset", "array", "place", "late"}
        /\ Passes["count"] = 4 /\ Passes["offset"] = 3 /\ Passes["array"] = 2
        /\ Passes["place"] = 1 /\ Passes["late"] = 0
    BY DEF Passes
  <1>3. pc' = "draw" /\ at' = 1 => Work' \in Nat /\ Work' <= 4 * n + 1
    <2>1. SUFFICES ASSUME pc' = "draw", at' = 1 PROVE Work' \in Nat /\ Work' <= 4 * n + 1
      OBVIOUS
    <2>2. Left' \subseteq 1 .. n
      BY <1>1 DEF Left, LeftIn
    <2>3. Cardinality(Left)' \in Nat /\ Cardinality(Left)' <= n
      BY <1>1, <2>2, PartOf
    <2>4. Len(stack') = 0
      BY <1>1 DEF BuildInv, Build, Allocate, Count, Offset, AllocateChildren, Place, LateRoot
    <2>5. Len(roots') \in Nat /\ Len(roots') <= n
      <3>1. roots' \in Seq(Pid)
        BY <2>1 DEF BuildInv, Built, Counted, RootsTo
      <3> QED
        BY <1>1, <3>1 DEF BuildInv
    <2> HIDE DEF n
    <2> QED
      BY <1>1, <1>2, <2>1, <2>3, <2>4, <2>5 DEF Work
  <1>4. ASSUME NEW next, Advance(next), at \in 1 .. n
        PROVE  \/ pc' = pc /\ at' = at + 1 /\ at' \in 1 .. n
               \/ pc' = next /\ at' = 1 /\ at = n
    <2>1. \/ at' \in 1 .. n /\ at' - 1 = at /\ pc' = pc
          \/ at' = 1 /\ pc' = next /\ at = n
      BY <1>1, <1>4, LoopStep
    <2> HIDE DEF n
    <2> QED
      BY <1>1, <2>1
  <1>5. pc' = "failed" => Work' = 0
    BY <1>2 DEF Work
  <1>6. CASE Allocate
    <2>1. pc = "read" /\ pc' \in {"draw", "count", "failed"} /\ at' = 1
      BY <1>6 DEF Allocate
    <2>2. Work = 10 * (n + 1)
      BY <1>2, <2>1 DEF Work
    <2>3. pc' = "count" => Work' = 9 * n + 5
      BY <1>1, <1>2, <2>1 DEF Work
    <2> HIDE DEF n
    <2> QED
      BY <1>1, <1>3, <1>5, <2>1, <2>2, <2>3
  <1>7. CASE AllocateChildren
    <2>1. pc = "array" /\ pc' \in {"place", "failed"} /\ at' = at
      BY <1>7 DEF AllocateChildren
    <2>2. at = 1 /\ 1 \in 1 .. n
      BY <1>1, <2>1 DEF BuildInv
    <2>3. Work = 7 * n + 3 /\ (pc' = "place" => Work' = 6 * n + 2)
      BY <1>1, <1>2, <2>1, <2>2 DEF Work
    <2> HIDE DEF n
    <2> QED
      BY <1>1, <1>5, <2>1, <2>3
  <1>8. CASE Count \/ Offset \/ Place \/ LateRoot
    <2>1. /\ pc \in {"count", "offset", "place", "late"} /\ at \in 1 .. n
          /\ Advance([count |-> "offset", offset |-> "array", place |-> "late", late |-> "draw"][pc])
      BY <1>1, <1>8 DEF BuildInv, Count, Offset, Place, LateRoot
    <2>2. /\ pc = "count" => Work = 9 * n + 6 - at /\ Advance("offset")
          /\ pc = "offset" => Work = 8 * n + 5 - at /\ Advance("array")
          /\ pc = "place" => Work = 6 * n + 3 - at /\ Advance("late")
          /\ pc = "late" => Work = 5 * n + 2 - at /\ Advance("draw")
      BY <1>1, <1>2, <2>1 DEF Work
    <2>3. /\ pc' = "count" => Work' = 9 * n + 6 - at'
          /\ pc' = "offset" => Work' = 8 * n + 5 - at'
          /\ pc' = "array" => Work' = 7 * n + 4 - at'
          /\ pc' = "place" => Work' = 6 * n + 3 - at'
          /\ pc' = "late" => Work' = 5 * n + 2 - at'
      <3>1. at' \in Nat /\ Len(sample') = n
        BY <1>1, <1>8 DEF Count, Offset, Place, LateRoot, Advance
      <3>2. n \in Nat
        BY <1>1
      <3> HIDE DEF n
      <3>3. CASE pc' = "count"
        BY <1>2, <3>1, <3>2, <3>3 DEF Work
      <3>4. CASE pc' = "offset"
        BY <1>2, <3>1, <3>2, <3>4 DEF Work
      <3>5. CASE pc' = "array"
        BY <1>2, <3>1, <3>2, <3>5 DEF Work
      <3>6. CASE pc' = "place"
        BY <1>2, <3>1, <3>2, <3>6 DEF Work
      <3>7. CASE pc' = "late"
        BY <1>2, <3>1, <3>2, <3>7 DEF Work
      <3> QED
        BY <3>3, <3>4, <3>5, <3>6, <3>7
    <2> HIDE DEF n
    <2>4. CASE pc = "count"
      BY <1>1, <1>4, <2>1, <2>2, <2>3, <2>4
    <2>5. CASE pc = "offset"
      BY <1>1, <1>4, <2>1, <2>2, <2>3, <2>5
    <2>6. CASE pc = "place"
      BY <1>1, <1>4, <2>1, <2>2, <2>3, <2>6
    <2>7. CASE pc = "late"
      BY <1>1, <1>3, <1>4, <2>1, <2>2, <2>3, <2>7
    <2> QED
      BY <2>1, <2>4, <2>5, <2>6, <2>7
  <1> QED
    BY <1>6, <1>7, <1>8 DEF Build

(* The sum that is left to do.                                             *)
LEMMA LessLeft ==
    ASSUME NEW r \in Nat, NEW c \in Nat, NEW a \in Nat, NEW d \in Nat, a <= r + 1,
           NEW e \in Nat, NEW b \in Nat, NEW k \in Nat, b <= r + 1,
           \/ b = a + 1 /\ e <= c /\ k <= d + 1
           \/ b = a /\ e < c /\ k <= d + 1
           \/ b = a /\ e <= c /\ k < d
    PROVE  LET w == 2 * (c + (r + 1 - a)) + d + 1
               v == 2 * (e + (r + 1 - b)) + k + 1
           IN  w \in Nat /\ v \in Nat /\ v < w
  <1>1. PICK x \in Nat : x = r + 1 - a
    OBVIOUS
  <1>2. PICK y \in Nat : y = r + 1 - b
    OBVIOUS
  <1> QED
    BY <1>1, <1>2

(* Every call, every return and every child that is passed over leaves     *)
(* less to do.                                                             *)
LEMMA DrawLess ==
    ASSUME SweepInv, BuildInv, WindowInv, DrawInv, CursorInv, Draw
    PROVE  Work \in Nat /\ Work' \in Nat /\ Work' < Work
  <1> DEFINE n == Len(sample)
             c == Cardinality(Left)
             d == Len(stack)
             r == Len(roots)
  <1>1. /\ pc = "draw" /\ pc' \in {"draw", "done"} /\ UNCHANGED <<sample, tree>> /\ Built
        /\ at \in Nat \ {0}
    BY DEF Draw, NextRoot, NextChild, Return, Finish, BuildInv, SweepInv, Swept
  <1>2. /\ Left \subseteq 1 .. n /\ n \in Nat /\ d \in Nat /\ roots' = roots
        /\ r \in Nat /\ roots \in Seq(Pid) /\ Increasing(roots) /\ DOMAIN roots = 1 .. r
    <2>1. roots \in Seq(Pid) /\ Increasing(roots)
      BY <1>1, RootsAre
    <2> QED
      BY <1>1, <2>1, SampleOrdered, EntryAt, RowAt DEF Left, LeftIn, tree
  <1>3. /\ c \in Nat
        /\ \A M : M \subseteq Left => Cardinality(M) \in Nat /\ Cardinality(M) <= c
        /\ \A M, i : i \in Left /\ M \subseteq Left \ {i} => Cardinality(M) \in Nat /\ Cardinality(M) < c
    BY <1>2, PartOf
  <1>4. at <= r + 1
    BY <1>1 DEF CursorInv
  <1>5. DOMAIN Passes = {"count", "offset", "array", "place", "late"}
    BY DEF Passes
  <1>6. Work = 2 * (c + (r + 1 - at)) + d + 1
    BY <1>1, <1>5 DEF Work
  <1>7. pc' = "draw" => Work' = 2 * (Cardinality(Left') + (r + 1 - at')) + Len(stack') + 1
    BY <1>1, <1>2, <1>5 DEF Work
  <1> DEFINE left == Cardinality(Left')
  <1>8. ASSUME pc' = "draw", at' \in Nat, at' <= r + 1, Len(stack') \in Nat, left \in Nat,
               \/ at' = at + 1 /\ left <= c /\ Len(stack') <= d + 1
               \/ at' = at /\ left < c /\ Len(stack') <= d + 1
               \/ at' = at /\ left <= c /\ Len(stack') < d
        PROVE  Work \in Nat /\ Work' \in Nat /\ Work' < Work
    <2>1. PICK k \in Nat : k = Len(stack')
      BY <1>8
    <2>2. Work' = 2 * (left + (r + 1 - at')) + k + 1
      BY <1>7, <1>8, <2>1
    <2>3. c \in Nat /\ d \in Nat /\ r \in Nat /\ at \in Nat
      BY <1>1, <1>2, <1>3
    <2> HIDE DEF c, d, r, left
    <2> QED
      BY <1>4, <1>6, <1>8, <2>1, <2>2, <2>3, LessLeft
  <1> HIDE DEF left
  <1>9. CASE NextRoot
    <2> DEFINE p == roots[at]
               last == (at = Len(roots))
    <2>1. /\ at \in DOMAIN roots /\ at' = at + 1 /\ stack = <<>> /\ Drawing(p, last, <<>>) /\ pc' = "draw"
      BY <1>9, <1>1, RootDrawing DEF NextRoot
    <2>2. p \notin Drawn
      BY <1>2, <2>1 DEF DrawInv, RootsAhead
    <2> HIDE DEF p, last
    <2>3. Left' \subseteq LeftIn(<<>>, Drawn)
      BY <1>1, <2>1, <2>2, LeftDraw
    <2>4. Left' \subseteq Left
      BY <2>1, <2>3 DEF Left
    <2>5. d = 0 /\ Len(stack') \in 0 .. 1
      <3>1. d = 0 /\ Len(<<>>) = 0
        BY <2>1
      <3>2. stack' = <<>> \/ Len(stack') = d + 1
        BY <2>1, DrawingFrames
      <3> QED
        BY <3>1, <3>2
    <2>6. at' \in Nat /\ at' <= r + 1 /\ Len(stack') \in Nat /\ Len(stack') <= d + 1
      <3>1. at \in 1 .. r /\ r \in Nat /\ at' = at + 1
        BY <1>2, <2>1
      <3>2. PICK k \in 0 .. 1 : k = Len(stack')
        BY <2>5
      <3> HIDE DEF d, r
      <3>3. at' \in Nat /\ at' <= r + 1
        BY <3>1
      <3>4. k \in Nat /\ k <= d + 1
        BY <2>5, <3>2
      <3> QED
        BY <3>2, <3>3, <3>4
    <2>7. left \in Nat /\ left <= c
      BY <1>3, <2>4 DEF left
    <2> QED
      BY <1>8, <2>1, <2>6, <2>7
  <1>10. CASE NextChild
    <2>1. PICK i \in Left : LeftIn(Advanced(stack), Drawn) \subseteq Left \ {i}
      BY <1>10, LeftAdvanced
    <2>2. stack # <<>> /\ at' = at /\ pc' = "draw" /\ stack \in Seq(Frame)
      BY <1>1, <1>10 DEF NextChild, WindowInv
    <2>3. Len(Advanced(stack)) = d
      BY <2>2, AdvancedFacts
    <2>4. Left' \subseteq LeftIn(Advanced(stack), Drawn) /\ Len(stack') \in Nat /\ Len(stack') <= d + 1
      <3>1. CASE Full /\ stack' = Advanced(stack) /\ rows' = rows
        <4>1. Left' = LeftIn(Advanced(stack), Drawn)
          BY <1>1, <3>1, Fixed DEF Left, LeftIn, AheadIn, Drawn
        <4> QED
          BY <1>2, <2>3, <3>1, <4>1
      <3>2. ASSUME NEW p, NEW last, Drawing(p, last, Advanced(stack)), p \notin Drawn
            PROVE  Left' \subseteq LeftIn(Advanced(stack), Drawn) /\ Len(stack') \in Nat /\ Len(stack') <= d + 1
        <4>1. Left' \subseteq LeftIn(Advanced(stack), Drawn)
          BY <1>1, <3>2, LeftDraw
        <4>2. stack' = Advanced(stack) \/ Len(stack') = d + 1
          BY <3>2, DrawingFrames
        <4> QED
          BY <1>2, <2>3, <4>1, <4>2
      <3>3. DEFINE x == stack[d].kid
      <3>4. /\ x \in DOMAIN Children(stack[d].pid)
            /\ \/ Full /\ stack' = Advanced(stack) /\ rows' = rows
               \/ Drawing(Children(stack[d].pid)[x], ~Continues(Children(stack[d].pid)[x]), Advanced(stack))
        BY <1>10, ChildDrawing
      <3>5. Children(stack[d].pid)[x] \notin Drawn
        <4>1. d \in DOMAIN stack /\ x \in Nat /\ x >= x
          BY <2>2, TopIs
        <4> QED
          BY <3>4, <4>1 DEF DrawInv, KidsAhead
      <3> QED
        BY <3>1, <3>2, <3>4, <3>5
    <2>5. Cardinality(Left') \in Nat /\ Cardinality(Left') < c
      BY <1>3, <2>1, <2>4
    <2> QED
      BY <1>1, <1>2, <1>3, <1>4, <1>8, <2>2, <2>4, <2>5 DEF left
  <1>11. CASE Return
    <2>1. /\ d \in Nat \ {0} /\ Len(stack') = d - 1 /\ stack' \in Seq(Frame)
          /\ \A m \in 1 .. d - 1 : stack'[m] = stack[m]
          /\ rows' = rows /\ at' = at /\ pc' = "draw"
      BY <1>1, <1>11, ReturnFacts
    <2>2. DOMAIN stack' = 1 .. d - 1 /\ DOMAIN stack = 1 .. d /\ 1 .. d - 1 \subseteq 1 .. d
      BY <2>1, RowAt
    <2>3. Left' \subseteq Left
      BY <1>1, <2>1, <2>2, Fixed DEF Left, LeftIn, AheadIn, Drawn
    <2>4. at' \in Nat /\ at' <= r + 1 /\ Len(stack') \in Nat /\ Len(stack') < d
      BY <1>1, <1>4, <2>1
    <2>5. left \in Nat /\ left <= c
      BY <1>3, <2>3 DEF left
    <2> QED
      BY <1>8, <2>1, <2>4, <2>5
  <1>12. CASE Finish
    <2>1. Work' = 0
      BY <1>5, <1>12 DEF Finish, Work
    <2>2. c \in Nat /\ d \in Nat /\ r \in Nat /\ at \in Nat
      BY <1>1, <1>2, <1>3
    <2> HIDE DEF c, d, r
    <2> QED
      BY <1>4, <1>6, <2>1, <2>2
  <1> QED
    BY <1>9, <1>10, <1>11, <1>12 DEF Draw
(* A sample of n processes is made a tree and drawn in at most 10 * (n + 1) *)
(* steps, whatever its PPIDs are, also in a circle: every step of          *)
(* km_process_tree_build() and draw_process_tree() leaves less to do, and  *)
(* what there is to do when the sweep has ended is so much.  The recursion *)
(* of draw_tree_recursive() ends.                                          *)
THEOREM DrawingAdvances ==
    Spec => [][/\ Build \/ Draw => Work \in Nat /\ Work' \in Nat /\ Work' < Work
               /\ Allocate => Work = 10 * (Len(sample) + 1)]_vars
  <1> DEFINE Inv == SweepInv /\ BuildInv /\ WindowInv /\ DrawInv /\ CursorInv
             Less == /\ Build \/ Draw => Work \in Nat /\ Work' \in Nat /\ Work' < Work
                     /\ Allocate => Work = 10 * (Len(sample) + 1)
  <1>1. Init => Inv
    BY SweepInit, BuildInit, WindowInit, DrawInit, CursorInit
  <1>2. Inv /\ [Next]_vars => Inv'
    BY SweepStep, BuildStep, WindowStep, DrawStep, CursorStep
  <1>3. Inv /\ Inv' /\ [Next]_vars => [Less]_vars
    <2>1. Inv /\ Inv' /\ Build => Work \in Nat /\ Work' \in Nat /\ Work' < Work
      BY BuildLess
    <2>2. Inv /\ Draw => Work \in Nat /\ Work' \in Nat /\ Work' < Work
      BY DrawLess
    <2>3. Allocate => Work = 10 * (Len(sample) + 1)
      BY DEF Allocate, Work
    <2> QED
      BY <2>1, <2>2, <2>3
  <1> HIDE DEF Inv, Less
  <1>4. Spec => [][Less]_vars
    BY <1>1, <1>2, <1>3, PTL DEF Spec
  <1> QED
    BY <1>4 DEF Less
=============================================================================
