----------------------------- MODULE IpcProofs -----------------------------
(***************************************************************************)
(* For any number of workers, messages, failures and interrupts and any    *)
(* size of a pipe: groups hold all of a job, who returns has reaped its    *)
(* children, and what is written to a pipe arrives.                        *)
(***************************************************************************)
EXTENDS Ipc, TLAPS

Lifes   == {"none", "alive", "stopped", "zombie", "gone"}
Signals == {"INT", "TERM", "HUP"}

\* The loop of main() of jobctl.c.
Counts(label, n) ==
    /\ label \in {"fork", "group", "note", "reap"} => n \in Worker
    /\ label \in {"stop", "cont", "term"} => n = 1

Types ==
    /\ program \in Programs
    /\ DOMAIN pc = Proc /\ life \in [Proc -> Lifes]
    /\ group \in [Proc -> Proc] /\ reaped \in SUBSET Proc
    /\ g_group \in [Proc -> {0, leader}] /\ i \in Nat
    /\ program = "jobctl" => Counts(pc[main], i)

\* Who has not been started has no program counter; who has ended has
\* stopped running; main is stopped by nobody.
Lives0 ==
    /\ \A p \in Proc : life[p] = "none" <=> pc[p] = "none"
    /\ \A p \in Proc : life[p] \in {"zombie", "gone"} => pc[p] = "ended"
    /\ life[main] \in {"alive", "gone"}

\* The children that main has forked, and those it has waited for.
Forked(c) ==
    \/ /\ program = "pipeline" /\ c = first
       /\ pc[main] \notin {"pipe", "fork first"}
    \/ /\ program = "pipeline" /\ c = second
       /\ pc[main] \notin {"pipe", "fork first", "group first", "fork second"}
    \/ /\ program = "fifo" /\ c = 1
       /\ pc[main] \notin {"mkfifo", "stat", "fork writer"}
    \/ /\ program = "jobctl" /\ c \in Worker
       /\ pc[main] = "fork" => c < i
       /\ pc[main] \in {"group", "note"} => c <= i
    \/ /\ program = "jobctl" /\ c = newcomer
       /\ pc[main] \in {"wait newcomer", "return"}

Waited(c) ==
    \/ program = "pipeline" /\ c = first /\ pc[main] \in {"wait second", "return"}
    \/ program = "pipeline" /\ c = second /\ pc[main] = "return"
    \/ program = "fifo" /\ c = 1 /\ pc[main] \in {"unlink", "return"}
    \/ /\ program = "jobctl" /\ c \in Worker
       /\ \/ pc[main] = "reap" /\ c < i
          \/ pc[main] \in {"forget", "fork newcomer", "wait newcomer", "return"}
    \/ program = "jobctl" /\ c = newcomer /\ pc[main] = "return"

\* While main runs, it has exactly the children that it has forked, and
\* exactly those have gone that it has waited for.
Family ==
    life[main] = "alive" /\ program # "fifo apart" =>
        \A c \in Proc \ {main} :
            /\ life[c] = "none" <=> ~Forked(c)
            /\ life[c] = "gone" <=> Waited(c)
            /\ Waited(c) => c \in reaped

\* The workers that main has put into the group.
Grouped(c) ==
    /\ c \in Worker
    /\ pc[main] \in {"fork", "group"} => c < i
    /\ pc[main] = "note" => c <= i

Groups ==
    life[main] = "alive" =>
        /\ program = "pipeline" =>
              /\ pc[main] \notin {"pipe", "fork first", "group first"} => group[first] = first
              /\ pc[main] \in {"close", "wait first", "wait second"} => group[second] = first
        /\ program = "jobctl" =>
              /\ group[main] = main
              /\ \A c \in Proc : Grouped(c) => group[c] = leader

FamilyInv == Types /\ Lives0 /\ Family /\ Groups
----------------------------------------------------------------------------
(* Names.                                                                  *)

\* What the invariant is about.
state == <<program, pc, life, group, reaped, g_group, i>>

LEMMA Names ==
    /\ Workers \in Nat \ {0}
    /\ main \in Proc /\ first \in Proc /\ second \in Proc /\ newcomer \in Proc /\ leader \in Worker
    /\ first # main /\ second # main /\ first # second /\ newcomer # main /\ newcomer \notin Worker
    /\ leader = 1 /\ first = 1 /\ leader # 0
    /\ \A w \in Worker : w \in Proc /\ w # main /\ w \in Int
    /\ \A p \in Proc : p \in Int
  BY UnixAssumption DEF Proc, main, first, second, newcomer, Worker, leader

LEMMA Initial == Init => FamilyInv
  <1> SUFFICES ASSUME Init PROVE FamilyInv
    OBVIOUS
  <1> DEFINE started == IF program = "fifo apart" THEN {0, 1, 2} ELSE {main}
             label == CASE program = "pipeline" -> "pipe"
                        [] program = "jobctl"   -> "fork"
                        [] OTHER                -> "mkfifo"
  <1>1. /\ program \in Programs
        /\ pc = [p \in Proc |-> IF p \in started THEN label ELSE "none"]
        /\ life = [p \in Proc |-> IF p \in started THEN "alive" ELSE "none"]
        /\ group = [p \in Proc |-> IF program = "fifo apart" THEN p ELSE main]
        /\ reaped = {} /\ i = 1 /\ g_group = [p \in Proc |-> 0]
    BY DEF Init
  <1>2. /\ label \in {"pipe", "fork", "mkfifo"}
        /\ program = "pipeline" => label = "pipe"
        /\ program = "jobctl" => label = "fork"
        /\ program = "fifo" => label = "mkfifo"
    BY <1>1 DEF Programs
  <1>3. started \in SUBSET Proc /\ main \in started
    BY Names DEF main, first, second
  <1>4. \A p \in Proc : program # "fifo apart" /\ p # main => p \notin started
    OBVIOUS
  <1> HIDE DEF started, label
  <1>5. Types
    <2>1. life \in [Proc -> Lifes] /\ DOMAIN pc = Proc
      BY <1>1 DEF Lifes
    <2>2. group \in [Proc -> Proc] /\ g_group \in [Proc -> {0, leader}]
      BY <1>1, Names
    <2>3. i \in Nat /\ i \in Worker
      BY <1>1, Names DEF Worker
    <2> QED
      BY <1>1, <1>2, <1>3, <2>1, <2>2, <2>3 DEF Types, Counts
  <1>6. Lives0
    BY <1>1, <1>2, <1>3, Names DEF Lives0
  <1>7. Family
    <2> SUFFICES ASSUME program # "fifo apart", NEW c \in Proc \ {main}
                 PROVE  ~Forked(c) /\ ~Waited(c) /\ life[c] = "none"
      BY <1>1 DEF Family
    <2>1. life[c] = "none" /\ pc[main] = label
      BY <1>1, <1>3, <1>4, Names
    <2>2. program = "jobctl" /\ c \in Worker => ~(c < i)
      BY <1>1, Names DEF Worker
    <2>3. ~Forked(c)
      BY <1>2, <2>1, <2>2 DEF Forked
    <2>4. ~Waited(c)
      BY <1>2, <2>1 DEF Waited
    <2> QED
      BY <2>1, <2>3, <2>4
  <1>8. Groups
    <2>1. pc[main] = label
      BY <1>1, <1>3, Names
    <2>2. program = "jobctl" => \A c \in Proc : ~Grouped(c)
      BY <1>1, <1>2, <2>1, Names DEF Grouped, Worker
    <2>3. program = "jobctl" => group[main] = main
      BY <1>1, Names
    <2> QED
      BY <1>2, <2>1, <2>2, <2>3 DEF Groups
  <1> QED
    BY <1>5, <1>6, <1>7, <1>8 DEF FamilyInv

----------------------------------------------------------------------------
(* Steps of any program.                                                   *)

\* Nothing that the groups and the family depend on changes for main.
LEMMA SameMain ==
    ASSUME UNCHANGED <<program, i>>, pc'[main] = pc[main]
    PROVE  \A c : /\ Forked(c)' <=> Forked(c)
                  /\ Waited(c)' <=> Waited(c)
                  /\ Grouped(c)' <=> Grouped(c)
  BY DEF Forked, Waited, Grouped

LEMMA Unchanged == FamilyInv /\ UNCHANGED state => FamilyInv'
  <1> SUFFICES ASSUME FamilyInv, UNCHANGED state PROVE FamilyInv'
    OBVIOUS
  <1>1. UNCHANGED <<program, pc, life, group, reaped, g_group, i>>
    BY DEF state
  <1>2. \A c : /\ Forked(c)' <=> Forked(c)
               /\ Waited(c)' <=> Waited(c)
               /\ Grouped(c)' <=> Grouped(c)
    BY <1>1, SameMain
  <1>3. Types' /\ Lives0'
    BY <1>1 DEF FamilyInv, Types, Lives0
  <1>4. Family' /\ Groups'
    BY <1>1, <1>2 DEF FamilyInv, Family, Groups
  <1> QED
    BY <1>3, <1>4 DEF FamilyInv

\* A process ends.
LEMMA Ends ==
    ASSUME FamilyInv, NEW p \in Proc, life[p] = "alive",
           life' = Lives(p), pc' = [pc EXCEPT ![p] = "ended"],
           UNCHANGED <<program, group, reaped, g_group, i>>
    PROVE  FamilyInv'
  <1>1. /\ DOMAIN pc = Proc /\ life \in [Proc -> Lifes] /\ main \in Proc
        /\ life[main] \in {"alive", "gone"}
    BY Names DEF FamilyInv, Types, Lives0
  <1>2. /\ life' \in [Proc -> Lifes]
        /\ life'[p] \in {"zombie", "gone"}
        /\ p # main /\ Child(p) /\ life[main] # "gone" => life'[p] = "zombie"
        /\ p = main => life'[p] = "gone"
        /\ \A q \in Proc \ {p} : p # main => life'[q] = life[q]
        /\ \A q \in Proc \ {p} :
              \/ life'[q] = life[q]
              \/ life'[q] = "gone" /\ life[q] = "zombie"
              \/ life'[q] = "alive" /\ life[q] = "stopped"
    <2>1. ASSUME NEW q \in Proc
          PROVE  life'[q] = IF q = p THEN IF Child(p) /\ life[main] # "gone" THEN "zombie" ELSE "gone"
                            ELSE IF p = main /\ Child(q) THEN Orphan(q) ELSE life[q]
      BY Zenon DEF Lives
    <2>2. DOMAIN life' = Proc /\ life' = [q \in Proc |-> life'[q]]
      BY DEF Lives
    <2>3. life'[p] \in {"zombie", "gone"}
      BY <2>1
    <2>4. p # main /\ Child(p) /\ life[main] # "gone" => life'[p] = "zombie"
      BY <2>1
    <2>5. p = main => life'[p] = "gone"
      BY <2>1 DEF Child
    <2>6. \A q \in Proc \ {p} : p # main => life'[q] = life[q]
      BY <2>1
    <2>7. ASSUME NEW q \in Proc \ {p}
          PROVE  \/ life'[q] = life[q]
                 \/ life'[q] = "gone" /\ life[q] = "zombie"
                 \/ life'[q] = "alive" /\ life[q] = "stopped"
      BY <2>1 DEF Orphan
    <2>8. life' \in [Proc -> Lifes]
      BY <1>1, <2>2, <2>3, <2>7 DEF Lifes
    <2> QED
      BY <2>3, <2>4, <2>5, <2>6, <2>7, <2>8
  <1>3. /\ DOMAIN pc' = Proc /\ pc'[p] = "ended"
        /\ \A q \in Proc \ {p} : pc'[q] = pc[q]
    BY <1>1
  <1>4. Types'
    <2>1. pc'[main] \in {pc[main], "ended"}
      BY <1>1, <1>3
    <2>2. program = "jobctl" => Counts(pc'[main], i)
      BY <2>1 DEF FamilyInv, Types, Counts
    <2> QED
      BY <1>1, <1>2, <1>3, <2>2 DEF FamilyInv, Types, Counts
  <1>5. Lives0'
    <2>1. pc[p] # "none"
      BY DEF FamilyInv, Lives0
    <2>2. ASSUME NEW q \in Proc PROVE life'[q] = "none" <=> pc'[q] = "none"
      <3>1. CASE q = p
        BY <1>2, <1>3, <3>1
      <3>2. CASE q # p
        BY <1>2, <1>3, <3>2 DEF FamilyInv, Lives0
      <3> QED
        BY <3>1, <3>2
    <2>3. ASSUME NEW q \in Proc, life'[q] \in {"zombie", "gone"} PROVE pc'[q] = "ended"
      <3>1. CASE q = p
        BY <1>3, <3>1
      <3>2. CASE q # p
        BY <1>2, <1>3, <2>3, <3>2 DEF FamilyInv, Lives0
      <3> QED
        BY <3>1, <3>2
    <2>4. life'[main] \in {"alive", "gone"}
      BY <1>1, <1>2
    <2> QED
      BY <2>2, <2>3, <2>4 DEF Lives0
  <1>6. CASE p = main
    BY <1>2, <1>4, <1>5, <1>6 DEF FamilyInv, Family, Groups
  <1>7. CASE p # main
    <2>1. pc'[main] = pc[main] /\ life'[main] = life[main]
      BY <1>1, <1>2, <1>3, <1>7
    <2>2. \A c : /\ Forked(c)' <=> Forked(c)
                 /\ Waited(c)' <=> Waited(c)
                 /\ Grouped(c)' <=> Grouped(c)
      BY <2>1, SameMain
    <2>3. Groups'
      BY <2>1, <2>2 DEF FamilyInv, Groups
    <2>4. Family'
      <3> SUFFICES ASSUME life[main] = "alive", program # "fifo apart", NEW c \in Proc \ {main}
                   PROVE  /\ life'[c] = "none" <=> ~Forked(c)
                          /\ life'[c] = "gone" <=> Waited(c)
                          /\ Waited(c) => c \in reaped
        BY <2>1, <2>2 DEF Family
      <3>1. /\ life[c] = "none" <=> ~Forked(c)
            /\ life[c] = "gone" <=> Waited(c)
            /\ Waited(c) => c \in reaped
        BY DEF FamilyInv, Family
      <3>2. CASE c = p
        BY <1>2, <1>7, <3>1, <3>2 DEF Child
      <3>3. CASE c # p
        BY <1>2, <1>7, <3>1, <3>3
      <3> QED
        BY <3>2, <3>3
    <2> QED
      BY <1>4, <1>5, <2>3, <2>4 DEF FamilyInv
  <1> QED
    BY <1>6, <1>7

\* Another process than main goes on, or others wake.
LEMMA Moves ==
    ASSUME FamilyInv, UNCHANGED <<program, life, reaped, g_group, i>>,
           DOMAIN pc' = Proc, pc'[main] = pc[main], group' \in [Proc -> Proc],
           \A q \in Proc : pc'[q] # pc[q]
                           => pc[q] \notin {"none", "ended"} /\ pc'[q] \notin {"none", "ended"},
           \A q \in Proc : group'[q] # group[q]
                           => \/ group'[q] = leader /\ q # main
                              \/ q = newcomer /\ program = "jobctl"
    PROVE  FamilyInv'
  <1>1. \A c : /\ Forked(c)' <=> Forked(c)
               /\ Waited(c)' <=> Waited(c)
               /\ Grouped(c)' <=> Grouped(c)
    BY SameMain
  <1>2. Types' /\ Lives0'
    BY Names DEF FamilyInv, Types, Lives0
  <1>3. Family'
    BY <1>1 DEF FamilyInv, Family
  <1>4. Groups'
    BY <1>1, Names DEF FamilyInv, Groups, Grouped
  <1> QED
    BY <1>2, <1>3, <1>4 DEF FamilyInv

\* main goes on without a change of its family.
LEMMA MainMoves ==
    ASSUME FamilyInv, life[main] = "alive", DOMAIN pc' = Proc,
           \A q \in Proc : pc'[q] # pc[q]
                           => pc[q] \notin {"none", "ended"} /\ pc'[q] \notin {"none", "ended"},
           UNCHANGED <<program, reaped>>,
           life' \in [Proc -> Lifes], life'[main] = "alive",
           \A c \in Proc \ {main} :
              \/ life'[c] = life[c]
              \/ life'[c] \in {"alive", "stopped"} /\ life[c] \in {"alive", "stopped"},
           group' \in [Proc -> Proc], g_group' \in [Proc -> {0, leader}], i' \in Nat,
           program = "jobctl" => Counts(pc'[main], i'),
           \A c \in Proc \ {main} : /\ Forked(c)' <=> Forked(c)
                                    /\ Waited(c)' <=> Waited(c),
           Groups'
    PROVE  FamilyInv'
  <1>1. Types'
    BY DEF FamilyInv, Types
  <1>2. ASSUME NEW q \in Proc
        PROVE  /\ life'[q] = "none" <=> pc'[q] = "none"
               /\ life'[q] \in {"zombie", "gone"} => pc'[q] = "ended"
    <2>1. /\ life[q] = "none" <=> pc[q] = "none"
          /\ life[q] \in {"zombie", "gone"} => pc[q] = "ended"
      BY DEF FamilyInv, Lives0
    <2>2. \/ life'[q] = life[q]
          \/ life'[q] \in {"alive", "stopped"} /\ life[q] \in {"alive", "stopped"}
      OBVIOUS
    <2> QED
      BY <2>1, <2>2
  <1>3. Lives0'
    BY <1>2 DEF Lives0
  <1>4. Family'
    BY DEF FamilyInv, Family
  <1> QED
    BY <1>1, <1>3, <1>4 DEF FamilyInv

\* main forks a child.
LEMMA Forks ==
    ASSUME FamilyInv, NEW c \in Proc \ {main}, NEW label, NEW next, Fork(c, label, next),
           label \notin {"none", "ended"}, next \notin {"none", "ended"}, life[main] = "alive",
           program = "jobctl" => Counts(next, i),
           program # "fifo apart" =>
              \A q \in Proc \ {main} : /\ Forked(q)' <=> Forked(q) \/ q = c
                                       /\ Waited(q)' <=> Waited(q),
           ~Waited(c), Groups'
    PROVE  FamilyInv'
  <1>1. /\ pc' = [pc EXCEPT ![main] = next, ![c] = label]
        /\ life' = [life EXCEPT ![c] = "alive"]
        /\ group' = [group EXCEPT ![c] = group[main]]
        /\ g_group' = [g_group EXCEPT ![c] = g_group[main]]
        /\ UNCHANGED <<program, reaped, i>>
    BY DEF Fork
  <1>2. /\ DOMAIN pc = Proc /\ DOMAIN pc' = Proc /\ main \in Proc
        /\ pc'[main] = next /\ pc'[c] = label /\ \A q \in Proc \ {main, c} : pc'[q] = pc[q]
    BY <1>1, Names DEF FamilyInv, Types
  <1>3. /\ life' \in [Proc -> Lifes] /\ life'[c] = "alive"
        /\ \A q \in Proc \ {c} : life'[q] = life[q]
    BY <1>1 DEF FamilyInv, Types, Lifes
  <1>4. Types'
    BY <1>1, <1>2, <1>3, Names DEF FamilyInv, Types
  <1>5. Lives0'
    BY <1>2, <1>3 DEF FamilyInv, Lives0
  <1>6. Family'
    <2> SUFFICES ASSUME program # "fifo apart", NEW q \in Proc \ {main}
                 PROVE  /\ life'[q] = "none" <=> ~Forked(q)'
                        /\ life'[q] = "gone" <=> Waited(q)'
                        /\ Waited(q)' => q \in reaped'
      BY <1>1 DEF Family
    <2>1. /\ life[q] = "none" <=> ~Forked(q)
          /\ life[q] = "gone" <=> Waited(q)
          /\ Waited(q) => q \in reaped
      BY DEF FamilyInv, Family
    <2> QED
      BY <1>1, <1>3, <2>1
  <1> QED
    BY <1>4, <1>5, <1>6 DEF FamilyInv

\* main waits for a child.
LEMMA Waits ==
    ASSUME FamilyInv, NEW c \in Proc \ {main}, NEW next, Wait(c, next),
           next \notin {"none", "ended"}, life[main] = "alive", g_group' = g_group,
           i' \in Nat,
           program = "jobctl" => Counts(next, i'),
           program # "fifo apart" =>
              \A q \in Proc \ {main} : /\ Forked(q)' <=> Forked(q)
                                       /\ Waited(q)' <=> Waited(q) \/ q = c,
           Groups'
    PROVE  FamilyInv'
  <1>1. /\ life[c] = "zombie" /\ life' = [life EXCEPT ![c] = "gone"] /\ reaped' = reaped \cup {c}
        /\ pc' = [pc EXCEPT ![main] = next]
        /\ UNCHANGED <<program, group>>
    BY DEF Wait, Goto
  <1>2. /\ DOMAIN pc = Proc /\ DOMAIN pc' = Proc /\ main \in Proc
        /\ pc'[main] = next /\ \A q \in Proc \ {main} : pc'[q] = pc[q]
    BY <1>1, Names DEF FamilyInv, Types
  <1>3. /\ life' \in [Proc -> Lifes] /\ life'[c] = "gone"
        /\ \A q \in Proc \ {c} : life'[q] = life[q]
    BY <1>1 DEF FamilyInv, Types, Lifes
  <1>4. Types'
    BY <1>1, <1>2, <1>3, ZenonT(60) DEF FamilyInv, Types
  <1>5. Lives0'
    BY <1>1, <1>2, <1>3, ZenonT(60) DEF FamilyInv, Lives0
  <1>6. Family'
    <2> SUFFICES ASSUME program # "fifo apart", NEW q \in Proc \ {main}
                 PROVE  /\ life'[q] = "none" <=> ~Forked(q)'
                        /\ life'[q] = "gone" <=> Waited(q)'
                        /\ Waited(q)' => q \in reaped'
      BY <1>1 DEF Family
    <2>1. /\ life[q] = "none" <=> ~Forked(q)
          /\ life[q] = "gone" <=> Waited(q)
          /\ Waited(q) => q \in reaped
      BY <1>1 DEF FamilyInv, Family
    <2> QED
      BY <1>1, <1>3, <2>1
  <1> QED
    BY <1>4, <1>5, <1>6 DEF FamilyInv

\* One process goes on.
LEMMA OneGoes ==
    ASSUME FamilyInv, NEW p \in Proc, life[p] = "alive", NEW label, pc' = [pc EXCEPT ![p] = label],
           pc[p] \notin {"none", "ended"}, label \notin {"none", "ended"}
    PROVE  /\ DOMAIN pc' = Proc /\ pc'[p] = label
           /\ \A q \in Proc \ {p} : pc'[q] = pc[q]
           /\ \A q \in Proc : pc'[q] # pc[q]
                              => pc[q] \notin {"none", "ended"} /\ pc'[q] \notin {"none", "ended"}
  BY DEF FamilyInv, Types

LEMMA SetsGroup ==
    ASSUME FamilyInv, NEW c \in Proc, NEW g \in Proc, SetPgid(c, g)
    PROVE  /\ group' \in [Proc -> Proc]
           /\ \A q \in Proc \ {c} : group'[q] = group[q]
           /\ group'[c] \in {group[c], g}
           /\ g = c \/ Exists(g) => group'[c] = g
  BY DEF FamilyInv, Types, SetPgid

----------------------------------------------------------------------------
(* The steps of the pipeline.                                              *)

LEMMA ShellMoves ==
    ASSUME FamilyInv, program = "pipeline", life[main] = "alive", NEW label,
           pc' = [pc EXCEPT ![main] = label], UNCHANGED <<program, life, reaped, g_group, i>>,
           \/ pc[main] = "pipe" /\ label = "fork first"
           \/ pc[main] = "group first" /\ label = "fork second" /\ group'[first] = first
           \/ /\ pc[main] = "group second" /\ label = "close"
              /\ group'[first] = first /\ group'[second] = first
           \/ pc[main] = "close" /\ label = "wait first" /\ group' = group,
           group' \in [Proc -> Proc]
    PROVE  FamilyInv'
  <1>0. main \in Proc /\ DOMAIN pc = Proc
    BY Names DEF FamilyInv, Types
  <1>1. main \in Proc /\ pc'[main] = label /\ program # "jobctl"
    BY <1>0
  <1>2. \A c \in Proc \ {main} : Forked(c)' <=> Forked(c)
    BY <1>1, ZenonT(60) DEF Forked
  <1>3. \A c \in Proc \ {main} : Waited(c)' <=> Waited(c)
    BY <1>1, ZenonT(60) DEF Waited
  <1>4. Groups'
    BY <1>1 DEF FamilyInv, Groups
  <1>5. /\ DOMAIN pc' = Proc
        /\ \A q \in Proc : pc'[q] # pc[q]
                           => pc[q] \notin {"none", "ended"} /\ pc'[q] \notin {"none", "ended"}
    BY <1>1, OneGoes
  <1>6. life \in [Proc -> Lifes] /\ g_group \in [Proc -> {0, leader}] /\ i \in Nat
    BY DEF FamilyInv, Types
  <1> QED
    BY <1>1, <1>2, <1>3, <1>4, <1>5, <1>6, MainMoves

LEMMA ShellStep == ASSUME FamilyInv, Shell PROVE FamilyInv'
  <1>0. group \in [Proc -> Proc] /\ main \in Proc /\ first \in Proc \ {main} /\ second \in Proc \ {main}
    BY Names DEF FamilyInv, Types
  <1>1. CASE MakePipe
    BY <1>0, <1>1, ShellMoves DEF MakePipe, Running, At, Goto, process, job
  <1>2. CASE ForkFirst
    <2>1. /\ Fork(first, "setpgid", "group first") /\ program = "pipeline" /\ life[main] = "alive"
          /\ pc[main] = "fork first"
      BY <1>2 DEF ForkFirst, Running, At
    <2>2. pc'[main] = "group first" /\ program' = program
      BY <2>1, Names DEF FamilyInv, Types, Fork
    <2>3. \A q \in Proc \ {main} : /\ Forked(q)' <=> Forked(q) \/ q = first
                                   /\ Waited(q)' <=> Waited(q)
      BY <2>1, <2>2, Names DEF Forked, Waited
    <2>4. Groups' /\ ~Waited(first)
      BY <2>1, <2>2, Names DEF Groups, Waited
    <2> QED
      BY <1>0, <2>1, <2>3, <2>4, Forks
  <1>3. CASE GroupFirst
    <2>1. /\ SetPgid(first, first) /\ program = "pipeline" /\ life[main] = "alive"
          /\ pc[main] = "group first" /\ pc' = [pc EXCEPT ![main] = "fork second"]
          /\ UNCHANGED <<program, life, reaped, g_group, i>>
      BY <1>3 DEF GroupFirst, Running, At, Goto, job
    <2>2. group' \in [Proc -> Proc] /\ group'[first] = first
      BY <1>0, <2>1, SetsGroup
    <2> QED
      BY <2>1, <2>2, ShellMoves
  <1>4. CASE ForkSecond
    <2>1. /\ Fork(second, "setpgid", "group second") /\ program = "pipeline" /\ life[main] = "alive"
          /\ pc[main] = "fork second"
      BY <1>4 DEF ForkSecond, Running, At
    <2>2. pc'[main] = "group second" /\ program' = program /\ group'[first] = group[first]
      BY <2>1, Names DEF FamilyInv, Types, Fork
    <2>3. \A q \in Proc \ {main} : /\ Forked(q)' <=> Forked(q) \/ q = second
                                   /\ Waited(q)' <=> Waited(q)
      BY <2>1, <2>2, Names DEF Forked, Waited
    <2>4. Groups' /\ ~Waited(second)
      BY <2>1, <2>2, Names DEF FamilyInv, Groups, Waited
    <2> QED
      BY <1>0, <2>1, <2>3, <2>4, Forks
  <1>5. CASE GroupSecond
    <2>1. /\ SetPgid(second, first) /\ program = "pipeline" /\ life[main] = "alive"
          /\ pc[main] = "group second" /\ pc' = [pc EXCEPT ![main] = "close"]
          /\ UNCHANGED <<program, life, reaped, g_group, i>>
      BY <1>5 DEF GroupSecond, Running, At, Goto, job
    <2>2. Forked(first) /\ ~Waited(first)
      BY <2>1, Names DEF Forked, Waited
    <2>3. life[first] \notin {"none", "gone"} /\ group[first] = first
      BY <1>0, <2>1, <2>2 DEF FamilyInv, Family, Groups
    <2>4. Exists(first)
      BY <1>0, <2>3 DEF Exists
    <2>5. group' \in [Proc -> Proc] /\ group'[first] = first /\ group'[second] = first
      BY <1>0, <2>1, <2>3, <2>4, SetsGroup, Names
    <2> QED
      BY <2>1, <2>5, ShellMoves
  <1>6. CASE CloseEnds
    BY <1>0, <1>6, ShellMoves DEF CloseEnds, Running, At, Goto, process, job
  <1>7. CASE WaitFirst
    <2>1. /\ Wait(first, "wait second") /\ program = "pipeline" /\ life[main] = "alive"
          /\ pc[main] = "wait first" /\ UNCHANGED <<g_group, i>>
      BY <1>7 DEF WaitFirst, Running, At, job
    <2>2. pc'[main] = "wait second" /\ program' = program /\ group' = group
      BY <2>1, Names DEF FamilyInv, Types, Wait, Goto
    <2>3. \A q \in Proc \ {main} : /\ Forked(q)' <=> Forked(q)
                                   /\ Waited(q)' <=> Waited(q) \/ q = first
      BY <2>1, <2>2, Names DEF Forked, Waited
    <2>4. Groups' /\ i \in Nat
      BY <2>1, <2>2, Names DEF FamilyInv, Types, Groups
    <2> QED
      BY <1>0, <2>1, <2>3, <2>4, Waits
  <1>8. CASE WaitSecond
    <2>1. /\ Wait(second, "return") /\ program = "pipeline" /\ life[main] = "alive"
          /\ pc[main] = "wait second" /\ UNCHANGED <<g_group, i>>
      BY <1>8 DEF WaitSecond, Running, At, job
    <2>2. pc'[main] = "return" /\ program' = program /\ group' = group
      BY <2>1, Names DEF FamilyInv, Types, Wait, Goto
    <2>3. \A q \in Proc \ {main} : /\ Forked(q)' <=> Forked(q)
                                   /\ Waited(q)' <=> Waited(q) \/ q = second
      BY <2>1, <2>2, Names DEF Forked, Waited
    <2>4. Groups' /\ i \in Nat
      BY <2>1, <2>2, Names DEF FamilyInv, Types, Groups
    <2> QED
      BY <1>0, <2>1, <2>3, <2>4, Waits
  <1> QED
    BY <1>1, <1>2, <1>3, <1>4, <1>5, <1>6, <1>7, <1>8 DEF Shell

LEMMA ExitStep == ASSUME FamilyInv, NEW p \in Proc, life[p] = "alive", Exit(p) PROVE FamilyInv'
  BY Ends DEF Exit, Exits, Goto, job

LEMMA WriteStep ==
    ASSUME FamilyInv, NEW p \in Proc, life[p] = "alive", NEW f, Write(p, f) \/ BrokenPipe(p, f)
    PROVE  FamilyInv'
  <1>1. CASE Write(p, f)
    BY <1>1, Unchanged DEF Write, state, process, job
  <1>2. CASE BrokenPipe(p, f)
    BY <1>2, ExitStep DEF BrokenPipe
  <1> QED
    BY <1>1, <1>2

LEMMA ReadStep == ASSUME FamilyInv, NEW f, Read(f) PROVE FamilyInv'
  BY Unchanged DEF Read, state, process, job

\* A child goes on, and may enter the group.
LEMMA ChildGoes ==
    ASSUME FamilyInv, NEW p \in Proc \ {main}, life[p] = "alive", NEW label,
           pc' = [pc EXCEPT ![p] = label], pc[p] \notin {"none", "ended"}, label \notin {"none", "ended"},
           UNCHANGED <<program, life, reaped, g_group, i>>,
           group' = group \/ SetPgid(p, leader)
    PROVE  FamilyInv'
  <1>1. /\ DOMAIN pc' = Proc /\ pc'[main] = pc[main] /\ leader \in Proc
        /\ \A q \in Proc : pc'[q] # pc[q]
                           => pc[q] \notin {"none", "ended"} /\ pc'[q] \notin {"none", "ended"}
    BY OneGoes, Names
  <1>2. /\ group' \in [Proc -> Proc]
        /\ \A q \in Proc : group'[q] # group[q] => group'[q] = leader /\ q # main
    BY <1>1, SetsGroup DEF FamilyInv, Types
  <1> QED
    BY <1>1, <1>2, Moves

LEMMA PipelineKeeps ==
    ASSUME FamilyInv, NEW p \in Proc, PipelineStep(p)
    PROVE  FamilyInv'
  <1>0. first \in Proc \ {main} /\ second \in Proc \ {main} /\ first = leader
    BY Names
  <1>1. CASE Shell
    BY <1>1, ShellStep
  <1>2. ASSUME p \in {first, second}, Stage(p) PROVE FamilyInv'
    <2>1. CASE Regroup(p)
      <3>1. /\ life[p] = "alive" /\ pc[p] = "setpgid" /\ pc' = [pc EXCEPT ![p] = "redirect"]
            /\ UNCHANGED <<program, life, reaped, g_group, i>> /\ SetPgid(p, first)
        BY <2>1 DEF Regroup, Running, At, Goto, job
      <3>2. SetPgid(p, leader) /\ p \in Proc \ {main}
        BY <1>0, <1>2, <3>1
      <3>3. pc[p] \notin {"none", "ended"} /\ "redirect" \notin {"none", "ended"}
        BY <3>1
      <3> QED
        BY <3>1, <3>2, <3>3, ChildGoes
    <2>2. CASE Redirect(p) \/ Exec(p)
      <3> DEFINE label == IF pc[p] = "redirect" THEN "exec" ELSE IF p = first THEN "left" ELSE "right"
      <3>1. /\ life[p] = "alive" /\ pc[p] \in {"redirect", "exec"}
            /\ pc' = [pc EXCEPT ![p] = label]
            /\ UNCHANGED <<program, life, reaped, g_group, i>> /\ group' = group
        BY <1>0, <1>2, <2>2 DEF Redirect, Exec, Running, At, Goto, process, job
      <3>2. label \notin {"none", "ended"}
        OBVIOUS
      <3> HIDE DEF label
      <3> QED
        BY <1>0, <1>2, <3>1, <3>2, ChildGoes
    <2> QED
      BY <1>2, <2>1, <2>2 DEF Stage
  <1>3. CASE Left
    BY <1>0, <1>3, WriteStep, ExitStep DEF Left, Running, At
  <1>4. CASE ReadsLine
    BY <1>4, ReadStep DEF ReadsLine
  <1>5. CASE SeesEof
    BY <1>0, <1>5, Ends DEF SeesEof, Running, At, Goto, job
  <1> QED
    BY <1>1, <1>2, <1>3, <1>4, <1>5 DEF PipelineStep

LEMMA PipelineFaultKeeps == ASSUME FamilyInv, PipelineFault PROVE FamilyInv'
  <1>0. first \in Proc /\ second \in Proc /\ main \in Proc
    BY Names
  <1>1. CASE ShellGivesUp
    BY <1>0, <1>1, Ends DEF ShellGivesUp, Running, At, Exits, Goto, job
  <1>2. ASSUME NEW c \in {first, second}, ExecFails(c) PROVE FamilyInv'
    BY <1>0, <1>2, Ends DEF ExecFails, Running, At, Exits, Goto, job
  <1>3. ASSUME NEW c \in {first, second}, StopsEarly(c) PROVE FamilyInv'
    BY <1>0, <1>3, ExitStep DEF StopsEarly, Running, At
  <1> QED
    BY <1>1, <1>2, <1>3 DEF PipelineFault

----------------------------------------------------------------------------
(* The steps of the FIFO.                                                  *)

\* Between two labels neither a fork nor a wait is done.
SameStage(label, next) ==
    /\ label \in {"mkfifo", "stat", "fork writer"} <=> next \in {"mkfifo", "stat", "fork writer"}
    /\ label \in {"unlink", "return"} <=> next \in {"unlink", "return"}

\* A process goes on, and a reader or writers may wake.
LEMMA FifoMoves ==
    ASSUME FamilyInv, program \in {"fifo", "fifo apart"}, DOMAIN pc' = Proc,
           UNCHANGED <<program, life, group, reaped, g_group, i>>,
           \A q \in Proc : pc'[q] # pc[q]
                           => pc[q] \notin {"none", "ended"} /\ pc'[q] \notin {"none", "ended"},
           program = "fifo" => SameStage(pc[main], pc'[main])
    PROVE  FamilyInv'
  <1>0. main \in Proc /\ group \in [Proc -> Proc]
    BY Names DEF FamilyInv, Types
  <1>1. CASE pc'[main] = pc[main]
    BY <1>0, <1>1, Moves
  <1>2. CASE pc'[main] # pc[main]
    <2>1. life[main] = "alive"
      BY <1>0, <1>2 DEF FamilyInv, Lives0
    <2>2. \A c \in Proc \ {main} : Forked(c)' <=> Forked(c)
      BY DEF Forked, SameStage
    <2>3. \A c \in Proc \ {main} : Waited(c)' <=> Waited(c)
      BY DEF Waited, SameStage
    <2>4. Groups'
      BY DEF Groups
    <2>5. life \in [Proc -> Lifes] /\ g_group \in [Proc -> {0, leader}] /\ i \in Nat
      BY DEF FamilyInv, Types
    <2> QED
      BY <1>0, <2>1, <2>2, <2>3, <2>4, <2>5, MainMoves
  <1> QED
    BY <1>1, <1>2

LEMMA FifoGoes ==
    ASSUME FamilyInv, program \in {"fifo", "fifo apart"}, NEW p \in Proc, life[p] = "alive", NEW label,
           pc' = [pc EXCEPT ![p] = label], pc[p] \notin {"none", "ended"}, label \notin {"none", "ended"},
           UNCHANGED <<program, life, group, reaped, g_group, i>>,
           p = main /\ program = "fifo" => SameStage(pc[main], label)
    PROVE  FamilyInv'
  <1>1. /\ DOMAIN pc' = Proc /\ pc'[p] = label
        /\ \A q \in Proc \ {p} : pc'[q] = pc[q]
        /\ \A q \in Proc : pc'[q] # pc[q]
                           => pc[q] \notin {"none", "ended"} /\ pc'[q] \notin {"none", "ended"}
    BY OneGoes
  <1>2. pc'[main] = pc[main] \/ p = main
    BY <1>1, Names
  <1> QED
    BY <1>1, <1>2, FifoMoves DEF SameStage

LEMMA FifoKeeps ==
    ASSUME FamilyInv, NEW p \in Proc, FifoStep(p)
    PROVE  FamilyInv'
  <1>0. main \in Proc /\ 1 \in Proc \ {main} /\ reader = main
    BY Names DEF reader, first
  <1>1. CASE MakeFifo(p)
    <2>1. /\ program \in {"fifo", "fifo apart"} /\ life[p] = "alive" /\ pc[p] = "mkfifo"
          /\ pc' = [pc EXCEPT ![p] = "stat"]
          /\ UNCHANGED <<program, life, group, reaped, g_group, i>>
      BY <1>1 DEF MakeFifo, InFifo, At, Goto, process, job
    <2>2. SameStage("mkfifo", "stat") /\ "stat" \notin {"none", "ended"}
      BY DEF SameStage
    <2> QED
      BY <2>1, <2>2, FifoGoes
  <1>2. CASE Stat(p)
    <2>1. CASE file = 0
      BY <1>2, <2>1, ExitStep DEF Stat, InFifo, At
    <2>2. CASE file # 0
      <3> DEFINE label == IF program = "fifo" THEN "fork writer" ELSE "open"
      <3>1. /\ program \in {"fifo", "fifo apart"} /\ life[p] = "alive" /\ pc[p] = "stat"
            /\ pc' = [pc EXCEPT ![p] = label]
            /\ UNCHANGED <<program, life, group, reaped, g_group, i>>
        BY <1>2, <2>2 DEF Stat, InFifo, At, Goto, process, job
      <3>2. label \notin {"none", "ended"} /\ (program = "fifo" => SameStage("stat", label))
        BY DEF SameStage
      <3> HIDE DEF label
      <3> QED
        BY <3>1, <3>2, FifoGoes
    <2> QED
      BY <2>1, <2>2
  <1>3. CASE Open(p)
    <2>1. /\ program \in {"fifo", "fifo apart"} /\ life[p] = "alive" /\ pc[p] = "open"
          /\ UNCHANGED <<program, life, group, reaped, g_group, i>>
      BY <1>3 DEF Open, InFifo, At, process, job
    <2>2. CASE file = 0
      <3>1. pc' = [pc EXCEPT ![p] = After(p)]
        BY <1>3, <2>2 DEF Open, Goto
      <3>2. /\ After(p) \notin {"none", "ended"}
            /\ p = main /\ program = "fifo" => SameStage("open", After(p))
        BY <1>0 DEF After, SameStage
      <3> QED
        BY <2>1, <3>1, <3>2, FifoGoes
    <2>3. CASE file # 0
      <3>1. \A q \in Proc : Opened(q) \in {"read", "write"}
        BY DEF Opened
      <3>2. /\ DOMAIN pc' = Proc /\ pc'[p] \in {"read", "write", "opening"}
            /\ \A q \in Proc : \/ pc'[q] = pc[q]
                               \/ pc[q] \in {"open", "opening"} /\ pc'[q] \in {"read", "write", "opening"}
        <4>1. pc' = [q \in Proc |->
                  CASE q = p -> IF Connected(file, OtherEnd(EndOf(p))) THEN Opened(p) ELSE "opening"
                    [] q # p /\ pc[q] = "opening" /\ Holds(q, file, OtherEnd(EndOf(p))) -> Opened(q)
                    [] OTHER -> pc[q]]
          BY <1>3, <2>3 DEF Open
        <4>2. DOMAIN pc' = Proc
          BY <4>1
        <4>3. pc'[p] = IF Connected(file, OtherEnd(EndOf(p))) THEN Opened(p) ELSE "opening"
          BY <4>1
        <4>4. ASSUME NEW q \in Proc, q # p
              PROVE  pc'[q] = pc[q] \/ (pc[q] = "opening" /\ pc'[q] = Opened(q))
          BY <4>1, <4>4
        <4> QED
          BY <2>1, <3>1, <4>2, <4>3, <4>4
      <3>3. program = "fifo" => SameStage(pc[main], pc'[main])
        BY <1>0, <3>2 DEF SameStage
      <3> QED
        BY <1>0, <2>1, <3>2, <3>3, FifoMoves
    <2> QED
      BY <2>2, <2>3
  <1>4. CASE WriterStep(p)
    <2>1. /\ life[p] = "alive"
          /\ \E f \in Pipe : Exit(p) \/ Write(p, f) \/ BrokenPipe(p, f)
      BY <1>4 DEF WriterStep, InFifo, At
    <2> QED
      BY <2>1, WriteStep, ExitStep
  <1>5. CASE WriterExits(p)
    BY <1>5, ExitStep DEF WriterExits, InFifo, At
  <1>6. CASE ForkWriter
    <2>1. /\ Fork(1, "open", "open") /\ program \in {"fifo", "fifo apart"} /\ life[main] = "alive"
          /\ pc[main] = "fork writer"
      BY <1>6 DEF ForkWriter, InFifo, At
    <2>2. pc'[main] = "open" /\ program' = program
      BY <1>0, <2>1 DEF FamilyInv, Types, Fork
    <2>3. program # "fifo apart" =>
            \A q \in Proc \ {main} : /\ Forked(q)' <=> Forked(q) \/ q = 1
                                     /\ Waited(q)' <=> Waited(q)
      BY <1>0, <2>1, <2>2 DEF Forked, Waited
    <2>4. Groups' /\ ~Waited(1)
      BY <2>1, <2>2 DEF Groups, Waited
    <2>5. "open" \notin {"none", "ended"} /\ program # "jobctl"
      BY <2>1
    <2> QED
      BY <1>0, <2>1, <2>3, <2>4, <2>5, Forks
  <1>7. CASE ReadsMessage
    BY <1>7, ReadStep DEF ReadsMessage
  <1>8. CASE ReadsEof
    <2>1. /\ program \in {"fifo", "fifo apart"} /\ life[main] = "alive" /\ pc[main] = "read"
          /\ pc' = [pc EXCEPT ![main] = "close"]
          /\ UNCHANGED <<program, life, group, reaped, g_group, i>>
      BY <1>0, <1>8 DEF ReadsEof, InFifo, At, Goto, process, job
    <2>2. SameStage("read", "close") /\ "close" \notin {"none", "ended"}
      BY DEF SameStage
    <2> QED
      BY <1>0, <2>1, <2>2, FifoGoes
  <1>9. CASE CloseReadEnd
    <2>1. /\ program \in {"fifo", "fifo apart"} /\ life[main] = "alive" /\ pc[main] = "close"
          /\ pc' = [pc EXCEPT ![main] = After(main)]
          /\ UNCHANGED <<program, life, group, reaped, g_group, i>>
      BY <1>0, <1>9 DEF CloseReadEnd, InFifo, At, Goto, process, job
    <2>2. /\ After(main) \notin {"none", "ended"}
          /\ program = "fifo" => SameStage("close", After(main))
      BY <1>0 DEF After, SameStage
    <2> QED
      BY <1>0, <2>1, <2>2, FifoGoes
  <1>10. CASE WaitWriter
    <2>1. /\ Wait(1, "unlink") /\ program \in {"fifo", "fifo apart"} /\ life[main] = "alive"
          /\ pc[main] = "wait" /\ UNCHANGED <<g_group, i>>
      BY <1>10 DEF WaitWriter, InFifo, At, job
    <2>2. pc'[main] = "unlink" /\ program' = program
      BY <1>0, <2>1 DEF FamilyInv, Types, Wait, Goto
    <2>3. program # "fifo apart" =>
            \A q \in Proc \ {main} : /\ Forked(q)' <=> Forked(q)
                                     /\ Waited(q)' <=> Waited(q) \/ q = 1
      BY <1>0, <2>1, <2>2 DEF Forked, Waited
    <2>4. Groups' /\ i' \in Nat
      BY <2>1, <2>2 DEF FamilyInv, Types, Groups
    <2>5. "unlink" \notin {"none", "ended"} /\ program # "jobctl" /\ g_group' = g_group
      BY <2>1
    <2> QED
      BY <1>0, <2>1, <2>3, <2>4, <2>5, Waits
  <1>11. CASE Unlink
    <2>1. /\ program \in {"fifo", "fifo apart"} /\ life[main] = "alive" /\ pc[main] = "unlink"
          /\ pc' = [pc EXCEPT ![main] = "return"]
          /\ UNCHANGED <<program, life, group, reaped, g_group, i>>
      BY <1>11 DEF Unlink, InFifo, At, Goto, process, job
    <2>2. SameStage("unlink", "return") /\ "return" \notin {"none", "ended"}
      BY DEF SameStage
    <2> QED
      BY <1>0, <2>1, <2>2, FifoGoes
  <1> QED
    BY <1>1, <1>2, <1>3, <1>4, <1>5, <1>6, <1>7, <1>8, <1>9, <1>10, <1>11 DEF FifoStep
LEMMA FifoFaultKeeps == ASSUME FamilyInv, FifoFault PROVE FamilyInv'
  <1>1. main \in Proc /\ reader = main
    BY Names DEF reader
  <1>2. CASE ForkWriterFails
    BY <1>1, <1>2, Ends DEF ForkWriterFails, InFifo, At, Exits, Goto, job
  <1>3. ASSUME NEW p \in Proc, NoFifo(p) PROVE FamilyInv'
    BY <1>3, Ends DEF NoFifo, InFifo, At, Exits, Goto, job
  <1>4. ASSUME NEW p \in Proc, OpenFails(p) \/ (p = main /\ FdopenFails) PROVE FamilyInv'
    <2>1. /\ program \in {"fifo", "fifo apart"} /\ life[p] = "alive"
          /\ pc[p] = "open" \/ (p = main /\ pc[p] = "read")
          /\ pc' = [pc EXCEPT ![p] = After(p)]
          /\ UNCHANGED <<program, life, group, reaped, g_group, i>>
      BY <1>1, <1>4 DEF OpenFails, FdopenFails, InFifo, At, Goto, process, job
    <2>2. /\ After(p) \notin {"none", "ended"}
          /\ p = main /\ program = "fifo" => SameStage(pc[main], After(p))
      BY <1>1, <2>1 DEF After, SameStage
    <2> QED
      BY <2>1, <2>2, FifoGoes
  <1> QED
    BY <1>1, <1>2, <1>3, <1>4 DEF FifoFault

----------------------------------------------------------------------------
(* The steps of job control.                                               *)

\* main goes on in its program; whom it has forked and waited for does not
\* change.
LEMMA JobMoves ==
    ASSUME FamilyInv, program = "jobctl", life[main] = "alive", NEW label,
           pc' = [pc EXCEPT ![main] = label], pc[main] \notin {"none", "ended"},
           label \notin {"none", "ended"}, UNCHANGED <<program, reaped>>,
           life' \in [Proc -> Lifes], life'[main] = "alive",
           \A c \in Proc \ {main} :
              \/ life'[c] = life[c]
              \/ life'[c] \in {"alive", "stopped"} /\ life[c] \in {"alive", "stopped"},
           group' \in [Proc -> Proc], group'[main] = main,
           g_group' \in [Proc -> {0, leader}], i' \in Nat, Counts(label, i'),
           \A c \in Proc \ {main} : /\ Forked(c)' <=> Forked(c)
                                    /\ Waited(c)' <=> Waited(c),
           \A c \in Proc : Grouped(c)' => group'[c] = leader
    PROVE  FamilyInv'
  <1>1. /\ main \in Proc /\ DOMAIN pc' = Proc /\ pc'[main] = label
        /\ \A q \in Proc : pc'[q] # pc[q]
                           => pc[q] \notin {"none", "ended"} /\ pc'[q] \notin {"none", "ended"}
    BY OneGoes, Names
  <1>2. Groups'
    BY DEF Groups
  <1> QED
    BY <1>1, <1>2, MainMoves

\* The kernel's view of the workers that are in the group.
LEMMA JobState ==
    ASSUME FamilyInv, program = "jobctl", life[main] = "alive"
    PROVE  /\ group[main] = main /\ main \in Proc
           /\ life \in [Proc -> Lifes] /\ group \in [Proc -> Proc]
           /\ g_group \in [Proc -> {0, leader}] /\ i \in Nat /\ Counts(pc[main], i)
           /\ \A c \in Proc : Grouped(c) => group[c] = leader
           /\ \A c \in Proc \ {main} : /\ life[c] = "none" <=> ~Forked(c)
                                       /\ life[c] = "gone" <=> Waited(c)
  <1>1. main \in Proc
    BY Names
  <1> QED
    BY <1>1 DEF FamilyInv, Types, Family, Groups

LEMMA JobKeeps ==
    ASSUME FamilyInv, NEW p \in Proc, JobControlStep(p)
    PROVE  FamilyInv'
  <1>0. /\ main \in Proc /\ newcomer \in Proc \ {main} /\ newcomer \notin Worker
        /\ leader \in Worker /\ leader = 1 /\ main # leader /\ Workers \in Nat \ {0}
        /\ \A w \in Worker : w \in Proc \ {main} /\ w \in Nat
    BY Names DEF Worker, main
  <1>1. CASE ForkWorker
    <2>1. /\ Fork(i, "default", "group") /\ program = "jobctl" /\ life[main] = "alive"
          /\ pc[main] = "fork"
      BY <1>1 DEF ForkWorker, AtJob, At
    <2>2. i \in Worker /\ i \in Proc \ {main}
      BY <1>0, <2>1, JobState DEF Counts
    <2>3. /\ pc'[main] = "group" /\ program' = program /\ i' = i
          /\ \A c \in Proc \ {i} : group'[c] = group[c]
      BY <1>0, <2>1, <2>2 DEF FamilyInv, Types, Fork
    <2>4. \A q \in Worker : q <= i <=> q < i \/ q = i
      BY <1>0, <2>2
    <2>5. \A q \in Proc \ {main} : /\ Forked(q)' <=> Forked(q) \/ q = i
                                   /\ Waited(q)' <=> Waited(q)
      BY <1>0, <2>1, <2>2, <2>3, <2>4 DEF Forked, Waited
    <2>6. ~Waited(i) /\ ~(i < i)
      BY <1>0, <2>1, <2>2 DEF Waited
    <2>7. ASSUME NEW c \in Proc, Grouped(c)' PROVE group'[c] = leader
      BY <2>1, <2>3, <2>6, <2>7, JobState DEF Grouped
    <2>8. Groups'
      BY <1>0, <2>1, <2>2, <2>3, <2>7, JobState DEF Groups
    <2>9. Counts("group", i)
      BY <2>2 DEF Counts
    <2> QED
      BY <2>1, <2>2, <2>5, <2>6, <2>8, <2>9, Forks
  <1>2. CASE GroupWorker
    <2>1. /\ SetPgid(i, leader) /\ program = "jobctl" /\ life[main] = "alive"
          /\ pc[main] = "group" /\ pc' = [pc EXCEPT ![main] = "note"]
          /\ UNCHANGED <<program, life, reaped, g_group, i>>
      BY <1>2 DEF GroupWorker, AtJob, At, Goto, job
    <2>2. i \in Worker /\ i \in Proc \ {main} /\ Counts("note", i)
      BY <1>0, <2>1, JobState DEF Counts
    <2>3. pc'[main] = "note"
      BY <1>0, <2>1 DEF FamilyInv, Types
    <2>4. leader = i \/ Exists(leader)
      <3> SUFFICES ASSUME leader # i PROVE Exists(leader)
        OBVIOUS
      <3>1. leader < i /\ leader <= i /\ leader \in Proc
        BY <1>0, <2>2 DEF Worker
      <3>2. Forked(leader) /\ ~Waited(leader) /\ Grouped(leader)
        BY <1>0, <2>1, <3>1 DEF Forked, Waited, Grouped
      <3>3. life[leader] \notin {"none", "gone"} /\ group[leader] = leader
        BY <1>0, <2>1, <3>1, <3>2, JobState
      <3> QED
        BY <3>1, <3>3 DEF Exists
    <2>5. /\ group' \in [Proc -> Proc] /\ group'[i] = leader
          /\ \A q \in Proc \ {i} : group'[q] = group[q]
      BY <1>0, <2>1, <2>2, <2>4, SetsGroup
    <2>6. \A q \in Proc \ {main} : /\ Forked(q)' <=> Forked(q)
                                   /\ Waited(q)' <=> Waited(q)
      BY <2>1, <2>3 DEF Forked, Waited
    <2>7. \A q \in Worker : q <= i => q < i \/ q = i
      BY <1>0, <2>2
    <2>8. ASSUME NEW c \in Proc, Grouped(c)' PROVE group'[c] = leader
      <3>1. c = i \/ Grouped(c)
        BY <2>1, <2>3, <2>7, <2>8 DEF Grouped
      <3> QED
        BY <2>1, <2>5, <3>1, JobState
    <2>9. group'[main] = main
      BY <1>0, <2>1, <2>2, <2>5, JobState
    <2>10. pc[main] \notin {"none", "ended"} /\ "note" \notin {"none", "ended"}
      BY <2>1
    <2>11. /\ life' \in [Proc -> Lifes] /\ life'[main] = "alive" /\ life' = life
           /\ g_group' \in [Proc -> {0, leader}] /\ i' \in Nat /\ Counts("note", i')
      BY <2>1, <2>2, JobState
    <2> QED
      BY <2>1, <2>5, <2>6, <2>8, <2>9, <2>10, <2>11, JobMoves  <1>3. CASE NoteGroup
    <2> DEFINE label == IF i < Workers THEN "fork" ELSE "stop"
    <2>1. /\ program = "jobctl" /\ life[main] = "alive"
          /\ pc[main] = "note" /\ pc' = [pc EXCEPT ![main] = label]
          /\ g_group' = IF i = leader THEN [g_group EXCEPT ![main] = leader] ELSE g_group
          /\ i' = IF i < Workers THEN i + 1 ELSE 1
          /\ UNCHANGED <<program, life, reaped, group>>
      BY <1>3 DEF NoteGroup, AtJob, At, Goto, process
    <2>2. i \in Worker /\ i \in Nat /\ g_group \in [Proc -> {0, leader}]
      BY <2>1, JobState DEF Counts
    <2>3. pc'[main] = label
      BY <1>0, <2>1 DEF FamilyInv, Types
    <2>4. /\ label = "fork" => i' = i + 1 /\ i < Workers
          /\ label = "stop" => i' = 1 /\ i = Workers
          /\ label \in {"fork", "stop"}
      BY <1>0, <2>1, <2>2 DEF Worker
    <2> HIDE DEF label
    <2>5. i' \in Nat /\ Counts(label, i')
      BY <1>0, <2>2, <2>4 DEF Counts, Worker
    <2>6. \A w \in Worker : /\ w < i + 1 <=> w <= i
                            /\ i = Workers => w <= i
      BY <1>0, <2>2 DEF Worker
    <2>7. \A q \in Proc \ {main} : Forked(q)' <=> Forked(q)
      BY <2>1, <2>3, <2>4, <2>6 DEF Forked
    <2>8. \A q \in Proc \ {main} : Waited(q)' <=> Waited(q)
      BY <2>1, <2>3, <2>4 DEF Waited
    <2>9. ASSUME NEW c \in Proc, Grouped(c)' PROVE group'[c] = leader
      <3>1. Grouped(c)
        BY <2>1, <2>3, <2>4, <2>6, <2>9 DEF Grouped
      <3> QED
        BY <2>1, <3>1, JobState
    <2>10. /\ life' \in [Proc -> Lifes] /\ life'[main] = "alive" /\ life' = life
           /\ group' \in [Proc -> Proc] /\ group'[main] = main
           /\ pc[main] \notin {"none", "ended"} /\ label \notin {"none", "ended"}
      BY <2>1, <2>4, JobState
    <2>11. g_group' \in [Proc -> {0, leader}]
      BY <2>1, <2>2
    <2> QED
      BY <2>1, <2>5, <2>7, <2>8, <2>9, <2>10, <2>11, JobMoves
  <1>4. CASE StopJob \/ ContinueJob
    <2>1. PICK from \in {"alive", "stopped"}, to \in {"alive", "stopped"}, label \in {"cont", "term"} :
            /\ program = "jobctl" /\ life[main] = "alive"
            /\ pc[main] \in {"stop", "cont"} /\ pc' = [pc EXCEPT ![main] = label]
            /\ life' = [q \in Proc |-> IF q \in Job(main) /\ life[q] = from THEN to ELSE life[q]]
            /\ UNCHANGED <<program, group, reaped, g_group, i>>
      BY <1>4 DEF StopJob, ContinueJob, Switch, AtJob, At, Goto, job
    <2>2. pc'[main] = label
      BY <1>0, <2>1 DEF FamilyInv, Types
    <2>3. main \notin Job(main)
      <3>1. g_group[main] \in {0, leader} /\ group[main] = main
        BY <2>1, JobState
      <3> QED
        BY <1>0, <3>1 DEF Job, Members, main
    <2>4. /\ life' \in [Proc -> Lifes] /\ life'[main] = "alive"
          /\ \A c \in Proc \ {main} :
                \/ life'[c] = life[c]
                \/ life'[c] \in {"alive", "stopped"} /\ life[c] \in {"alive", "stopped"}
      <3>1. life \in [Proc -> Lifes]
        BY <2>1, JobState
      <3> QED
        BY <1>0, <2>1, <2>3, <3>1 DEF Lifes
    <2>5. \A q \in Proc \ {main} : /\ Forked(q)' <=> Forked(q)
                                   /\ Waited(q)' <=> Waited(q)
      BY <2>1, <2>2 DEF Forked, Waited
    <2>6. ASSUME NEW c \in Proc, Grouped(c)' PROVE group'[c] = leader
      <3>1. Grouped(c)
        BY <2>1, <2>2, <2>6 DEF Grouped
      <3> QED
        BY <2>1, <3>1, JobState
    <2>7. i' \in Nat /\ Counts(label, i')
      BY <2>1, JobState DEF Counts
    <2>8. /\ group' \in [Proc -> Proc] /\ group'[main] = main
          /\ g_group' \in [Proc -> {0, leader}]
          /\ pc[main] \notin {"none", "ended"} /\ label \notin {"none", "ended"}
      BY <2>1, JobState
    <2>9. /\ program = "jobctl" /\ life[main] = "alive" /\ pc' = [pc EXCEPT ![main] = label]
          /\ UNCHANGED <<program, reaped>>
      BY <2>1
    <2> QED
      BY <2>4, <2>5, <2>6, <2>7, <2>8, <2>9, JobMoves  <1>5. CASE EndJob \/ ForgetGroup
    <2> DEFINE label == IF pc[main] = "term" THEN "reap" ELSE "fork newcomer"
    <2>1. /\ program = "jobctl" /\ life[main] = "alive"
          /\ pc[main] \in {"term", "forget"} /\ pc' = [pc EXCEPT ![main] = label]
          /\ UNCHANGED <<program, life, reaped, group, i>>
          /\ g_group' = g_group \/ g_group' = [g_group EXCEPT ![main] = 0]
      BY <1>5 DEF EndJob, ForgetGroup, AtJob, At, Goto, process, job
    <2>2. pc'[main] = label
      BY <1>0, <2>1 DEF FamilyInv, Types
    <2>3. \/ label = "reap" /\ pc[main] = "term"
          \/ label = "fork newcomer" /\ pc[main] = "forget"
      BY <2>1
    <2> HIDE DEF label
    <2>4. pc[main] = "term" => i = 1
      BY <2>1, JobState DEF Counts
    <2>5. \A w \in Worker : ~(w < 1)
      BY <1>0 DEF Worker
    <2>6. \A q \in Proc \ {main} : /\ Forked(q)' <=> Forked(q)
                                   /\ Waited(q)' <=> Waited(q)
      BY <2>1, <2>2, <2>3, <2>4, <2>5 DEF Forked, Waited
    <2>7. ASSUME NEW c \in Proc, Grouped(c)' PROVE group'[c] = leader
      <3>1. Grouped(c)
        BY <2>1, <2>2, <2>3, <2>7 DEF Grouped
      <3> QED
        BY <2>1, <3>1, JobState
    <2>8. /\ life' \in [Proc -> Lifes] /\ life'[main] = "alive" /\ life' = life
          /\ group' \in [Proc -> Proc] /\ group'[main] = main
          /\ pc[main] \notin {"none", "ended"} /\ label \notin {"none", "ended"}
      BY <2>1, <2>3, JobState
    <2>9. g_group' \in [Proc -> {0, leader}]
      BY <2>1, JobState
    <2>10. i' \in Nat /\ Counts(label, i')
      BY <1>0, <2>1, <2>3, <2>4, JobState DEF Counts
    <2> QED
      BY <2>1, <2>6, <2>7, <2>8, <2>9, <2>10, JobMoves
  <1>6. CASE Reap
    <2> DEFINE label == IF i < Workers THEN "reap" ELSE "forget"
    <2>1. /\ Wait(i, label) /\ program = "jobctl" /\ life[main] = "alive"
          /\ pc[main] = "reap" /\ i' = i + 1 /\ g_group' = g_group
      BY <1>6 DEF Reap, AtJob, At
    <2>2. i \in Worker /\ i \in Nat /\ i \in Proc \ {main}
      BY <1>0, <2>1, JobState DEF Counts
    <2>3. /\ label = "reap" => i < Workers
          /\ label = "forget" => i = Workers
          /\ label \in {"reap", "forget"}
      BY <1>0, <2>2 DEF Worker
    <2> HIDE DEF label
    <2>4. pc'[main] = label /\ program' = program /\ group' = group
      BY <1>0, <2>1 DEF FamilyInv, Types, Wait, Goto
    <2>5. \A w \in Worker : /\ w < i + 1 <=> w < i \/ w = i
                            /\ i = Workers => (w < i \/ w = i)
      BY <1>0, <2>2 DEF Worker
    <2>6. \A q \in Proc \ {main} : Forked(q)' <=> Forked(q)
      BY <2>1, <2>3, <2>4 DEF Forked
    <2>7. \A q \in Proc \ {main} : Waited(q)' <=> Waited(q) \/ q = i
      BY <1>0, <2>1, <2>2, <2>3, <2>4, <2>5 DEF Waited
    <2>8. ASSUME NEW c \in Proc, Grouped(c)' PROVE group'[c] = leader
      <3>1. Grouped(c)
        BY <2>1, <2>3, <2>4, <2>8 DEF Grouped
      <3> QED
        BY <2>1, <2>4, <3>1, JobState
    <2>9. Groups'
      BY <2>1, <2>4, <2>8, JobState DEF Groups
    <2>10. i' \in Nat /\ Counts(label, i') /\ label \notin {"none", "ended"}
      BY <1>0, <2>1, <2>2, <2>3 DEF Counts, Worker
    <2> QED
      BY <2>1, <2>2, <2>6, <2>7, <2>9, <2>10, Waits
  <1>7. CASE ForkNewcomer
    <2>1. /\ Fork(newcomer, "setsid", "wait newcomer") /\ program = "jobctl" /\ life[main] = "alive"
          /\ pc[main] = "fork newcomer"
      BY <1>7 DEF ForkNewcomer, AtJob, At
    <2>2. /\ pc'[main] = "wait newcomer" /\ program' = program
          /\ \A c \in Proc \ {newcomer} : group'[c] = group[c]
      BY <1>0, <2>1 DEF FamilyInv, Types, Fork
    <2>3. \A q \in Proc \ {main} : /\ Forked(q)' <=> Forked(q) \/ q = newcomer
                                   /\ Waited(q)' <=> Waited(q)
      BY <1>0, <2>1, <2>2 DEF Forked, Waited
    <2>4. ASSUME NEW c \in Proc, Grouped(c)' PROVE group'[c] = leader
      <3>1. Grouped(c) /\ c \in Worker
        BY <2>1, <2>4 DEF Grouped
      <3> QED
        BY <1>0, <2>1, <2>2, <3>1, JobState
    <2>5. Groups'
      BY <1>0, <2>1, <2>2, <2>4, JobState DEF Groups
    <2>6. ~Waited(newcomer) /\ Counts("wait newcomer", i)
      BY <1>0, <2>1 DEF Waited, Counts
    <2>7. "setsid" \notin {"none", "ended"} /\ "wait newcomer" \notin {"none", "ended"}
      OBVIOUS
    <2> QED
      BY <1>0, <2>1, <2>3, <2>5, <2>6, <2>7, Forks
  <1>8. CASE WaitNewcomer
    <2>1. /\ Wait(newcomer, "return") /\ program = "jobctl" /\ life[main] = "alive"
          /\ pc[main] = "wait newcomer" /\ UNCHANGED <<i, g_group>>
      BY <1>8 DEF WaitNewcomer, AtJob, At, job
    <2>2. pc'[main] = "return" /\ program' = program /\ group' = group
      BY <1>0, <2>1 DEF FamilyInv, Types, Wait, Goto
    <2>3. \A q \in Proc \ {main} : /\ Forked(q)' <=> Forked(q)
                                   /\ Waited(q)' <=> Waited(q) \/ q = newcomer
      BY <1>0, <2>1, <2>2 DEF Forked, Waited
    <2>4. ASSUME NEW c \in Proc, Grouped(c)' PROVE group'[c] = leader
      <3>1. Grouped(c)
        BY <2>1, <2>4 DEF Grouped
      <3> QED
        BY <2>1, <2>2, <3>1, JobState
    <2>5. Groups'
      BY <2>1, <2>2, <2>4, JobState DEF Groups
    <2>6. i' \in Nat /\ Counts("return", i') /\ g_group' = g_group
      BY <2>1, JobState DEF Counts
    <2>7. "return" \notin {"none", "ended"}
      OBVIOUS
    <2> QED
      BY <1>0, <2>1, <2>3, <2>5, <2>6, <2>7, Waits
  <1>9. CASE SetSid
    <2>1. /\ program = "jobctl" /\ life[newcomer] = "alive" /\ pc[newcomer] = "setsid"
          /\ pc' = [pc EXCEPT ![newcomer] = "exit"]
          /\ group' = [group EXCEPT ![newcomer] = newcomer]
          /\ UNCHANGED <<program, life, reaped, g_group, i>>
      BY <1>9 DEF SetSid, AtJob, At, Goto, job
    <2>2. /\ DOMAIN pc' = Proc /\ pc'[main] = pc[main]
          /\ \A q \in Proc : pc'[q] # pc[q]
                             => pc[q] \notin {"none", "ended"} /\ pc'[q] \notin {"none", "ended"}
      BY <1>0, <2>1 DEF FamilyInv, Types
    <2>3. /\ group' \in [Proc -> Proc]
          /\ \A q \in Proc : group'[q] # group[q] => q = newcomer /\ program = "jobctl"
      BY <1>0, <2>1 DEF FamilyInv, Types
    <2> QED
      BY <2>1, <2>2, <2>3, Moves
  <1>10. CASE NewcomerExits
    BY <1>0, <1>10, ExitStep DEF NewcomerExits, AtJob, At
  <1>11. ASSUME p \in Worker, DefaultAction(p) \/ JoinGroup(p) PROVE FamilyInv'
    <2> DEFINE label == IF pc[p] = "default" THEN "setpgid" ELSE "loop"
    <2>1. /\ life[p] = "alive" /\ pc[p] \in {"default", "setpgid"}
          /\ pc' = [pc EXCEPT ![p] = label]
          /\ UNCHANGED <<program, life, reaped, g_group, i>>
          /\ group' = group \/ SetPgid(p, leader)
      BY <1>11 DEF DefaultAction, JoinGroup, AtJob, At, Goto, process, job
    <2>2. label \notin {"none", "ended"} /\ pc[p] \notin {"none", "ended"} /\ p \in Proc \ {main}
      BY <1>0, <1>11, <2>1
    <2> HIDE DEF label
    <2> QED
      BY <2>1, <2>2, ChildGoes
  <1>12. ASSUME Leave(p) PROVE FamilyInv'
    BY <1>12, ExitStep DEF Leave, AtJob, At
  <1> QED
    BY <1>1, <1>2, <1>3, <1>4, <1>5, <1>6, <1>7, <1>8, <1>9, <1>10, <1>11, <1>12
       DEF JobControlStep

LEMMA JobFaultKeeps == ASSUME FamilyInv, JobControlFault PROVE FamilyInv'
  <1>1. main \in Proc
    BY Names
  <1>2. CASE ForkWorkerFails
    BY <1>1, <1>2, Ends DEF ForkWorkerFails, AtJob, At, Exits, Goto, job
  <1>3. CASE ForkNewcomerFails
    BY <1>1, <1>3, Ends DEF ForkNewcomerFails, AtJob, At, Exits, Goto, job
  <1> QED
    BY <1>2, <1>3 DEF JobControlFault
----------------------------------------------------------------------------
(* The family is kept, and what follows.                                   *)

LEMMA FamilyKept == FamilyInv /\ [Next]_vars => FamilyInv'
  <1> SUFFICES ASSUME FamilyInv, [Next]_vars PROVE FamilyInv'
    OBVIOUS
  <1>1. ASSUME NEW p \in Proc, Step(p) PROVE FamilyInv'
    <2>1. CASE PipelineStep(p)
      BY <2>1, PipelineKeeps
    <2>2. CASE FifoStep(p)
      BY <2>2, FifoKeeps
    <2>3. CASE JobControlStep(p)
      BY <2>3, JobKeeps
    <2>4. CASE Return
      BY <2>4, ExitStep, Names DEF Return, At
    <2>5. ASSUME NEW s \in Signals, Deliver(p, s) PROVE FamilyInv'
      <3>1. /\ life[p] = "alive" /\ life' = Lives(p) /\ pc' = [pc EXCEPT ![p] = "ended"]
            /\ UNCHANGED <<program, group, reaped, g_group, i>>
        BY <2>5 DEF Deliver, Exits, Goto, job
      <3> QED
        BY <3>1, Ends
    <2> QED
      BY <1>1, <2>1, <2>2, <2>3, <2>4, <2>5 DEF Step, Signals
  <1>2. CASE Fault
    <2>1. ASSUME NEW p \in Proc, Interrupt(p) PROVE FamilyInv'
      BY <2>1, Unchanged DEF Interrupt, state, process, job
    <2> QED
      BY <1>2, <2>1, PipelineFaultKeeps, FifoFaultKeeps, JobFaultKeeps DEF Fault
  <1>3. CASE Rest \/ UNCHANGED vars
    BY <1>3, Unchanged DEF Rest, vars, state, process, job
  <1> QED
    BY <1>1, <1>2, <1>3 DEF Next

LEMMA FamilyAlways == Spec => []FamilyInv
  <1>1. Init => FamilyInv
    BY Initial
  <1>2. FamilyInv /\ [Next]_vars => FamilyInv'
    BY FamilyKept
  <1> QED
    BY <1>1, <1>2, PTL DEF Spec

(* "Done, every child reaped": a demonstration that returns 0 has waited   *)
(* for each child it forked, whatever failed and whoever was interrupted.  *)
THEOREM AllAreReaped == Spec => []AllReaped
  <1>1. FamilyInv => AllReaped
    <2> SUFFICES ASSUME FamilyInv, pc[main] = "return", NEW c \in Proc, Child(c)
                 PROVE  life[c] \in {"none", "gone"} /\ (pc[c] # "none" => c \in reaped)
      BY DEF AllReaped
    <2>1. life[main] = "alive" /\ program # "fifo apart" /\ c \in Proc \ {main}
      BY Names DEF FamilyInv, Lives0, Child
    <2>2. /\ life[c] = "none" <=> ~Forked(c)
          /\ life[c] = "gone" <=> Waited(c)
          /\ Waited(c) => c \in reaped
      BY <2>1 DEF FamilyInv, Family
    <2>3. Forked(c) => Waited(c)
      BY <2>1 DEF Forked, Waited
    <2>4. life[c] = "none" <=> pc[c] = "none"
      BY DEF FamilyInv, Lives0
    <2> QED
      BY <2>2, <2>3, <2>4
  <1> QED
    BY <1>1, FamilyAlways, PTL

(* At every kill() of jobctl all the workers that are in its group are     *)
(* reached, and the program itself is not; both stages of a pipeline are   *)
(* in one group, whoever of parent and child called setpgid() first.       *)
THEOREM GroupsHold == Spec => []GroupHoldsAll
  <1>1. FamilyInv => GroupHoldsAll
    <2> SUFFICES ASSUME FamilyInv PROVE GroupHoldsAll
      OBVIOUS
    <2>1. pc[main] # "ended" /\ pc[main] # "none" => life[main] = "alive"
      BY Names DEF FamilyInv, Lives0
    <2>2. program = "pipeline" /\ pc[main] \in {"close", "wait first", "wait second"} =>
            group[first] = first /\ group[second] = first
      BY <2>1 DEF FamilyInv, Groups
    <2>3. ASSUME program = "jobctl", life[main] = "alive", g_group[main] # 0
          PROVE  group[main] # g_group[main] /\ g_group[main] = leader
      BY <2>3, JobState, Names DEF main
    <2>4. ASSUME program = "jobctl", life[main] = "alive", g_group[main] # 0, NEW w \in Worker,
                 pc[main] \notin {"fork", "group", "note"} \/ w < i
          PROVE  group[w] = g_group[main]
      <3>1. w \in Proc /\ w \in Int /\ i \in Int
        BY <2>4, Names, JobState
      <3>2. Grouped(w)
        BY <2>4, <3>1 DEF Grouped
      <3> QED
        BY <2>3, <2>4, <3>1, <3>2, JobState
    <2> QED
      BY <2>2, <2>3, <2>4 DEF GroupHoldsAll
  <1> QED
    BY <1>1, FamilyAlways, PTL
----------------------------------------------------------------------------
(* What is in the pipes.                                                   *)

Message  == Proc \X Nat
Writing  == {"left", "write", "ended"}
Writes(f) == End(f, "write")
Reads(f)  == End(f, "read")

StreamTypes ==
    /\ sent \in [Proc -> Nat] /\ got \in Seq(Message) /\ pipe \in [Pipe -> Seq(Message)]
    /\ DOMAIN fds = Proc /\ DOMAIN pending = Proc
    /\ interrupts \in Int /\ interrupts <= MaxInterrupts

\* What has been read and what is in the pipes is all that was written.
Ordered == InOrder(got) /\ \A f \in Pipe : InOrder(pipe[f])
Sound ==
    \A p \in Proc : \E n \in 0 .. sent[p] :
        /\ Numbers(got, p) = 1 .. n
        /\ UNION {Numbers(pipe[f], p) : f \in Pipe} = n + 1 .. sent[p]

\* A writer writes to one pipe all its life.
Unsent == \A p \in Proc : pc[p] \notin Writing => sent[p] = 0
OneEnd == \A p \in Proc, f, g \in Pipe : Holds(p, f, "write") /\ Holds(p, g, "write") => f = g
Lane ==
    \A p \in Proc, f, g \in Pipe :
        Numbers(pipe[f], p) # {} /\ (Holds(p, g, "write") \/ Numbers(pipe[g], p) # {}) => f = g

Flow == StreamTypes /\ Ordered /\ Sound /\ Unsent /\ OneEnd /\ Lane

\* The programs with one pipe.
OnePipe ==
    program \in {"pipeline", "fifo"} =>
        /\ \A p \in Proc : life[p] # "stopped" /\ fds[p] \subseteq {Reads(1), Writes(1)}
        /\ pipe[2] = <<>>

\* The left command has the pipe open for writing as long as it runs.
LeftInv ==
    program = "pipeline" =>
        /\ life[main] = "alive" /\ pc[main] = "fork first" => Writes(1) \in fds[main]
        /\ life[first] = "alive" => Writes(1) \in fds[first]
        /\ life[second] # "none" => life[first] # "none"
        /\ eof => /\ life[first] \in {"zombie", "gone"} /\ pc[second] = "ended"
                  /\ Numbers(got, first) = 1 .. sent[first]

\* Where the reader and the writer of the FIFO are, if nobody interrupts; a
\* writer whose open() has failed never holds an end.
Meeting ==
    /\ pc[main] \in {"mkfifo", "stat", "fork writer"} => fds[main] = {} /\ fds[1] = {}
    /\ pc[main] \in {"stat", "fork writer", "open", "opening"} => file = 1
    /\ pc[main] = "open" =>
          /\ fds[main] = {}
          /\ \/ pc[1] = "open" /\ fds[1] = {}
             \/ pc[1] = "opening" /\ fds[1] = {Writes(1)}
             \/ pc[1] \in {"exit", "ended"} /\ fds[1] = {}
    /\ pc[main] = "opening" =>
          fds[main] = {Reads(1)} /\ pc[1] \in {"open", "exit", "ended"} /\ fds[1] = {}
    /\ pc[main] = "read" =>
          /\ fds[main] = {Reads(1)}
          /\ \/ pc[1] = "write" /\ fds[1] = {Writes(1)}
             \/ pc[1] = "ended" /\ sent[1] = Messages

FifoInv ==
    program = "fifo" =>
        /\ \A p \in Proc \ {main, 1} : pc[p] = "none" /\ fds[p] = {}
        /\ pc[1] \in {"none", "open", "opening", "write", "exit", "ended"}
        /\ file \in {0, 1} /\ (pc[main] = "mkfifo" => file = 0 /\ made = 0)
        /\ interrupts = MaxInterrupts =>
              /\ \A p \in Proc : pending[p] = {}
              /\ life[main] = "alive" => Meeting
              /\ eof => /\ Numbers(got, 1) = 1 .. Messages
                        /\ pc[main] \in {"close", "wait", "unlink", "return", "ended"}

\* In several terminals nobody forks.
Apart == program = "fifo apart" => pc[main] # "fork writer"

StreamInv == Flow /\ OnePipe /\ LeftInv /\ FifoInv /\ Apart

----------------------------------------------------------------------------
(* The numbers of the messages in a sequence.                              *)

LEMMA NumbersAre ==
    \A s, p, x : x \in Numbers(s, p) <=> \E k \in DOMAIN s : s[k][1] = p /\ s[k][2] = x
  BY DEF Numbers

LEMMA NumbersOfNone == \A p : Numbers(<<>>, p) = {}
  BY DEF Numbers

LEMMA Appended ==
    ASSUME NEW s \in Seq(Message), NEW m \in Message
    PROVE  /\ Append(s, m) \in Seq(Message)
           /\ \A p, x : x \in Numbers(Append(s, m), p)
                          <=> x \in Numbers(s, p) \/ (m[1] = p /\ m[2] = x)
           /\ InOrder(s) /\ (\A x \in Numbers(s, m[1]) : x < m[2]) => InOrder(Append(s, m))
  <1> DEFINE t == Append(s, m)
             n == Len(s)
  <1>1. /\ t \in Seq(Message) /\ n \in Nat /\ DOMAIN s = 1 .. n /\ DOMAIN t = 1 .. n + 1
        /\ t[n + 1] = m /\ \A k \in 1 .. n : t[k] = s[k]
    OBVIOUS
  <1> HIDE DEF t, n
  <1>2. \A k \in 1 .. n + 1 : k \in 1 .. n \/ k = n + 1
    BY <1>1
  <1>3. 1 .. n \subseteq 1 .. n + 1 /\ n + 1 \in 1 .. n + 1
    BY <1>1
  <1>4. ASSUME NEW p, NEW x
        PROVE  x \in Numbers(t, p) <=> x \in Numbers(s, p) \/ (m[1] = p /\ m[2] = x)
    <2>1. ASSUME x \in Numbers(t, p) PROVE x \in Numbers(s, p) \/ (m[1] = p /\ m[2] = x)
      BY <1>1, <1>2, <2>1, NumbersAre
    <2>2. ASSUME x \in Numbers(s, p) PROVE x \in Numbers(t, p)
      BY <1>1, <1>3, <2>2, NumbersAre
    <2>3. ASSUME m[1] = p, m[2] = x PROVE x \in Numbers(t, p)
      BY <1>1, <1>3, <2>3, NumbersAre
    <2> QED
      BY <2>1, <2>2, <2>3
  <1>5. ASSUME InOrder(s), \A x \in Numbers(s, m[1]) : x < m[2] PROVE InOrder(t)
    <2> SUFFICES ASSUME NEW j \in 1 .. n + 1, NEW k \in 1 .. n + 1, j < k, t[j][1] = t[k][1]
                 PROVE  t[j][2] < t[k][2]
      BY <1>1 DEF InOrder
    <2>1. j \in 1 .. n
      BY <1>1
    <2>2. CASE k \in 1 .. n
      BY <1>1, <1>5, <2>1, <2>2 DEF InOrder
    <2>3. CASE k = n + 1
      <3>1. s[j][2] \in Numbers(s, m[1])
        BY <1>1, <2>1, <2>3, NumbersAre
      <3> QED
        BY <1>1, <1>5, <2>1, <2>3, <3>1
    <2> QED
      BY <1>2, <2>2, <2>3
  <1> QED
    BY <1>1, <1>4, <1>5 DEF t

LEMMA Tailed ==
    ASSUME NEW s \in Seq(Message), s # <<>>, InOrder(s)
    PROVE  /\ Tail(s) \in Seq(Message) /\ InOrder(Tail(s)) /\ Head(s) \in Message
           /\ \A p, x : x \in Numbers(Tail(s), p)
                          <=> x \in Numbers(s, p) /\ ~(Head(s)[1] = p /\ Head(s)[2] = x)
           /\ Head(s)[2] \in Numbers(s, Head(s)[1])
           /\ \A x \in Numbers(s, Head(s)[1]) : Head(s)[2] <= x
  <1> DEFINE t == Tail(s)
             n == Len(s)
  <1>1. /\ t \in Seq(Message) /\ n \in Nat /\ n > 0 /\ DOMAIN s = 1 .. n /\ DOMAIN t = 1 .. n - 1
        /\ Head(s) = s[1] /\ \A k \in 1 .. n - 1 : t[k] = s[k + 1]
        /\ \A k \in 1 .. n : s[k] \in Message
    OBVIOUS
  <1> HIDE DEF t, n
  <1>2. /\ \A k \in 1 .. n : k = 1 \/ (k - 1 \in 1 .. n - 1 /\ (k - 1) + 1 = k /\ 1 < k)
        /\ \A k \in 1 .. n - 1 : k + 1 \in 1 .. n /\ 1 < k + 1
        /\ 1 \in 1 .. n
    BY <1>1
  <1>3. \A k \in 1 .. n : s[k][2] \in Nat
    BY <1>1 DEF Message
  <1>4. InOrder(t)
    <2> SUFFICES ASSUME NEW j \in 1 .. n - 1, NEW k \in 1 .. n - 1, j < k, t[j][1] = t[k][1]
                 PROVE  t[j][2] < t[k][2]
      BY <1>1 DEF InOrder
    <2>1. j + 1 \in 1 .. n /\ k + 1 \in 1 .. n /\ j + 1 < k + 1
      BY <1>1
    <2>2. t[j] = s[j + 1] /\ t[k] = s[k + 1]
      BY <1>1
    <2>3. s[j + 1][1] = s[k + 1][1]
      BY <2>2
    <2> HIDE DEF t
    <2>4. s[j + 1][2] < s[k + 1][2]
      BY <1>1, <2>1, <2>3 DEF InOrder
    <2> QED
      BY <2>2, <2>4
  <1>5. ASSUME NEW x \in Numbers(s, s[1][1]) PROVE s[1][2] <= x
    <2>1. PICK k \in 1 .. n : s[k][1] = s[1][1] /\ s[k][2] = x
      BY <1>1, NumbersAre
    <2>2. CASE k = 1
      BY <1>2, <1>3, <2>1, <2>2
    <2>3. CASE 1 < k
      <3>1. s[1][2] < s[k][2]
        BY <1>1, <1>2, <2>1, <2>3 DEF InOrder
      <3> QED
        BY <1>2, <1>3, <2>1, <3>1
    <2> QED
      BY <1>2, <2>2, <2>3
  <1>6. s[1][2] \in Numbers(s, s[1][1])
    BY <1>1, <1>2, NumbersAre
  <1>7. ASSUME NEW p, NEW x
        PROVE  x \in Numbers(t, p) <=> x \in Numbers(s, p) /\ ~(s[1][1] = p /\ s[1][2] = x)
    <2>1. ASSUME x \in Numbers(t, p) PROVE x \in Numbers(s, p) /\ ~(s[1][1] = p /\ s[1][2] = x)
      <3>1. PICK k \in 1 .. n - 1 : s[k + 1][1] = p /\ s[k + 1][2] = x
        BY <1>1, <2>1, NumbersAre
      <3>2. k + 1 \in 1 .. n /\ 1 < k + 1
        BY <1>2
      <3>3. s[1][1] = p => s[1][2] < x
        BY <1>1, <1>2, <3>1, <3>2 DEF InOrder
      <3>4. x \in Numbers(s, p)
        BY <1>1, <3>1, <3>2, NumbersAre
      <3>5. s[1][2] \in Nat /\ x \in Nat
        BY <1>2, <1>3, <3>1, <3>2
      <3> QED
        BY <3>3, <3>4, <3>5
    <2>2. ASSUME x \in Numbers(s, p), ~(s[1][1] = p /\ s[1][2] = x) PROVE x \in Numbers(t, p)
      <3>1. PICK k \in 1 .. n : s[k][1] = p /\ s[k][2] = x
        BY <1>1, <2>2, NumbersAre
      <3>2. k - 1 \in 1 .. n - 1 /\ (k - 1) + 1 = k
        BY <1>2, <2>2, <3>1
      <3>3. t[k - 1] = s[k]
        BY <1>1, <3>2
      <3> QED
        BY <1>1, <3>1, <3>2, <3>3, NumbersAre
    <2> QED
      BY <2>1, <2>2
  <1> QED
    BY <1>1, <1>2, <1>4, <1>5, <1>6, <1>7 DEF t

----------------------------------------------------------------------------
(* The flow of the messages.                                               *)

LEMMA NoneSent ==
    ASSUME Flow, NEW p \in Proc, sent[p] = 0
    PROVE  \A f \in Pipe : Numbers(pipe[f], p) = {}
  <1>1. PICK n \in 0 .. sent[p] : UNION {Numbers(pipe[f], p) : f \in Pipe} = n + 1 .. sent[p]
    BY DEF Flow, Sound
  <1>2. n + 1 .. sent[p] = {}
    BY <1>1
  <1> QED
    BY <1>1, <1>2

\* Nobody writes or reads.
LEMMA FlowRests ==
    ASSUME Flow, UNCHANGED <<sent, pipe, got>>, DOMAIN fds' = Proc, DOMAIN pending' = Proc,
           interrupts' \in Int, interrupts' <= MaxInterrupts,
           \A p \in Proc : pc[p] \in Writing => pc'[p] \in Writing,
           \A p \in Proc :
              \/ fds'[p] \subseteq fds[p]
              \/ /\ pc[p] \notin Writing
                 /\ \A f, g \in Pipe : Writes(f) \in fds'[p] /\ Writes(g) \in fds'[p] => f = g
    PROVE  Flow'
  <1>0. StreamTypes'
    BY DEF Flow, StreamTypes
  <1>1. Ordered' /\ Sound'
    BY SMTT(30) DEF Flow, Ordered, Sound
  <1>2. Unsent'
    BY DEF Flow, Unsent
  <1>3. ASSUME NEW p \in Proc, NEW f \in Pipe, NEW g \in Pipe,
               Writes(f) \in fds'[p], Writes(g) \in fds'[p]
        PROVE  f = g
    <2>1. CASE fds'[p] \subseteq fds[p]
      BY <1>3, <2>1 DEF Flow, OneEnd, Holds, Writes
    <2>2. CASE \A a, b \in Pipe : Writes(a) \in fds'[p] /\ Writes(b) \in fds'[p] => a = b
      BY <1>3, <2>2
    <2> QED
      BY <2>1, <2>2
  <1>4. OneEnd'
    BY <1>3 DEF OneEnd, Holds, Writes
  <1>5. ASSUME NEW p \in Proc, NEW f \in Pipe, NEW g \in Pipe, Numbers(pipe[f], p) # {},
               Writes(g) \in fds'[p] \/ Numbers(pipe[g], p) # {}
        PROVE  f = g
    <2>1. pc[p] \in Writing
      BY <1>5, NoneSent DEF Flow, Unsent
    <2>2. Writes(g) \in fds[p] \/ Numbers(pipe[g], p) # {}
      BY <1>5, <2>1
    <2> QED
      BY <1>5, <2>2 DEF Flow, Lane, Holds, Writes
  <1>6. Lane'
    BY <1>5 DEF Lane, Holds, Writes
  <1> QED
    BY <1>0, <1>1, <1>2, <1>4, <1>6 DEF Flow

\* A writer writes a message.
LEMMA FlowWrites ==
    ASSUME Flow, NEW p \in Proc, NEW f \in Pipe, Write(p, f), pc[p] \in Writing,
           \A g \in Pipe : Holds(p, g, "write") \/ Numbers(pipe[g], p) # {} => g = f
    PROVE  Flow'
  <1> DEFINE m == <<p, sent[p] + 1>>
  <1>1. /\ sent \in [Proc -> Nat] /\ pipe \in [Pipe -> Seq(Message)] /\ m \in Message
        /\ m[1] = p /\ m[2] = sent[p] + 1
    BY DEF Flow, StreamTypes, Message
  <1> HIDE DEF m
  <1>2. /\ pipe' = [pipe EXCEPT ![f] = Append(pipe[f], m)]
        /\ sent' = [sent EXCEPT ![p] = sent[p] + 1]
        /\ UNCHANGED <<pc, fds, got, pending, interrupts>>
    BY DEF Write, m, bounds
  <1>3. /\ pipe'[f] = Append(pipe[f], m) /\ \A g \in Pipe \ {f} : pipe'[g] = pipe[g]
        /\ sent'[p] = sent[p] + 1 /\ \A q \in Proc \ {p} : sent'[q] = sent[q]
    BY <1>1, <1>2
  <1>4. /\ pipe'[f] \in Seq(Message)
        /\ \A q, x : x \in Numbers(pipe'[f], q)
                       <=> x \in Numbers(pipe[f], q) \/ (q = p /\ x = sent[p] + 1)
        /\ InOrder(pipe[f]) /\ (\A x \in Numbers(pipe[f], p) : x < sent[p] + 1) => InOrder(pipe'[f])
    BY <1>1, <1>3, Appended
  <1>5. StreamTypes'
    <2>1. sent' \in [Proc -> Nat]
      BY <1>1, <1>2
    <2>2. pipe' \in [Pipe -> Seq(Message)]
      BY <1>1, <1>2, <1>3, <1>4
    <2> QED
      BY <1>2, <2>1, <2>2 DEF Flow, StreamTypes
  <1>6. PICK n \in 0 .. sent[p] : /\ Numbers(got, p) = 1 .. n
                                  /\ UNION {Numbers(pipe[g], p) : g \in Pipe} = n + 1 .. sent[p]
    BY DEF Flow, Sound
  <1>7. Ordered'
    <2>1. \A x \in Numbers(pipe[f], p) : x \in n + 1 .. sent[p]
      BY <1>6
    <2>2. \A x \in Numbers(pipe[f], p) : x < sent[p] + 1
      BY <1>1, <2>1
    <2>3. InOrder(pipe'[f])
      BY <1>4, <2>2 DEF Flow, Ordered
    <2> QED
      BY <1>2, <1>3, <2>3 DEF Flow, Ordered
  <1>8. Sound'
    <2>1. ASSUME NEW q \in Proc, q # p
          PROVE  \E k \in 0 .. sent'[q] : /\ Numbers(got', q) = 1 .. k
                                          /\ UNION {Numbers(pipe'[g], q) : g \in Pipe} = k + 1 .. sent'[q]
      <3>1. \A g \in Pipe : \A x : x \in Numbers(pipe'[g], q) <=> x \in Numbers(pipe[g], q)
        BY <1>3, <1>4, <2>1
      <3>2. \A g \in Pipe : Numbers(pipe'[g], q) = Numbers(pipe[g], q)
        BY <3>1
      <3>3. PICK k \in 0 .. sent[q] : /\ Numbers(got, q) = 1 .. k
                                      /\ UNION {Numbers(pipe[g], q) : g \in Pipe} = k + 1 .. sent[q]
        BY DEF Flow, Sound
      <3>4. {Numbers(pipe'[g], q) : g \in Pipe} = {Numbers(pipe[g], q) : g \in Pipe}
        BY <3>2
      <3> QED
        BY <1>2, <1>3, <2>1, <3>3, <3>4
    <2>2. UNION {Numbers(pipe'[g], p) : g \in Pipe} = n + 1 .. sent'[p]
      <3>1. ASSUME NEW x
            PROVE  x \in UNION {Numbers(pipe'[g], p) : g \in Pipe}
                     <=> x \in UNION {Numbers(pipe[g], p) : g \in Pipe} \/ x = sent[p] + 1
        <4>1. x \in UNION {Numbers(pipe'[g], p) : g \in Pipe} <=> \E g \in Pipe : x \in Numbers(pipe'[g], p)
          OBVIOUS
        <4>2. x \in UNION {Numbers(pipe[g], p) : g \in Pipe} <=> \E g \in Pipe : x \in Numbers(pipe[g], p)
          OBVIOUS
        <4>3. \A g \in Pipe : x \in Numbers(pipe'[g], p)
                                <=> x \in Numbers(pipe[g], p) \/ (g = f /\ x = sent[p] + 1)
          <5>1. x \in Numbers(pipe'[f], p) <=> x \in Numbers(pipe[f], p) \/ x = sent[p] + 1
            BY <1>4
          <5>2. \A g \in Pipe \ {f} : x \in Numbers(pipe'[g], p) <=> x \in Numbers(pipe[g], p)
            BY <1>3
          <5> QED
            BY <5>1, <5>2
        <4> QED
          BY <4>1, <4>2, <4>3
      <3>2. \A x : x \in n + 1 .. sent[p] + 1 <=> x \in n + 1 .. sent[p] \/ x = sent[p] + 1
        <4>1. \A k \in Nat : \A j \in 0 .. k : \A x :
                x \in j + 1 .. k + 1 <=> x \in j + 1 .. k \/ x = k + 1
          OBVIOUS
        <4>2. sent[p] \in Nat /\ n \in 0 .. sent[p]
          BY <1>1, <1>6
        <4> QED
          BY <4>1, <4>2
      <3> QED
        BY <1>3, <1>6, <3>1, <3>2
    <2>3. n \in 0 .. sent'[p]
      BY <1>1, <1>3, <1>6
    <2> QED
      BY <1>2, <1>6, <2>1, <2>2, <2>3 DEF Sound
  <1>9. Unsent' /\ OneEnd'
    BY <1>2, <1>3 DEF Flow, Unsent, OneEnd, Holds
  <1>10. Lane'
    <2> SUFFICES ASSUME NEW q \in Proc, NEW a \in Pipe, NEW b \in Pipe, Numbers(pipe'[a], q) # {},
                        Holds(q, b, "write") \/ Numbers(pipe'[b], q) # {}
                 PROVE  a = b
      BY <1>2 DEF Lane, Holds
    <2>1. CASE q # p
      <3>1. \A g \in Pipe : Numbers(pipe'[g], q) # {} => Numbers(pipe[g], q) # {}
        BY <1>3, <1>4, <2>1
      <3> QED
        BY <3>1 DEF Flow, Lane
    <2>2. CASE q = p
      <3>1. \A g \in Pipe : Numbers(pipe'[g], p) # {} => g = f
        BY <1>3
      <3> QED
        BY <2>2, <3>1
    <2> QED
      BY <2>1, <2>2
  <1> QED
    BY <1>5, <1>7, <1>8, <1>9, <1>10 DEF Flow

\* A reader reads a message: the least number of its writer that is left.
LEMMA FlowReads ==
    ASSUME Flow, NEW f \in Pipe, Read(f)
    PROVE  Flow'
  <1> DEFINE h == Head(pipe[f])
             w == h[1]
  <1>1. /\ sent \in [Proc -> Nat] /\ pipe \in [Pipe -> Seq(Message)] /\ got \in Seq(Message)
        /\ pipe[f] # <<>> /\ InOrder(pipe[f]) /\ InOrder(got) /\ pipe[f] \in Seq(Message)
    BY DEF Flow, StreamTypes, Ordered, Read
  <1>2. /\ Tail(pipe[f]) \in Seq(Message) /\ InOrder(Tail(pipe[f])) /\ h \in Message
        /\ \A p, x : x \in Numbers(Tail(pipe[f]), p)
                       <=> x \in Numbers(pipe[f], p) /\ ~(w = p /\ h[2] = x)
        /\ h[2] \in Numbers(pipe[f], w)
        /\ \A x \in Numbers(pipe[f], w) : h[2] <= x
    BY <1>1, Tailed
  <1>3. /\ Append(got, h) \in Seq(Message)
        /\ \A p, x : x \in Numbers(Append(got, h), p)
                       <=> x \in Numbers(got, p) \/ (w = p /\ h[2] = x)
        /\ (\A x \in Numbers(got, w) : x < h[2]) => InOrder(Append(got, h))
    BY <1>1, <1>2, Appended
  <1>4. w \in Proc /\ h[2] \in Nat
    BY <1>2 DEF Message
  <1>5. /\ got' = Append(got, h) /\ pipe' = [pipe EXCEPT ![f] = Tail(pipe[f])]
        /\ UNCHANGED <<pc, fds, sent, pending, interrupts>>
    BY DEF Read, bounds
  <1> HIDE DEF h, w
  <1>6. pipe'[f] = Tail(pipe[f]) /\ \A g \in Pipe \ {f} : pipe'[g] = pipe[g]
    BY <1>1, <1>5
  <1>7. PICK n \in 0 .. sent[w] : /\ Numbers(got, w) = 1 .. n
                                  /\ UNION {Numbers(pipe[g], w) : g \in Pipe} = n + 1 .. sent[w]
    BY <1>4 DEF Flow, Sound
  <1>8. n \in Nat /\ sent[w] \in Nat /\ n <= sent[w]
    BY <1>1, <1>4, <1>7
  <1>9. Numbers(pipe[f], w) = n + 1 .. sent[w] /\ \A g \in Pipe \ {f} : Numbers(pipe[g], w) = {}
    <2>1. \A g \in Pipe \ {f} : Numbers(pipe[g], w) = {}
      BY <1>2, <1>4 DEF Flow, Lane
    <2>2. UNION {Numbers(pipe[g], w) : g \in Pipe} = Numbers(pipe[f], w)
      BY <2>1
    <2> QED
      BY <1>7, <2>1, <2>2
  <1>10. h[2] = n + 1 /\ n + 1 <= sent[w]
    <2>1. h[2] \in n + 1 .. sent[w]
      BY <1>2, <1>9
    <2>2. n + 1 \in n + 1 .. sent[w]
      BY <1>8, <2>1
    <2>3. h[2] <= n + 1
      BY <1>2, <1>9, <2>2
    <2> QED
      BY <1>8, <2>1, <2>3
  <1>11. StreamTypes'
    <2>1. pipe' \in [Pipe -> Seq(Message)]
      BY <1>1, <1>2, <1>5, <1>6
    <2> QED
      BY <1>3, <1>5, <2>1 DEF Flow, StreamTypes
  <1>12. Ordered'
    <2>1. \A x \in Numbers(got, w) : x < h[2]
      BY <1>7, <1>8, <1>10
    <2>2. InOrder(got')
      BY <1>3, <1>5, <2>1
    <2> QED
      BY <1>2, <1>6, <2>2 DEF Flow, Ordered
  <1>13. Sound'
    <2>1. ASSUME NEW q \in Proc, q # w
          PROVE  \E k \in 0 .. sent'[q] : /\ Numbers(got', q) = 1 .. k
                                          /\ UNION {Numbers(pipe'[g], q) : g \in Pipe} = k + 1 .. sent'[q]
      <3>1. \A g \in Pipe : \A x : x \in Numbers(pipe'[g], q) <=> x \in Numbers(pipe[g], q)
        BY <1>2, <1>6, <2>1
      <3>2. \A x : x \in Numbers(got', q) <=> x \in Numbers(got, q)
        BY <1>3, <1>5, <2>1
      <3>3. Numbers(got', q) = Numbers(got, q) /\ \A g \in Pipe : Numbers(pipe'[g], q) = Numbers(pipe[g], q)
        BY <3>1, <3>2
      <3>4. PICK k \in 0 .. sent[q] : /\ Numbers(got, q) = 1 .. k
                                      /\ UNION {Numbers(pipe[g], q) : g \in Pipe} = k + 1 .. sent[q]
        BY DEF Flow, Sound
      <3>5. {Numbers(pipe'[g], q) : g \in Pipe} = {Numbers(pipe[g], q) : g \in Pipe}
        BY <3>3
      <3> QED
        BY <1>5, <3>3, <3>4, <3>5
    <2>2. Numbers(got', w) = 1 .. n + 1
      <3>1. \A x : x \in Numbers(got', w) <=> x \in 1 .. n \/ x = n + 1
        BY <1>3, <1>5, <1>7, <1>10
      <3>2. \A x : x \in 1 .. n + 1 <=> x \in 1 .. n \/ x = n + 1
        BY <1>8
      <3> QED
        BY <3>1, <3>2
    <2>3. UNION {Numbers(pipe'[g], w) : g \in Pipe} = (n + 1) + 1 .. sent[w]
      <3>1. \A x : x \in Numbers(pipe'[f], w) <=> x \in n + 1 .. sent[w] /\ x # n + 1
        BY <1>2, <1>6, <1>9, <1>10
      <3>2. \A x : x \in n + 1 .. sent[w] /\ x # n + 1 <=> x \in (n + 1) + 1 .. sent[w]
        BY <1>8
      <3>3. Numbers(pipe'[f], w) = (n + 1) + 1 .. sent[w]
        BY <3>1, <3>2
      <3>4. \A g \in Pipe \ {f} : Numbers(pipe'[g], w) = {}
        BY <1>6, <1>9
      <3>5. UNION {Numbers(pipe'[g], w) : g \in Pipe} = Numbers(pipe'[f], w)
        BY <3>4
      <3> QED
        BY <3>3, <3>5
    <2>4. n + 1 \in 0 .. sent[w]
      BY <1>8, <1>10
    <2> QED
      BY <1>5, <2>1, <2>2, <2>3, <2>4 DEF Sound
  <1>14. Unsent' /\ OneEnd'
    BY <1>5 DEF Flow, Unsent, OneEnd, Holds
  <1>15. Lane'
    <2>1. \A p \in Proc : \A g \in Pipe : Numbers(pipe'[g], p) # {} => Numbers(pipe[g], p) # {}
      BY <1>2, <1>6
    <2> QED
      BY <1>5, <2>1 DEF Flow, Lane, Holds
  <1> QED
    BY <1>11, <1>12, <1>13, <1>14, <1>15 DEF Flow

----------------------------------------------------------------------------
(* The streams of the pipeline.                                            *)

LEMMA PipelineRests ==
    ASSUME StreamInv, program = "pipeline", UNCHANGED <<program, pipe, sent, got, eof, interrupts>>,
           DOMAIN fds' = Proc, DOMAIN pending' = Proc,
           \A q \in Proc : pc[q] \in Writing => pc'[q] \in Writing,
           pc[second] = "ended" => pc'[second] = "ended",
           \A q \in Proc : \/ fds'[q] \subseteq fds[q]
                           \/ pc[q] \notin Writing /\ fds'[q] \subseteq {Reads(1), Writes(1)},
           \A q \in Proc : life'[q] # "stopped",
           life[first] \in {"zombie", "gone"} => life'[first] \in {"zombie", "gone"},
           life'[main] = "alive" /\ pc'[main] = "fork first" => Writes(1) \in fds'[main],
           life'[first] = "alive" => Writes(1) \in fds'[first],
           life'[second] # "none" => life'[first] # "none"
    PROVE  StreamInv'
  <1>1. \A q \in Proc : fds'[q] \subseteq {Reads(1), Writes(1)}
    BY DEF StreamInv, OnePipe
  <1>2. \A q \in Proc : \A f, g \in Pipe : Writes(f) \in fds'[q] /\ Writes(g) \in fds'[q] => f = g
    <2>1. \A f : Writes(f) # Reads(1) /\ (Writes(f) = Writes(1) => f = 1)
      BY DEF Writes, Reads, End
    <2> QED
      BY <1>1, <2>1
  <1>3. Flow'
    <2>1. Flow /\ interrupts' \in Int /\ interrupts' <= MaxInterrupts
      BY DEF StreamInv, Flow, StreamTypes
    <2> QED
      BY <1>2, <2>1, FlowRests
  <1>4. OnePipe'
    BY <1>1 DEF StreamInv, OnePipe
  <1>5. LeftInv'
    BY DEF StreamInv, LeftInv
  <1>6. FifoInv' /\ Apart'
    BY DEF FifoInv, Apart
  <1> QED
    BY <1>3, <1>4, <1>5, <1>6 DEF StreamInv

\* One process ends.
LEMMA EndOfOne ==
    ASSUME FamilyInv, StreamTypes, NEW p \in Proc, life[p] = "alive", NEW signals, Exits(p, signals)
    PROVE  /\ life'[p] \in {"zombie", "gone"} /\ (p = main => life'[main] = "gone")
           /\ \A q \in Proc \ {p} :
                 life[q] # "stopped"
                 => \/ life'[q] = life[q]
                    \/ life[q] = "zombie" /\ life'[q] = "gone" /\ p = main
           /\ pc'[p] = "ended" /\ \A q \in Proc \ {p} : pc'[q] = pc[q]
           /\ fds'[p] = {} /\ \A q \in Proc \ {p} : fds'[q] = fds[q]
           /\ DOMAIN pending' = Proc /\ DOMAIN fds' = Proc
           /\ \A q \in Proc : life[q] # "stopped" => pending'[q] = signals[q]
           /\ UNCHANGED <<program, pipe, sent, got, eof, file, made>>
  <1>1. /\ life' = Lives(p) /\ pending' = HungUp(p, signals) /\ pc' = [pc EXCEPT ![p] = "ended"]
        /\ fds' = [fds EXCEPT ![p] = {}]
        /\ UNCHANGED <<program, pipe, sent, got, eof, file, made>>
    BY DEF Exits, Goto, name
  <1>2. DOMAIN pc = Proc /\ DOMAIN fds = Proc
    BY DEF FamilyInv, Types, StreamTypes
  <1>3. ASSUME NEW q \in Proc
        PROVE  life'[q] = IF q = p THEN IF Child(p) /\ life[main] # "gone" THEN "zombie" ELSE "gone"
                          ELSE IF p = main /\ Child(q) THEN Orphan(q) ELSE life[q]
    BY <1>1, Zenon DEF Lives
  <1>4. life'[p] \in {"zombie", "gone"} /\ (p = main => life'[main] = "gone")
    BY <1>3 DEF Child
  <1>5. ASSUME NEW q \in Proc \ {p}, life[q] # "stopped"
        PROVE  \/ life'[q] = life[q]
               \/ life[q] = "zombie" /\ life'[q] = "gone" /\ p = main
    BY <1>3, <1>5 DEF Orphan
  <1>6. DOMAIN pending' = Proc /\ \A q \in Proc : life[q] # "stopped" => pending'[q] = signals[q]
    BY <1>1 DEF HungUp
  <1> QED
    BY <1>1, <1>2, <1>4, <1>5, <1>6

LEMMA EndFlows ==
    ASSUME FamilyInv, StreamInv, NEW p \in Proc, life[p] = "alive", NEW signals, Exits(p, signals),
           interrupts' = interrupts, program = "fifo" => signals = pending,
           program = "fifo" /\ interrupts = MaxInterrupts /\ p = 1 /\ life[main] = "alive"
             => /\ pc[main] \in {"open", "opening"} => pc[1] = "exit"
                /\ pc[main] = "read" => sent[1] = Messages
    PROVE  StreamInv'
  <1>1. /\ life'[p] \in {"zombie", "gone"} /\ (p = main => life'[main] = "gone")
        /\ \A q \in Proc \ {p} :
              life[q] # "stopped"
              => \/ life'[q] = life[q]
                 \/ life[q] = "zombie" /\ life'[q] = "gone" /\ p = main
        /\ pc'[p] = "ended" /\ \A q \in Proc \ {p} : pc'[q] = pc[q]
        /\ fds'[p] = {} /\ \A q \in Proc \ {p} : fds'[q] = fds[q]
        /\ DOMAIN pending' = Proc /\ DOMAIN fds' = Proc
        /\ \A q \in Proc : life[q] # "stopped" => pending'[q] = signals[q]
        /\ UNCHANGED <<program, pipe, sent, got, eof, file, made>>
    BY EndOfOne DEF StreamInv, Flow
  <1>2. main \in Proc /\ first \in Proc /\ second \in Proc /\ 1 \in Proc /\ main # 1 /\ first = 1
    BY Names
  <1>3. /\ \A q \in Proc : pc[q] \in Writing => pc'[q] \in Writing
        /\ \A q \in Proc : fds'[q] \subseteq fds[q]
    BY <1>1 DEF Writing
  <1>4. CASE program = "pipeline"
    <2>1. \A q \in Proc : life[q] # "stopped" /\ life'[q] # "stopped"
      BY <1>1, <1>4 DEF StreamInv, OnePipe
    <2>2. /\ pc[second] = "ended" => pc'[second] = "ended"
          /\ life[first] \in {"zombie", "gone"} => life'[first] \in {"zombie", "gone"}
      BY <1>1, <1>2, <2>1
    <2>3. life'[main] = "alive" /\ pc'[main] = "fork first" => Writes(1) \in fds'[main]
      BY <1>1, <1>2, <1>4, <2>1 DEF StreamInv, LeftInv
    <2>4. life'[first] = "alive" => Writes(1) \in fds'[first]
      BY <1>1, <1>2, <1>4, <2>1 DEF StreamInv, LeftInv
    <2>5. life'[second] # "none" => life'[first] # "none"
      BY <1>1, <1>2, <1>4, <2>1 DEF StreamInv, LeftInv
    <2> QED
      BY <1>1, <1>3, <1>4, <2>1, <2>2, <2>3, <2>4, <2>5, PipelineRests
  <1>5. Flow'
    <2>1. Flow /\ interrupts' \in Int /\ interrupts' <= MaxInterrupts
      BY DEF StreamInv, Flow, StreamTypes
    <2> QED
      BY <1>1, <1>3, <2>1, FlowRests
  <1>6. CASE program = "fifo"
    <2>1. \A q \in Proc : life[q] # "stopped" /\ life'[q] # "stopped"
      BY <1>1, <1>6 DEF StreamInv, OnePipe
    <2>2. OnePipe'
      BY <1>1, <1>3, <1>6, <2>1 DEF StreamInv, OnePipe
    <2>3. p \in {main, 1}
      BY <1>6 DEF StreamInv, FifoInv, FamilyInv, Lives0
    <2>4. \A q \in Proc \ {main, 1} : pc'[q] = "none" /\ fds'[q] = {}
      BY <1>1, <1>6, <2>3 DEF StreamInv, FifoInv
    <2>5. /\ pc'[1] \in {"none", "open", "opening", "write", "exit", "ended"}
          /\ file' \in {0, 1} /\ (pc'[main] = "mkfifo" => file' = 0 /\ made' = 0)
      BY <1>1, <1>2, <1>6, <2>3 DEF StreamInv, FifoInv
    <2>6. ASSUME interrupts = MaxInterrupts, eof
          PROVE  /\ Numbers(got', 1) = 1 .. Messages
                 /\ pc'[main] \in {"close", "wait", "unlink", "return", "ended"}
      BY <1>1, <1>2, <1>6, <2>3, <2>6 DEF StreamInv, FifoInv
    <2>7. ASSUME interrupts = MaxInterrupts PROVE \A q \in Proc : pending'[q] = {}
      BY <1>1, <1>6, <2>1, <2>7 DEF StreamInv, FifoInv
    <2>8. ASSUME interrupts = MaxInterrupts, life'[main] = "alive" PROVE Meeting'
      <3>1. p = 1 /\ life[main] = "alive" /\ pc'[main] = pc[main] /\ fds'[main] = fds[main]
        BY <1>1, <1>2, <2>1, <2>3, <2>8
      <3>2. /\ Meeting
            /\ pc[main] \in {"open", "opening"} => pc[1] = "exit"
            /\ pc[main] = "read" => sent[1] = Messages
        BY <1>6, <2>8, <3>1 DEF StreamInv, FifoInv
      <3> QED
        BY <1>1, <3>1, <3>2 DEF Meeting
    <2>9. FifoInv'
      BY <1>1, <1>6, <2>4, <2>5, <2>6, <2>7, <2>8 DEF FifoInv
    <2>10. LeftInv' /\ Apart'
      BY <1>1, <1>6 DEF LeftInv, Apart
    <2> QED
      BY <1>5, <2>2, <2>9, <2>10 DEF StreamInv
  <1>7. CASE program \notin {"pipeline", "fifo"}
    <2>1. Apart'
      BY <1>1, <1>2 DEF StreamInv, Apart
    <2> QED
      BY <1>1, <1>5, <1>7, <2>1 DEF StreamInv, OnePipe, LeftInv, FifoInv
  <1> QED
    BY <1>4, <1>6, <1>7

\* One process of the pipeline goes on.
LEMMA PipelineMoves ==
    ASSUME FamilyInv, StreamInv, program = "pipeline", NEW p \in Proc, NEW label,
           pc' = [pc EXCEPT ![p] = label], pc[p] # "ended", pc[p] \in Writing => label \in Writing,
           UNCHANGED <<program, pipe, sent, got, eof, pending, interrupts>>,
           DOMAIN fds' = Proc, \A q \in Proc \ {p} : fds'[q] = fds[q],
           \/ fds'[p] = fds[p]
           \/ /\ pc[p] \notin Writing /\ fds'[p] \subseteq {Reads(1), Writes(1)}
              /\ p = first => Writes(1) \in fds'[p],
           p = main /\ label = "fork first" => Writes(1) \in fds'[p],
           \A q \in Proc : life'[q] = life[q] \/ (life[q] = "zombie" /\ life'[q] = "gone")
    PROVE  StreamInv'
  <1>1. main \in Proc /\ first \in Proc /\ second \in Proc
    BY Names
  <1>2. pc'[p] = label /\ \A q \in Proc \ {p} : pc'[q] = pc[q]
    BY DEF FamilyInv, Types
  <1>3. /\ \A q \in Proc : life[q] # "stopped" /\ life'[q] # "stopped"
        /\ DOMAIN pending' = Proc
    BY DEF StreamInv, OnePipe, Flow, StreamTypes
  <1>4. /\ \A q \in Proc : pc[q] \in Writing => pc'[q] \in Writing
        /\ pc[second] = "ended" => pc'[second] = "ended"
    BY <1>1, <1>2
  <1>5. \A q \in Proc : \/ fds'[q] \subseteq fds[q]
                        \/ pc[q] \notin Writing /\ fds'[q] \subseteq {Reads(1), Writes(1)}
    OBVIOUS
  <1>6. life'[main] = "alive" /\ pc'[main] = "fork first" => Writes(1) \in fds'[main]
    BY <1>1, <1>2, <1>3 DEF StreamInv, LeftInv
  <1>7. life'[first] = "alive" => Writes(1) \in fds'[first]
    BY <1>1, <1>2, <1>3 DEF StreamInv, LeftInv
  <1>8. /\ life'[second] # "none" => life'[first] # "none"
        /\ life[first] \in {"zombie", "gone"} => life'[first] \in {"zombie", "gone"}
    BY <1>1, <1>3 DEF StreamInv, LeftInv
  <1> QED
    BY <1>3, <1>4, <1>5, <1>6, <1>7, <1>8, PipelineRests

\* fork() in the pipeline
LEMMA PipelineForks ==
    ASSUME FamilyInv, StreamInv, program = "pipeline", NEW c \in {first, second}, NEW next,
           next \notin {"none", "ended"} \cup Writing, pc[main] \notin Writing, next # "fork first",
           Fork(c, "setpgid", next), life[c] = "none",
           c = first => Writes(1) \in fds[main], c = second => life[first] # "none"
    PROVE  StreamInv'
  <1>1. main \in Proc /\ first \in Proc /\ second \in Proc /\ c \in Proc /\ c # main /\ first # second
    BY Names
  <1>2. /\ pc' = [pc EXCEPT ![main] = next, ![c] = "setpgid"]
        /\ life' = [life EXCEPT ![c] = "alive"] /\ fds' = [fds EXCEPT ![c] = fds[main]]
        /\ UNCHANGED <<program, pipe, sent, got, eof, pending, interrupts>>
    BY DEF Fork, bounds
  <1>3. /\ pc'[main] = next /\ pc'[c] = "setpgid" /\ \A q \in Proc \ {main, c} : pc'[q] = pc[q]
        /\ life'[c] = "alive" /\ \A q \in Proc \ {c} : life'[q] = life[q]
        /\ fds'[c] = fds[main] /\ \A q \in Proc \ {c} : fds'[q] = fds[q]
        /\ DOMAIN fds' = Proc /\ DOMAIN pending' = Proc /\ pc[c] = "none"
    BY <1>1, <1>2 DEF FamilyInv, Types, Lives0, StreamInv, Flow, StreamTypes
  <1>4. /\ \A q \in Proc : life[q] # "stopped" /\ life'[q] # "stopped"
        /\ \A q \in Proc : fds[q] \subseteq {Reads(1), Writes(1)}
    BY <1>3 DEF StreamInv, OnePipe
  <1>5. /\ \A q \in Proc : pc[q] \in Writing => pc'[q] \in Writing
        /\ pc[second] = "ended" => pc'[second] = "ended"
    BY <1>1, <1>3 DEF Writing
  <1>6. \A q \in Proc : \/ fds'[q] \subseteq fds[q]
                        \/ pc[q] \notin Writing /\ fds'[q] \subseteq {Reads(1), Writes(1)}
    BY <1>1, <1>3, <1>4 DEF Writing
  <1>7. /\ life'[first] = "alive" => Writes(1) \in fds'[first]
        /\ life'[main] = "alive" /\ pc'[main] = "fork first" => Writes(1) \in fds'[main]
    BY <1>1, <1>3 DEF StreamInv, LeftInv
  <1>8. /\ life'[second] # "none" => life'[first] # "none"
        /\ life[first] \in {"zombie", "gone"} => life'[first] \in {"zombie", "gone"}
    BY <1>1, <1>3 DEF StreamInv, LeftInv
  <1> QED
    BY <1>2, <1>3, <1>4, <1>5, <1>6, <1>7, <1>8, PipelineRests

LEMMA ShellFlows == ASSUME FamilyInv, StreamInv, Shell PROVE StreamInv'
  <1>0. /\ main \in Proc /\ first \in Proc \ {main} /\ second \in Proc \ {main} /\ first # second
        /\ DOMAIN fds = Proc /\ "fork first" \notin Writing
    BY Names DEF StreamInv, Flow, StreamTypes, Writing
  <1>1. CASE MakePipe
    <2>1. /\ program = "pipeline" /\ pc[main] = "pipe" /\ pc' = [pc EXCEPT ![main] = "fork first"]
          /\ fds' = [fds EXCEPT ![main] = {Reads(1), Writes(1)}]
          /\ UNCHANGED <<program, life, pipe, sent, got, eof, pending, interrupts>>
      BY <1>1 DEF MakePipe, Running, At, Goto, process, bounds, Reads, Writes, fd
    <2>2. /\ DOMAIN fds' = Proc /\ fds'[main] = {Reads(1), Writes(1)}
          /\ \A q \in Proc \ {main} : fds'[q] = fds[q]
      BY <1>0, <2>1
    <2>3. pc[main] \notin Writing /\ pc[main] # "ended"
      BY <2>1 DEF Writing
    <2> QED
      BY <1>0, <2>1, <2>2, <2>3, PipelineMoves
  <1>2. CASE ForkFirst
    <2>1. /\ program = "pipeline" /\ life[main] = "alive" /\ pc[main] = "fork first"
          /\ Fork(first, "setpgid", "group first")
      BY <1>2 DEF ForkFirst, Running, At
    <2>2. life[first] = "none"
      BY <1>0, <2>1 DEF FamilyInv, Family, Forked
    <2>3. Writes(1) \in fds[main]
      BY <2>1 DEF StreamInv, LeftInv
    <2>4. "group first" \notin {"none", "ended"} \cup Writing /\ pc[main] \notin Writing
      BY <2>1 DEF Writing
    <2> QED
      BY <1>0, <2>1, <2>2, <2>3, <2>4, PipelineForks
  <1>3. CASE ForkSecond
    <2>1. /\ program = "pipeline" /\ life[main] = "alive" /\ pc[main] = "fork second"
          /\ Fork(second, "setpgid", "group second")
      BY <1>3 DEF ForkSecond, Running, At
    <2>2. life[second] = "none" /\ life[first] # "none"
      BY <1>0, <2>1 DEF FamilyInv, Family, Forked
    <2>3. "group second" \notin {"none", "ended"} \cup Writing /\ pc[main] \notin Writing
      BY <2>1 DEF Writing
    <2> QED
      BY <1>0, <2>1, <2>2, <2>3, PipelineForks
  <1>4. CASE GroupFirst \/ GroupSecond \/ WaitFirst \/ WaitSecond
    <2>1. PICK label \in {"fork second", "close", "wait second", "return"} :
            /\ program = "pipeline" /\ pc' = [pc EXCEPT ![main] = label]
            /\ pc[main] \in {"group first", "group second", "wait first", "wait second"}
            /\ UNCHANGED <<program, fds, pipe, sent, got, eof, pending, interrupts>>
            /\ \/ life' = life
               \/ \E c \in Proc : life[c] = "zombie" /\ life' = [life EXCEPT ![c] = "gone"]
      BY <1>0, <1>4 DEF GroupFirst, GroupSecond, WaitFirst, WaitSecond, Running, At, Goto, Wait,
                        stream, bounds
    <2>2. \A q \in Proc : life'[q] = life[q] \/ (life[q] = "zombie" /\ life'[q] = "gone")
      BY <2>1 DEF FamilyInv, Types
    <2>3. pc[main] \notin Writing /\ pc[main] # "ended" /\ label # "fork first"
      BY <2>1 DEF Writing
    <2> QED
      BY <1>0, <2>1, <2>2, <2>3, PipelineMoves
  <1>5. CASE CloseEnds
    <2>1. /\ program = "pipeline" /\ pc[main] = "close" /\ pc' = [pc EXCEPT ![main] = "wait first"]
          /\ fds' = [fds EXCEPT ![main] = {}]
          /\ UNCHANGED <<program, life, pipe, sent, got, eof, pending, interrupts>>
      BY <1>5 DEF CloseEnds, Running, At, Goto, process, bounds
    <2>2. /\ DOMAIN fds' = Proc /\ fds'[main] = {} /\ \A q \in Proc \ {main} : fds'[q] = fds[q]
      BY <1>0, <2>1
    <2>3. pc[main] \notin Writing /\ pc[main] # "ended" /\ "wait first" # "fork first"
      BY <2>1 DEF Writing
    <2> QED
      BY <1>0, <2>1, <2>2, <2>3, PipelineMoves
  <1> QED
    BY <1>1, <1>2, <1>3, <1>4, <1>5 DEF Shell

LEMMA AllRead ==
    ASSUME Flow, pipe[1] = <<>>, pipe[2] = <<>>, NEW p \in Proc
    PROVE  Numbers(got, p) = 1 .. sent[p]
  <1>1. PICK n \in 0 .. sent[p] : /\ Numbers(got, p) = 1 .. n
                                  /\ UNION {Numbers(pipe[f], p) : f \in Pipe} = n + 1 .. sent[p]
    BY DEF Flow, Sound
  <1>2. \A f \in Pipe : Numbers(pipe[f], p) = {}
    BY NumbersOfNone DEF Pipe
  <1>3. \A x : x \notin n + 1 .. sent[p]
    <2>1. UNION {Numbers(pipe[f], p) : f \in Pipe} = {}
      BY <1>2
    <2> QED
      BY <1>1, <2>1
  <1>4. sent[p] \in Nat /\ n \in 0 .. sent[p]
    BY <1>1 DEF Flow, StreamTypes
  <1>5. n = sent[p]
    <2>1. sent[p] \notin n + 1 .. sent[p]
      BY <1>3
    <2> QED
      BY <1>4, <2>1
  <1> QED
    BY <1>1, <1>5

LEMMA LeftFlows == ASSUME FamilyInv, StreamInv, Left PROVE StreamInv'
  <1>1. /\ first \in Proc /\ first = 1 /\ program = "pipeline" /\ life[first] = "alive"
        /\ pc[first] = "left" /\ fd = 1 /\ fd \in Pipe
    BY Names DEF Left, Running, At, fd, Pipe
  <1>2. CASE Write(first, fd)
    <2>1. /\ \A f \in Pipe : f = 1 \/ f = 2
          /\ Numbers(pipe[2], first) = {} /\ ~Holds(first, 2, "write")
      <3>1. pipe[2] = <<>> /\ fds[first] \subseteq {Reads(1), Writes(1)}
        BY <1>1 DEF StreamInv, OnePipe
      <3> QED
        BY <3>1, NumbersOfNone DEF Pipe, Holds, Reads, Writes, End
    <2>2. \A g \in Pipe : Holds(first, g, "write") \/ Numbers(pipe[g], first) # {} => g = fd
      BY <1>1, <2>1
    <2>3. Flow'
      BY <1>1, <1>2, <2>2, FlowWrites DEF StreamInv, Writing
    <2>4. /\ pipe'[2] = pipe[2]
          /\ UNCHANGED <<program, pc, life, fds, got, eof>>
      BY <1>1, <1>2 DEF Write, process, StreamInv, Flow, StreamTypes, Pipe
    <2>5. OnePipe'
      BY <1>1, <2>4 DEF StreamInv, OnePipe
    <2>6. LeftInv' /\ FifoInv' /\ Apart'
      BY <1>1, <2>4 DEF StreamInv, LeftInv, FifoInv, Apart
    <2> QED
      BY <2>3, <2>5, <2>6 DEF StreamInv
  <1>3. CASE Exit(first) \/ BrokenPipe(first, fd)
    <2>1. Exits(first, pending) /\ interrupts' = interrupts
      BY <1>3 DEF BrokenPipe, Exit, bounds
    <2> QED
      BY <1>1, <2>1, EndFlows
  <1> QED
    BY <1>2, <1>3 DEF Left

LEMMA RightFlows == ASSUME FamilyInv, StreamInv, ReadsLine \/ SeesEof PROVE StreamInv'
  <1>1. /\ first \in Proc /\ first # second /\ second \in Proc /\ second # main /\ main \in Proc
        /\ first = 1 /\ fd = 1 /\ fd \in Pipe
        /\ program = "pipeline" /\ life[second] = "alive" /\ pc[second] = "right"
    BY Names DEF ReadsLine, SeesEof, Running, At, fd, Pipe
  <1>2. CASE ReadsLine
    <2>1. Read(fd)
      BY <1>2 DEF ReadsLine
    <2>2. Flow'
      BY <1>1, <2>1, FlowReads DEF StreamInv
    <2>3. /\ pipe'[2] = pipe[2]
          /\ UNCHANGED <<program, pc, life, fds, sent, eof>>
      BY <1>1, <2>1 DEF Read, process, StreamInv, Flow, StreamTypes, Pipe
    <2>4. OnePipe'
      BY <1>1, <2>3 DEF StreamInv, OnePipe
    <2>5. LeftInv' /\ FifoInv' /\ Apart'
      BY <1>1, <2>3 DEF StreamInv, LeftInv, FifoInv, Apart
    <2> QED
      BY <2>2, <2>4, <2>5 DEF StreamInv
  <1>3. CASE SeesEof
    <2>1. /\ AtEof(fd) /\ life' = Lives(second) /\ pc' = [pc EXCEPT ![second] = "ended"]
          /\ fds' = [fds EXCEPT ![second] = {}] /\ eof' = TRUE
          /\ UNCHANGED <<program, pipe, sent, got, pending, interrupts>>
      BY <1>3 DEF SeesEof, Goto, bounds
    <2>2. /\ life'[second] \in {"zombie", "gone"} /\ \A q \in Proc \ {second} : life'[q] = life[q]
      BY <1>1, <2>1 DEF Lives, Child
    <2>3. /\ pc'[second] = "ended" /\ \A q \in Proc \ {second} : pc'[q] = pc[q]
          /\ fds'[second] = {} /\ \A q \in Proc \ {second} : fds'[q] = fds[q]
          /\ DOMAIN fds' = Proc /\ DOMAIN pending' = Proc
      BY <1>1, <2>1 DEF FamilyInv, Types, StreamInv, Flow, StreamTypes
    <2>4. /\ \A q \in Proc : life[q] # "stopped" /\ fds[q] \subseteq {Reads(1), Writes(1)}
          /\ pipe[2] = <<>>
      BY <1>1 DEF StreamInv, OnePipe
    <2>5. Flow'
      <3>1. /\ Flow /\ interrupts' \in Int /\ interrupts' <= MaxInterrupts
            /\ UNCHANGED <<sent, pipe, got>>
        BY <2>1 DEF StreamInv, Flow, StreamTypes
      <3>2. /\ \A q \in Proc : pc[q] \in Writing => pc'[q] \in Writing
            /\ \A q \in Proc : fds'[q] \subseteq fds[q]
        BY <2>3 DEF Writing
      <3> QED
        BY <2>3, <3>1, <3>2, FlowRests
    <2>6. OnePipe'
      BY <1>1, <2>1, <2>2, <2>3, <2>4 DEF OnePipe
    <2>7. LeftInv'
      <3>1. Writes(1) \notin fds[first] /\ pipe[1] = <<>>
        BY <1>1, <2>1 DEF AtEof, Connected, Holds, Writes
      <3>2. life[first] \in {"zombie", "gone"}
        <4>1. life[first] \in Lifes
          BY <1>1 DEF FamilyInv, Types
        <4>2. life[first] \notin {"none", "alive", "stopped"}
          BY <1>1, <2>4, <3>1 DEF StreamInv, LeftInv
        <4> QED
          BY <4>1, <4>2 DEF Lifes
      <3>3. Numbers(got, first) = 1 .. sent[first]
        BY <1>1, <2>4, <3>1, AllRead DEF StreamInv
      <3>4. life'[main] = "alive" /\ pc'[main] = "fork first" => Writes(1) \in fds'[main]
        BY <1>1, <2>2, <2>3 DEF StreamInv, LeftInv
      <3> QED
        BY <1>1, <2>1, <2>2, <2>3, <3>2, <3>3, <3>4 DEF LeftInv
    <2>8. FifoInv' /\ Apart'
      BY <1>1, <2>1 DEF FifoInv, Apart
    <2> QED
      BY <2>5, <2>6, <2>7, <2>8 DEF StreamInv
  <1> QED
    BY <1>2, <1>3

LEMMA StageFlows == ASSUME FamilyInv, StreamInv, NEW c \in {first, second}, Stage(c) PROVE StreamInv'
  <1>0. c \in Proc /\ c # main /\ DOMAIN fds = Proc
    BY Names DEF StreamInv, Flow, StreamTypes
  <1>1. CASE Regroup(c) \/ Exec(c)
    <2> DEFINE label == IF pc[c] = "setpgid" THEN "redirect" ELSE IF c = first THEN "left" ELSE "right"
    <2>1. /\ program = "pipeline" /\ pc[c] \in {"setpgid", "exec"} /\ pc' = [pc EXCEPT ![c] = label]
          /\ UNCHANGED <<program, life, fds, pipe, sent, got, eof, pending, interrupts>>
      BY <1>1 DEF Regroup, Exec, Running, At, Goto, process, stream, bounds
    <2>2. pc[c] \notin Writing /\ pc[c] # "ended"
      BY <2>1 DEF Writing
    <2> HIDE DEF label
    <2> QED
      BY <1>0, <2>1, <2>2, PipelineMoves
  <1>2. CASE Redirect(c)
    <2> DEFINE ends == {End(fd, IF c = first THEN "write" ELSE "read")}
    <2>1. /\ program = "pipeline" /\ pc[c] = "redirect" /\ pc' = [pc EXCEPT ![c] = "exec"]
          /\ fds' = [fds EXCEPT ![c] = ends]
          /\ UNCHANGED <<program, life, pipe, sent, got, eof, pending, interrupts>>
      BY <1>2 DEF Redirect, Running, At, Goto, process, bounds
    <2>2. ends \subseteq {Reads(1), Writes(1)} /\ (c = first => Writes(1) \in ends)
      BY DEF Reads, Writes, fd
    <2> HIDE DEF ends
    <2>3. /\ DOMAIN fds' = Proc /\ fds'[c] = ends /\ \A q \in Proc \ {c} : fds'[q] = fds[q]
      BY <1>0, <2>1
    <2>4. pc[c] \notin Writing /\ pc[c] # "ended"
      BY <2>1 DEF Writing
    <2> QED
      BY <1>0, <2>1, <2>2, <2>3, <2>4, PipelineMoves
  <1> QED
    BY <1>1, <1>2 DEF Stage

LEMMA PipelineFlows == ASSUME FamilyInv, StreamInv, NEW p \in Proc, PipelineStep(p) PROVE StreamInv'
  BY ShellFlows, StageFlows, LeftFlows, RightFlows DEF PipelineStep

LEMMA PipelineFaultFlows == ASSUME FamilyInv, StreamInv, PipelineFault PROVE StreamInv'
  <1>1. PICK p \in Proc : /\ program = "pipeline" /\ life[p] = "alive" /\ Exits(p, pending)
                          /\ interrupts' = interrupts
    BY Names DEF PipelineFault, ShellGivesUp, ExecFails, StopsEarly, Exit, Running, At, Fails, bounds
  <1> QED
    BY <1>1, EndFlows

----------------------------------------------------------------------------
(* The streams of the other programs.                                      *)

LEMMA JobRests ==
    ASSUME StreamInv, program = "jobctl", UNCHANGED <<program, sent, pipe, got, interrupts>>,
           DOMAIN fds' = Proc, DOMAIN pending' = Proc,
           \A q \in Proc : pc[q] \in Writing => pc'[q] \in Writing,
           \A q \in Proc : \/ fds'[q] = fds[q]
                           \/ pc[q] \notin Writing /\ fds'[q] = fds[main]
    PROVE  StreamInv'
  <1>1. /\ Flow /\ interrupts' \in Int /\ interrupts' <= MaxInterrupts /\ main \in Proc
    BY Names DEF StreamInv, Flow, StreamTypes
  <1>2. \A f, g \in Pipe : Writes(f) \in fds[main] /\ Writes(g) \in fds[main] => f = g
    BY <1>1 DEF Flow, OneEnd, Holds, Writes
  <1>3. \A q \in Proc :
           \/ fds'[q] \subseteq fds[q]
           \/ /\ pc[q] \notin Writing
              /\ \A f, g \in Pipe : Writes(f) \in fds'[q] /\ Writes(g) \in fds'[q] => f = g
    BY <1>2
  <1>4. Flow'
    BY <1>1, <1>3, FlowRests
  <1> QED
    BY <1>4 DEF StreamInv, OnePipe, LeftInv, FifoInv, Apart

LEMMA JobMovesOn ==
    ASSUME FamilyInv, StreamInv, program = "jobctl", NEW p \in Proc, pc[p] \notin Writing, NEW label,
           pc' = [pc EXCEPT ![p] = label], DOMAIN pending' = Proc,
           UNCHANGED <<program, fds, sent, pipe, got, interrupts>>
    PROVE  StreamInv'
  <1>1. \A q \in Proc : pc[q] \in Writing => pc'[q] \in Writing
    BY DEF FamilyInv, Types
  <1>2. DOMAIN fds' = Proc
    BY DEF StreamInv, Flow, StreamTypes
  <1> QED
    BY <1>1, <1>2, JobRests

LEMMA JobForks ==
    ASSUME FamilyInv, StreamInv, program = "jobctl", NEW c \in Proc \ {main}, life[c] = "none",
           pc[main] \notin Writing, NEW label, NEW next, Fork(c, label, next)
    PROVE  StreamInv'
  <1>1. /\ pc' = [pc EXCEPT ![main] = next, ![c] = label] /\ fds' = [fds EXCEPT ![c] = fds[main]]
        /\ UNCHANGED <<program, sent, pipe, got, pending, interrupts>>
    BY DEF Fork, bounds
  <1>2. pc[c] = "none" /\ DOMAIN pc = Proc /\ main \in Proc /\ "none" \notin Writing
    BY Names DEF FamilyInv, Types, Lives0, Writing
  <1>3. DOMAIN fds = Proc /\ DOMAIN pending = Proc
    BY DEF StreamInv, Flow, StreamTypes
  <1>4. \A q \in Proc : pc[q] \in Writing => pc'[q] \in Writing
    BY <1>1, <1>2
  <1>5. /\ DOMAIN fds' = Proc /\ DOMAIN pending' = Proc
        /\ \A q \in Proc : \/ fds'[q] = fds[q]
                           \/ pc[q] \notin Writing /\ fds'[q] = fds[main]
    BY <1>1, <1>2, <1>3
  <1> QED
    BY <1>1, <1>4, <1>5, JobRests

LEMMA JobFlows == ASSUME FamilyInv, StreamInv, NEW p \in Proc, JobControlStep(p) PROVE StreamInv'
  <1>0. /\ main \in Proc /\ newcomer \in Proc \ {main} /\ newcomer \notin Worker
        /\ \A w \in Worker : w \in Proc \ {main} /\ w \in Int
        /\ DOMAIN pending = Proc
    BY Names DEF StreamInv, Flow, StreamTypes
  <1>1. CASE ForkWorker
    <2>1. /\ Fork(i, "default", "group") /\ program = "jobctl" /\ life[main] = "alive"
          /\ pc[main] = "fork"
      BY <1>1 DEF ForkWorker, AtJob, At
    <2>2. i \in Worker /\ i \in Proc \ {main}
      BY <1>0, <2>1, JobState DEF Counts
    <2>3. ~Forked(i)
      BY <1>0, <2>1, <2>2 DEF Forked
    <2>4. life[i] = "none" /\ pc[main] \notin Writing
      BY <2>1, <2>2, <2>3, JobState DEF Writing
    <2> QED
      BY <2>1, <2>2, <2>4, JobForks
  <1>2. CASE ForkNewcomer
    <2>1. /\ Fork(newcomer, "setsid", "wait newcomer") /\ program = "jobctl" /\ life[main] = "alive"
          /\ pc[main] = "fork newcomer"
      BY <1>2 DEF ForkNewcomer, AtJob, At
    <2>2. ~Forked(newcomer)
      BY <1>0, <2>1 DEF Forked
    <2>3. life[newcomer] = "none" /\ pc[main] \notin Writing
      BY <1>0, <2>1, <2>2, JobState DEF Writing
    <2> QED
      BY <1>0, <2>1, <2>3, JobForks
  <1>3. CASE GroupWorker \/ NoteGroup \/ StopJob \/ ContinueJob \/ EndJob \/ Reap \/ ForgetGroup
             \/ WaitNewcomer
    <2>1. \E label \in {"note", "fork", "stop", "cont", "term", "reap", "forget", "fork newcomer", "return"} :
            /\ program = "jobctl" /\ pc' = [pc EXCEPT ![main] = label]
            /\ pc[main] \in {"group", "note", "stop", "cont", "term", "reap", "forget", "wait newcomer"}
            /\ UNCHANGED <<program, fds, sent, pipe, got, interrupts>>
            /\ pending' = pending \/ pending' = Sent(Job(main), "TERM")
      BY <1>3 DEF GroupWorker, NoteGroup, StopJob, ContinueJob, Switch, EndJob, Reap, ForgetGroup,
                  WaitNewcomer, Wait, AtJob, At, Goto, stream, bounds
    <2>2. DOMAIN pending' = Proc
      BY <1>0, <2>1 DEF Sent
    <2> QED
      BY <1>0, <2>1, <2>2, JobMovesOn DEF Writing
  <1>4. CASE SetSid
    <2>1. /\ program = "jobctl" /\ pc' = [pc EXCEPT ![newcomer] = "exit"] /\ pc[newcomer] = "setsid"
          /\ UNCHANGED <<program, fds, sent, pipe, got, pending, interrupts>>
      BY <1>4 DEF SetSid, AtJob, At, Goto, stream, bounds
    <2> QED
      BY <1>0, <2>1, JobMovesOn DEF Writing
  <1>5. ASSUME p \in Worker, DefaultAction(p) \/ JoinGroup(p) PROVE StreamInv'
    <2>1. \E label \in {"setpgid", "loop"} :
            /\ program = "jobctl" /\ pc' = [pc EXCEPT ![p] = label] /\ pc[p] \in {"default", "setpgid"}
            /\ UNCHANGED <<program, fds, sent, pipe, got, pending, interrupts>>
      BY <1>5 DEF DefaultAction, JoinGroup, AtJob, At, Goto, stream, bounds
    <2> QED
      BY <1>0, <2>1, JobMovesOn DEF Writing
  <1>6. ASSUME NEW q \in Proc, program = "jobctl", life[q] = "alive", Exit(q) PROVE StreamInv'
    BY <1>6, EndFlows DEF Exit, bounds
  <1>7. CASE NewcomerExits
    BY <1>0, <1>6, <1>7 DEF NewcomerExits, AtJob, At
  <1>8. ASSUME Leave(p) PROVE StreamInv'
    BY <1>6, <1>8 DEF Leave, AtJob, At
  <1> QED
    BY <1>1, <1>2, <1>3, <1>4, <1>5, <1>7, <1>8 DEF JobControlStep

LEMMA JobFaultFlows == ASSUME FamilyInv, StreamInv, JobControlFault PROVE StreamInv'
  <1>1. \E signals : /\ program = "jobctl" /\ life[main] = "alive" /\ Exits(main, signals)
                     /\ interrupts' = interrupts
    BY DEF JobControlFault, ForkWorkerFails, ForkNewcomerFails, AtJob, At, Fails
  <1> QED
    BY <1>1, EndFlows, Names
----------------------------------------------------------------------------
(* The streams of the FIFO.                                                *)

\* A process writes to the pipe that it has open.
LEMMA HolderWrites ==
    ASSUME Flow, NEW p \in Proc, NEW f \in Pipe, pc[p] = "write", Holds(p, f, "write"), Write(p, f)
    PROVE  Flow'
  <1>1. \A g \in Pipe : Holds(p, g, "write") \/ Numbers(pipe[g], p) # {} => g = f
    BY DEF Flow, OneEnd, Lane
  <1> QED
    BY <1>1, FlowWrites DEF Writing

LEMMA FifoRests ==
    ASSUME StreamInv, program = "fifo", UNCHANGED <<program, pipe, sent, got, pending, interrupts>>,
           DOMAIN fds' = Proc,
           \A q \in Proc : pc[q] \in Writing => pc'[q] \in Writing,
           \A q \in Proc : \/ fds'[q] \subseteq fds[q]
                           \/ pc[q] \notin Writing /\ fds'[q] \subseteq {Reads(1), Writes(1)},
           \A q \in Proc : life'[q] # "stopped",
           \A q \in Proc \ {main, 1} : pc'[q] = "none" /\ fds'[q] = {},
           pc'[1] \in {"none", "open", "opening", "write", "exit", "ended"},
           file' \in {0, 1}, pc'[main] # "mkfifo",
           interrupts = MaxInterrupts /\ life'[main] = "alive" => Meeting',
           interrupts = MaxInterrupts /\ eof' =>
              /\ Numbers(got, 1) = 1 .. Messages
              /\ pc'[main] \in {"close", "wait", "unlink", "return", "ended"}
    PROVE  StreamInv'
  <1>1. \A q \in Proc : fds'[q] \subseteq {Reads(1), Writes(1)}
    BY DEF StreamInv, OnePipe
  <1>2. \A q \in Proc : \A f, g \in Pipe : Writes(f) \in fds'[q] /\ Writes(g) \in fds'[q] => f = g
    <2>1. \A f : Writes(f) # Reads(1) /\ (Writes(f) = Writes(1) => f = 1)
      BY DEF Writes, Reads, End
    <2> QED
      BY <1>1, <2>1
  <1>3. Flow'
    <2>1. /\ Flow /\ interrupts' \in Int /\ interrupts' <= MaxInterrupts
          /\ DOMAIN pending' = Proc
      BY DEF StreamInv, Flow, StreamTypes
    <2> QED
      BY <1>2, <2>1, FlowRests
  <1>4. OnePipe'
    BY <1>1 DEF StreamInv, OnePipe
  <1>5. FifoInv'
    BY DEF StreamInv, FifoInv
  <1>6. LeftInv' /\ Apart'
    BY DEF LeftInv, Apart
  <1> QED
    BY <1>3, <1>4, <1>5, <1>6 DEF StreamInv

\* The processes of the FIFO are main and the writer 1.
LEMMA FifoState ==
    ASSUME FamilyInv, StreamInv, program = "fifo"
    PROVE  /\ main \in Proc /\ 1 \in Proc /\ main # 1 /\ reader = main
           /\ DOMAIN pc = Proc /\ DOMAIN fds = Proc
           /\ \A q \in Proc : life[q] # "stopped" /\ fds[q] \subseteq {Reads(1), Writes(1)}
           /\ \A q \in Proc \ {main, 1} : pc[q] = "none" /\ fds[q] = {}
           /\ pc[1] \in {"none", "open", "opening", "write", "exit", "ended"}
           /\ file \in {0, 1} /\ pipe[2] = <<>>
           /\ pc[main] = "mkfifo" => file = 0 /\ made = 0
           /\ interrupts = MaxInterrupts /\ life[main] = "alive" => Meeting
           /\ interrupts = MaxInterrupts /\ eof =>
                 /\ Numbers(got, 1) = 1 .. Messages
                 /\ pc[main] \in {"close", "wait", "unlink", "return", "ended"}
           /\ life[main] = "alive" /\ pc[main] \in {"mkfifo", "stat", "fork writer"}
                => life[1] = "none" /\ pc[1] = "none"
  <1>1. main \in Proc /\ 1 \in Proc /\ main # 1 /\ reader = main
    BY Names DEF reader, first
  <1>2. life[main] = "alive" /\ pc[main] \in {"mkfifo", "stat", "fork writer"}
          => life[1] = "none" /\ pc[1] = "none"
    BY <1>1 DEF FamilyInv, Family, Forked, Lives0
  <1>3. DOMAIN pc = Proc /\ DOMAIN fds = Proc
    BY DEF FamilyInv, Types, StreamInv, Flow, StreamTypes
  <1>4. /\ \A q \in Proc : life[q] # "stopped" /\ fds[q] \subseteq {Reads(1), Writes(1)}
        /\ pipe[2] = <<>>
    BY DEF StreamInv, OnePipe
  <1>5. FifoInv
    BY DEF StreamInv
  <1> QED
    BY <1>1, <1>2, <1>3, <1>4, <1>5 DEF FifoInv

\* One process of the FIFO goes on, and no end is opened.
LEMMA FifoGoesOn ==
    ASSUME FamilyInv, StreamInv, program = "fifo", NEW p \in {main, 1}, NEW label,
           pc' = [pc EXCEPT ![p] = label], pc[p] \notin Writing, label \notin {"ended", "mkfifo"},
           UNCHANGED <<program, pipe, sent, got, pending, interrupts>>,
           DOMAIN fds' = Proc, \A q \in Proc : fds'[q] \subseteq fds[q],
           \A q \in Proc : life'[q] = life[q] \/ (life[q] = "zombie" /\ life'[q] = "gone"),
           file' \in {0, 1}, p = 1 => label = "exit" /\ pc[main] # "mkfifo",
           interrupts = MaxInterrupts /\ life'[main] = "alive" => Meeting',
           interrupts = MaxInterrupts /\ eof' =>
              /\ Numbers(got, 1) = 1 .. Messages
              /\ pc'[main] \in {"close", "wait", "unlink", "return", "ended"}
    PROVE  StreamInv'
  <1>1. p \in Proc /\ pc'[p] = label /\ \A q \in Proc \ {p} : pc'[q] = pc[q]
    BY FifoState
  <1>2. \A q \in Proc : pc[q] \in Writing => pc'[q] \in Writing
    BY <1>1
  <1>3. \A q \in Proc : life'[q] # "stopped"
    BY DEF StreamInv, OnePipe
  <1>4. \A q \in Proc \ {main, 1} : pc'[q] = "none" /\ fds'[q] = {}
    BY <1>1, FifoState
  <1>5. /\ pc'[1] \in {"none", "open", "opening", "write", "exit", "ended"}
        /\ pc'[main] # "mkfifo"
    BY <1>1, FifoState
  <1> QED
    BY <1>2, <1>3, <1>4, <1>5, FifoRests
\* A process of the FIFO ends.
LEMMA FifoEnds ==
    ASSUME FamilyInv, StreamInv, NEW p \in Proc, life[p] = "alive", Exit(p),
           program = "fifo" /\ interrupts = MaxInterrupts /\ p = 1 /\ life[main] = "alive"
             => /\ pc[main] \in {"open", "opening"} => pc[1] = "exit"
                /\ pc[main] = "read" => sent[1] = Messages
    PROVE  StreamInv'
  BY EndFlows DEF Exit, bounds

\* With the name gone, stat() and open() fail.
LEMMA StatFlows == ASSUME FamilyInv, StreamInv, program = "fifo", NEW p \in Proc, Stat(p) PROVE StreamInv'
  <1>1. life[p] = "alive" /\ pc[p] = "stat" /\ p \in {main, 1}
    BY FifoState DEF Stat, InFifo, At
  <1>2. p = main
    BY <1>1, FifoState
  <1>3. CASE file = 0
    <2>1. Exit(p) /\ p # 1
      BY <1>2, <1>3, FifoState DEF Stat
    <2> QED
      BY <1>1, <2>1, FifoEnds
  <1>4. CASE file # 0
    <2>1. /\ pc' = [pc EXCEPT ![main] = "fork writer"]
          /\ UNCHANGED <<program, life, fds, pipe, sent, got, eof, pending, interrupts, file>>
      BY <1>2, <1>4 DEF Stat, Goto, process, stream, bounds, name
    <2>2. pc'[main] = "fork writer" /\ file' \in {0, 1} /\ main # 1 /\ DOMAIN fds' = Proc
      BY <2>1, FifoState
    <2>3. interrupts = MaxInterrupts /\ life'[main] = "alive" => Meeting'
      <3>1. interrupts = MaxInterrupts /\ life[main] = "alive" => Meeting
        BY FifoState
      <3> QED
        BY <1>1, <1>2, <2>1, <2>2, <3>1 DEF Meeting
    <2>4. ~(interrupts = MaxInterrupts /\ eof)
      BY <1>1, <1>2, FifoState
    <2>5. pc[main] \notin Writing
      BY <1>1, <1>2 DEF Writing
    <2> QED
      BY <1>2, <2>1, <2>2, <2>3, <2>4, <2>5, FifoGoesOn
  <1> QED
    BY <1>3, <1>4

LEMMA MakeFlows == ASSUME FamilyInv, StreamInv, program = "fifo", NEW p \in Proc, MakeFifo(p) PROVE StreamInv'
  <1>1. life[p] = "alive" /\ pc[p] = "mkfifo" /\ p \in {main, 1}
    BY FifoState DEF MakeFifo, InFifo, At
  <1>2. p = main
    BY <1>1, FifoState
  <1>3. /\ pc' = [pc EXCEPT ![main] = "stat"] /\ file = 0 /\ made = 0 /\ file' = 1
        /\ UNCHANGED <<program, life, fds, pipe, sent, got, eof, pending, interrupts>>
    <2>1. file = 0 /\ made = 0
      BY <1>1, <1>2, FifoState
    <2> QED
      BY <1>2, <2>1 DEF MakeFifo, Goto, process, stream, bounds, name
  <1>4. pc'[main] = "stat" /\ DOMAIN fds' = Proc /\ main # 1
    BY <1>3, FifoState
  <1>5. interrupts = MaxInterrupts /\ life'[main] = "alive" => Meeting'
    <2>1. interrupts = MaxInterrupts /\ life[main] = "alive" => Meeting
      BY FifoState
    <2> QED
      BY <1>1, <1>2, <1>3, <1>4, <2>1 DEF Meeting
  <1>6. ~(interrupts = MaxInterrupts /\ eof)
    BY <1>1, <1>2, FifoState
  <1>7. pc[main] \notin Writing
    BY <1>1, <1>2 DEF Writing
  <1> QED
    BY <1>2, <1>3, <1>4, <1>5, <1>6, <1>7, FifoGoesOn

\* The other end is opened by whoever comes second.
LEMMA OpenFlows == ASSUME FamilyInv, StreamInv, program = "fifo", NEW p \in Proc, Open(p) PROVE StreamInv'
  <1>1. /\ life[p] = "alive" /\ pc[p] = "open" /\ p \in {main, 1}
        /\ UNCHANGED <<program, life, pipe, sent, got, eof, pending, interrupts, file, made>>
    BY FifoState DEF Open, InFifo, At, process, bounds, name
  <1>2. main # 1 /\ main \in Proc /\ 1 \in Proc /\ reader = main /\ DOMAIN fds = Proc /\ DOMAIN pc = Proc
    BY FifoState
  <1>3. interrupts = MaxInterrupts /\ life[main] = "alive" => Meeting
    BY FifoState
  <1>4. pc[main] \notin {"mkfifo", "stat", "fork writer"}
    <2>1. pc[main] = "open" \/ (p = 1 /\ life[1] # "none")
      BY <1>1
    <2>2. life[main] # "alive" => pc[main] \in {"none", "ended"}
      BY <1>2 DEF FamilyInv, Lives0
    <2> QED
      BY <2>1, <2>2, FifoState
  <1>5. CASE file = 0
    <2>1. pc' = [pc EXCEPT ![p] = After(p)] /\ fds' = fds
      BY <1>5 DEF Open, Goto
    <2>2. After(p) = IF p = 1 THEN "exit" ELSE "wait"
      BY <1>1, <1>2 DEF After
    <2>3. /\ pc'[p] = After(p) /\ \A q \in Proc \ {p} : pc'[q] = pc[q]
          /\ file' \in {0, 1}
      BY <1>1, <2>1, FifoState
    <2>4. interrupts = MaxInterrupts /\ life'[main] = "alive" => Meeting'
      <3> SUFFICES ASSUME interrupts = MaxInterrupts, life[main] = "alive" PROVE Meeting'
        BY <1>1
      <3>0. Meeting /\ file # 1
        BY <1>3, <1>5
      <3>1. pc[main] \notin {"stat", "fork writer", "open", "opening"} /\ p = 1
        <4>1. pc[main] \notin {"stat", "fork writer", "open", "opening"}
          BY <3>0 DEF Meeting
        <4> QED
          BY <1>1, <4>1
      <3>2. pc[main] # "read" /\ pc'[main] = pc[main]
        BY <1>1, <1>2, <1>3, <2>3, <3>1 DEF Meeting
      <3> QED
        BY <1>4, <3>1, <3>2 DEF Meeting
    <2>5. interrupts = MaxInterrupts /\ eof =>
              /\ Numbers(got, 1) = 1 .. Messages
              /\ pc'[main] \in {"close", "wait", "unlink", "return", "ended"}
      <3>1. interrupts = MaxInterrupts /\ eof =>
              /\ Numbers(got, 1) = 1 .. Messages
              /\ pc[main] \in {"close", "wait", "unlink", "return", "ended"}
        BY FifoState
      <3>2. pc'[main] = pc[main] \/ pc'[main] = "wait"
        BY <1>1, <1>2, <2>2, <2>3
      <3> QED
        BY <3>1, <3>2
    <2>6. pc[p] \notin Writing
      BY <1>1 DEF Writing
    <2> HIDE DEF Meeting
    <2> QED
      BY <1>1, <1>2, <1>4, <2>1, <2>2, <2>3, <2>4, <2>5, <2>6, FifoGoesOn
  <1>6. CASE file # 0
    <2>1. file = 1 /\ file' \in {0, 1}
      BY <1>1, <1>6, FifoState
    <2>2. /\ fds'[p] = {End(1, EndOf(p))} /\ \A q \in Proc \ {p} : fds'[q] = fds[q]
          /\ DOMAIN fds' = Proc
      BY <1>2, <1>6, <2>1 DEF Open
    <2>3. fds'[p] = IF p = main THEN {Reads(1)} ELSE {Writes(1)}
      BY <1>2, <2>2 DEF EndOf, Reads, Writes
    <2>4. pc' = [q \in Proc |->
              CASE q = p -> IF Connected(file, OtherEnd(EndOf(p))) THEN Opened(p) ELSE "opening"
                [] q # p /\ pc[q] = "opening" /\ Holds(q, file, OtherEnd(EndOf(p))) -> Opened(q)
                [] OTHER -> pc[q]]
      BY <1>6 DEF Open
    <2>5. pc'[p] = IF Connected(1, OtherEnd(EndOf(p))) THEN Opened(p) ELSE "opening"
      BY <2>1, <2>4
    <2>6. \A q \in Proc \ {p} :
             pc'[q] = IF pc[q] = "opening" /\ Holds(q, 1, OtherEnd(EndOf(p))) THEN Opened(q) ELSE pc[q]
      BY <2>1, <2>4
    <2>7. \A q \in Proc \ {p} : pc'[q] = pc[q] \/ (pc[q] = "opening" /\ pc'[q] = Opened(q))
      BY <2>6
    <2>8. /\ Opened(main) = "read" /\ Opened(1) = "write"
          /\ EndOf(main) = "read" /\ EndOf(1) = "write"
          /\ OtherEnd(EndOf(main)) = "write" /\ OtherEnd(EndOf(1)) = "read"
      BY <1>2 DEF Opened, EndOf, OtherEnd
    <2>9. \A q \in Proc \ {main, 1} : pc'[q] = "none" /\ fds'[q] = {}
      BY <1>1, <2>2, <2>7, FifoState
    <2>10. \A q \in Proc : pc[q] \in Writing => pc'[q] \in Writing
      BY <1>1, <2>7 DEF Writing
    <2>11. pc'[1] \in {"none", "open", "opening", "write", "exit", "ended"} /\ pc'[main] # "mkfifo"
      <3>1. pc'[p] \in {"opening", Opened(p)}
        BY <2>5
      <3>2. /\ pc'[1] \in {pc[1], "opening", "write"}
            /\ pc'[main] \in {pc[main], "opening", "read"}
        BY <1>1, <1>2, <2>7, <2>8, <3>1
      <3> QED
        BY <1>4, <3>2, FifoState
    <2>12. \A q \in Proc : \/ fds'[q] \subseteq fds[q]
                           \/ pc[q] \notin Writing /\ fds'[q] \subseteq {Reads(1), Writes(1)}
      BY <1>1, <2>2, <2>3 DEF Writing
    <2>13. Connected(1, "read") <=> Reads(1) \in fds[main] \/ Reads(1) \in fds[1]
      BY <1>2, FifoState DEF Connected, Holds, Reads
    <2>14. Connected(1, "write") <=> Writes(1) \in fds[main] \/ Writes(1) \in fds[1]
      BY <1>2, FifoState DEF Connected, Holds, Writes
    <2>15. Reads(1) # Writes(1) /\ \A q : /\ Holds(q, 1, "read") <=> Reads(1) \in fds[q]
                                          /\ Holds(q, 1, "write") <=> Writes(1) \in fds[q]
      BY DEF Reads, Writes, End, Holds
    <2>16. interrupts = MaxInterrupts /\ life'[main] = "alive" => Meeting'
      <3> SUFFICES ASSUME interrupts = MaxInterrupts, life[main] = "alive" PROVE Meeting'
        BY <1>1
      <3>1. Meeting
        BY <1>3
      <3>2. CASE p = main
        <4>1. fds[main] = {} /\ fds'[main] = {Reads(1)}
          BY <1>1, <2>3, <3>1, <3>2 DEF Meeting
        <4>2. CASE pc[1] = "open" /\ fds[1] = {}
          <5>1. pc'[main] = "opening" /\ pc'[1] = "open" /\ fds'[1] = {}
            BY <1>2, <2>2, <2>5, <2>6, <2>8, <2>14, <3>2, <4>1, <4>2
          <5> QED
            BY <1>1, <2>1, <4>1, <5>1 DEF Meeting
        <4>3. CASE pc[1] = "opening" /\ fds[1] = {Writes(1)}
          <5>1. pc'[main] = "read" /\ pc'[1] = "write" /\ fds'[1] = {Writes(1)}
            BY <1>2, <2>2, <2>5, <2>6, <2>8, <2>14, <2>15, <3>2, <4>1, <4>3
          <5> QED
            BY <4>1, <5>1 DEF Meeting
        <4>4. CASE pc[1] \in {"exit", "ended"} /\ fds[1] = {}
          <5>1. pc'[main] = "opening" /\ pc'[1] = pc[1] /\ fds'[1] = {}
            BY <1>2, <2>2, <2>5, <2>6, <2>8, <2>14, <3>2, <4>1, <4>4
          <5> QED
            BY <1>1, <2>1, <4>1, <4>4, <5>1 DEF Meeting
        <4> QED
          BY <1>1, <3>1, <3>2, <4>2, <4>3, <4>4 DEF Meeting
      <3>3. CASE p = 1
        <4>1. fds'[1] = {Writes(1)} /\ fds'[main] = fds[main] /\ pc[1] = "open"
          BY <1>1, <1>2, <2>2, <2>3, <3>3
        <4>2. CASE pc[main] = "open"
          <5>1. fds[main] = {} /\ fds[1] = {}
            BY <3>1, <4>1, <4>2 DEF Meeting
          <5>2. pc'[main] = "open" /\ pc'[1] = "opening"
            BY <1>2, <2>5, <2>6, <2>8, <2>13, <3>3, <4>2, <5>1
          <5> QED
            BY <1>1, <2>1, <4>1, <5>1, <5>2 DEF Meeting
        <4>3. CASE pc[main] = "opening"
          <5>1. fds[main] = {Reads(1)}
            BY <3>1, <4>3 DEF Meeting
          <5>2. pc'[main] = "read" /\ pc'[1] = "write"
            BY <1>2, <2>5, <2>6, <2>8, <2>13, <2>15, <3>3, <4>3, <5>1
          <5> QED
            BY <4>1, <5>1, <5>2 DEF Meeting
        <4>4. CASE pc[main] \notin {"open", "opening"}
          <5>1. pc'[main] = pc[main]
            BY <1>2, <2>7, <3>3, <4>4
          <5>2. pc[main] # "read"
            BY <3>1, <4>1 DEF Meeting
          <5> QED
            BY <1>4, <4>4, <5>1, <5>2 DEF Meeting
        <4> QED
          BY <4>2, <4>3, <4>4
      <3> QED
        BY <1>1, <3>2, <3>3
    <2>17. interrupts = MaxInterrupts /\ eof =>
              /\ Numbers(got, 1) = 1 .. Messages
              /\ pc'[main] \in {"close", "wait", "unlink", "return", "ended"}
      <3>1. interrupts = MaxInterrupts /\ eof =>
              /\ Numbers(got, 1) = 1 .. Messages
              /\ pc[main] \in {"close", "wait", "unlink", "return", "ended"}
        BY FifoState
      <3>2. pc[main] \in {"close", "wait", "unlink", "return", "ended"} => pc'[main] = pc[main]
        BY <1>1, <1>2, <2>7
      <3> QED
        BY <3>1, <3>2
    <2>18. \A q \in Proc : life'[q] # "stopped"
      BY <1>1 DEF StreamInv, OnePipe
    <2> QED
      BY <1>1, <2>1, <2>2, <2>9, <2>10, <2>11, <2>12, <2>16, <2>17, <2>18, FifoRests
  <1> QED
    BY <1>5, <1>6
LEMMA ForkFlows == ASSUME FamilyInv, StreamInv, program = "fifo", ForkWriter PROVE StreamInv'
  <1>1. life[main] = "alive" /\ pc[main] = "fork writer" /\ Fork(1, "open", "open")
    BY DEF ForkWriter, InFifo, At
  <1>2. /\ main \in Proc /\ 1 \in Proc /\ main # 1 /\ pc[1] = "none"
        /\ DOMAIN fds = Proc /\ DOMAIN pc = Proc /\ DOMAIN life = Proc
    BY <1>1, FifoState DEF FamilyInv, Types
  <1>3. /\ pc' = [pc EXCEPT ![main] = "open", ![1] = "open"]
        /\ life' = [life EXCEPT ![1] = "alive"] /\ fds' = [fds EXCEPT ![1] = fds[main]]
        /\ UNCHANGED <<program, pipe, sent, got, eof, pending, interrupts, file, made>>
    BY <1>1 DEF Fork, bounds, name
  <1>4. /\ pc'[main] = "open" /\ pc'[1] = "open" /\ \A q \in Proc \ {main, 1} : pc'[q] = pc[q]
        /\ fds'[1] = fds[main] /\ \A q \in Proc \ {1} : fds'[q] = fds[q]
        /\ DOMAIN fds' = Proc /\ life'[1] = "alive" /\ \A q \in Proc \ {1} : life'[q] = life[q]
    BY <1>2, <1>3
  <1>5. \A q \in Proc : life'[q] # "stopped"
    BY <1>4 DEF StreamInv, OnePipe
  <1>6. /\ \A q \in Proc : pc[q] \in Writing => pc'[q] \in Writing
        /\ pc[1] \notin Writing
    BY <1>1, <1>2, <1>4 DEF Writing
  <1>7. \A q \in Proc : \/ fds'[q] \subseteq fds[q]
                        \/ pc[q] \notin Writing /\ fds'[q] \subseteq {Reads(1), Writes(1)}
    BY <1>2, <1>4, <1>6 DEF StreamInv, OnePipe
  <1>8. \A q \in Proc \ {main, 1} : pc'[q] = "none" /\ fds'[q] = {}
    BY <1>4, FifoState
  <1>9. interrupts = MaxInterrupts /\ life'[main] = "alive" => Meeting'
    <2>1. interrupts = MaxInterrupts => Meeting
      BY <1>1, FifoState
    <2> QED
      BY <1>1, <1>2, <1>3, <1>4, <2>1 DEF Meeting
  <1>10. ~(interrupts = MaxInterrupts /\ eof) /\ file' \in {0, 1}
    BY <1>1, <1>3, FifoState
  <1> QED
    BY <1>3, <1>4, <1>5, <1>6, <1>7, <1>8, <1>9, <1>10, FifoRests

LEMMA WriterFlows == ASSUME FamilyInv, StreamInv, program = "fifo", NEW p \in Proc, WriterStep(p) PROVE StreamInv'
  <1>1. PICK f \in Pipe :
          /\ life[p] = "alive" /\ pc[p] = "write" /\ p \in {main, 1} /\ Holds(p, f, "write")
          /\ \/ Exit(p) /\ sent[p] = Messages
             \/ Exit(p) /\ ~Connected(f, "read")
             \/ Write(p, f)
    BY FifoState DEF WriterStep, BrokenPipe, InFifo, At
  <1>2. f = 1
    <2>1. Writes(f) \in {Reads(1), Writes(1)}
      BY <1>1, FifoState DEF Holds, Writes
    <2> QED
      BY <2>1 DEF Reads, Writes, End
  <1>3. interrupts = MaxInterrupts /\ p = 1 /\ life[main] = "alive"
           => /\ pc[main] \notin {"open", "opening"}
              /\ pc[main] = "read" => fds[main] = {Reads(1)}
    BY <1>1, FifoState DEF Meeting
  <1>4. CASE Exit(p)
    <2>1. interrupts = MaxInterrupts /\ p = 1 /\ life[main] = "alive" /\ pc[main] = "read" => sent[1] = Messages
      <3>1. fds[main] = {Reads(1)} => Connected(1, "read")
        BY FifoState DEF Connected, Holds, Reads
      <3>2. CASE sent[p] = Messages
        BY <3>2
      <3>3. CASE ~Connected(f, "read")
        BY <1>2, <1>3, <3>1, <3>3
      <3>4. CASE Write(p, f)
        <4>1. pc' = pc /\ pc' = [pc EXCEPT ![p] = "ended"] /\ DOMAIN pc = Proc
          BY <1>4, <3>4, FifoState DEF Write, Exit, Exits, Goto
        <4> QED
          BY <1>1, <4>1
      <3> QED
        BY <1>1, <3>2, <3>3, <3>4
    <2> QED
      BY <1>1, <1>3, <1>4, <2>1, FifoEnds
  <1>5. CASE Write(p, f)
    <2>1. Flow'
      BY <1>1, <1>5, HolderWrites DEF StreamInv
    <2>2. /\ pipe'[2] = pipe[2]
          /\ \A q \in Proc \ {p} : sent'[q] = sent[q]
          /\ UNCHANGED <<program, pc, life, fds, got, eof, pending, interrupts, file, made>>
      BY <1>2, <1>5 DEF Write, process, bounds, name, StreamInv, Flow, StreamTypes, Pipe
    <2>3. OnePipe'
      BY <2>2 DEF StreamInv, OnePipe
    <2>4. interrupts = MaxInterrupts /\ life[main] = "alive" => Meeting'
      <3> SUFFICES ASSUME interrupts = MaxInterrupts, life[main] = "alive" PROVE Meeting'
        OBVIOUS
      <3>1. Meeting
        BY FifoState
      <3>2. CASE p = 1
        BY <1>1, <2>2, <3>1, <3>2 DEF Meeting
      <3>3. CASE p # 1
        <4>1. sent'[1] = sent[1]
          BY <2>2, <3>3, FifoState
        <4> QED
          BY <2>2, <3>1, <4>1 DEF Meeting
      <3> QED
        BY <3>2, <3>3
    <2>5. FifoInv'
      BY <2>2, <2>4 DEF StreamInv, FifoInv
    <2>6. LeftInv' /\ Apart'
      BY <2>2 DEF LeftInv, Apart
    <2> QED
      BY <2>1, <2>3, <2>5, <2>6 DEF StreamInv
  <1> QED
    BY <1>1, <1>4, <1>5

\* The reader reads a message, or sees the end of the file.
LEMMA ReaderFlows ==
    ASSUME FamilyInv, StreamInv, program = "fifo", ReadsMessage \/ ReadsEof
    PROVE  StreamInv'
  <1>1. PICK f \in Pipe :
          /\ life[main] = "alive" /\ pc[main] = "read" /\ Holds(main, f, "read")
          /\ \/ ReadsMessage /\ Read(f)
             \/ ReadsEof /\ AtEof(f)
    BY FifoState DEF ReadsMessage, ReadsEof, InFifo, At
  <1>2. f = 1
    <2>1. Reads(f) \in {Reads(1), Writes(1)}
      BY <1>1, FifoState DEF Holds, Reads
    <2> QED
      BY <2>1 DEF Reads, Writes, End
  <1>3. ~(interrupts = MaxInterrupts /\ eof)
    BY <1>1, FifoState
  <1>4. interrupts = MaxInterrupts => Meeting
    BY <1>1, FifoState
  <1>5. CASE Read(f)
    <2>1. Flow'
      BY <1>5, FlowReads DEF StreamInv
    <2>2. /\ pipe'[2] = pipe[2]
          /\ UNCHANGED <<program, pc, life, fds, sent, eof, pending, interrupts, file, made>>
      BY <1>2, <1>5 DEF Read, process, bounds, name, StreamInv, Flow, StreamTypes, Pipe
    <2>3. OnePipe'
      BY <2>2 DEF StreamInv, OnePipe
    <2>4. interrupts = MaxInterrupts /\ life[main] = "alive" => Meeting'
      BY <1>4, <2>2 DEF Meeting
    <2>5. FifoInv'
      BY <1>3, <2>2, <2>4 DEF StreamInv, FifoInv
    <2>6. LeftInv' /\ Apart'
      BY <2>2 DEF LeftInv, Apart
    <2> QED
      BY <2>1, <2>3, <2>5, <2>6 DEF StreamInv
  <1>6. CASE ReadsEof /\ AtEof(f)
    <2>1. /\ pc' = [pc EXCEPT ![main] = "close"] /\ eof' = TRUE
          /\ UNCHANGED <<program, life, fds, pipe, sent, got, pending, interrupts, file, made>>
      BY <1>6, FifoState DEF ReadsEof, Goto, process, bounds, name
    <2>2. pc'[main] = "close" /\ DOMAIN fds' = Proc /\ file' \in {0, 1} /\ main # 1
      BY <2>1, FifoState
    <2>3. interrupts = MaxInterrupts => Numbers(got, 1) = 1 .. Messages
      <3> SUFFICES ASSUME interrupts = MaxInterrupts PROVE Numbers(got, 1) = 1 .. Messages
        OBVIOUS
      <3>1. pipe[1] = <<>> /\ pipe[2] = <<>> /\ Writes(1) \notin fds[1]
        BY <1>2, <1>6, FifoState DEF AtEof, Connected, Holds, Writes
      <3>2. sent[1] = Messages
        BY <1>1, <1>4, <3>1 DEF Meeting
      <3> QED
        BY <3>1, <3>2, AllRead, FifoState DEF StreamInv
    <2>4. interrupts = MaxInterrupts /\ life'[main] = "alive" => Meeting'
      BY <2>2 DEF Meeting
    <2>5. pc[main] \notin Writing
      BY <1>1 DEF Writing
    <2> QED
      BY <2>1, <2>2, <2>3, <2>4, <2>5, FifoGoesOn
  <1> QED
    BY <1>1, <1>5, <1>6

\* The end of the reader's program.
LEMMA CleanupFlows ==
    ASSUME FamilyInv, StreamInv, program = "fifo", CloseReadEnd \/ WaitWriter \/ Unlink
    PROVE  StreamInv'
  <1>1. reader = main /\ main # 1 /\ main \in Proc /\ DOMAIN fds = Proc /\ DOMAIN life = Proc
    BY FifoState DEF FamilyInv, Types
  <1>2. \E label \in {"wait", "unlink", "return"} :
          /\ pc' = [pc EXCEPT ![main] = label] /\ pc[main] \in {"close", "wait", "unlink"}
          /\ UNCHANGED <<program, pipe, sent, got, eof, pending, interrupts>>
          /\ fds' = fds \/ fds' = [fds EXCEPT ![main] = {}]
          /\ life' = life \/ (life[1] = "zombie" /\ life' = [life EXCEPT ![1] = "gone"])
          /\ file' \in {file, 0}
    <2>1. CASE CloseReadEnd
      BY <1>1, <2>1 DEF CloseReadEnd, After, InFifo, At, Goto, process, bounds, name
    <2>2. CASE WaitWriter
      BY <1>1, <2>2 DEF WaitWriter, Wait, InFifo, At, Goto, stream, bounds, name
    <2>3. CASE Unlink
      BY <1>1, <2>3 DEF Unlink, InFifo, At, Goto, process, stream, bounds
    <2> QED
      BY <2>1, <2>2, <2>3
  <1>3. PICK label \in {"wait", "unlink", "return"} :
          /\ pc' = [pc EXCEPT ![main] = label] /\ pc[main] \in {"close", "wait", "unlink"}
          /\ UNCHANGED <<program, pipe, sent, got, eof, pending, interrupts>>
          /\ fds' = fds \/ fds' = [fds EXCEPT ![main] = {}]
          /\ life' = life \/ (life[1] = "zombie" /\ life' = [life EXCEPT ![1] = "gone"])
          /\ file' \in {file, 0}
    BY <1>2
  <1>4. pc'[main] = label /\ file' \in {0, 1} /\ pc[main] \notin Writing
    BY <1>3, FifoState DEF Writing
  <1>5. /\ DOMAIN fds' = Proc /\ \A q \in Proc : fds'[q] \subseteq fds[q]
        /\ \A q \in Proc : life'[q] = life[q] \/ (life[q] = "zombie" /\ life'[q] = "gone")
    BY <1>1, <1>3
  <1>6. interrupts = MaxInterrupts /\ life'[main] = "alive" => Meeting'
    BY <1>4 DEF Meeting
  <1>7. interrupts = MaxInterrupts /\ eof => Numbers(got, 1) = 1 .. Messages
    BY FifoState
  <1> QED
    BY <1>1, <1>3, <1>4, <1>5, <1>6, <1>7, FifoGoesOn
LEMMA WriterEnds ==
    ASSUME FamilyInv, StreamInv, program = "fifo", NEW p \in Proc, WriterExits(p)
    PROVE  StreamInv'
  <1>1. life[p] = "alive" /\ pc[p] = "exit" /\ Exit(p)
    BY DEF WriterExits, InFifo, At
  <1>2. interrupts = MaxInterrupts /\ p = 1 /\ life[main] = "alive"
           => pc[main] # "read"
    BY <1>1, FifoState DEF Meeting
  <1> QED
    BY <1>1, <1>2, FifoEnds

\* A call on the FIFO fails.
LEMMA FifoFails ==
    ASSUME FamilyInv, StreamInv, program = "fifo", NEW p \in {main, 1}, NEW label,
           life[p] = "alive", pc' = [pc EXCEPT ![p] = label], label = After(p),
           \/ pc[p] = "open" /\ fds' = fds
           \/ p = main /\ pc[p] = "read" /\ fds' = [fds EXCEPT ![main] = {}],
           UNCHANGED <<program, life, pipe, sent, got, eof, pending, interrupts, file, made>>
    PROVE  StreamInv'
  <1>1. /\ main # 1 /\ main \in Proc /\ 1 \in Proc /\ reader = main
        /\ DOMAIN fds = Proc /\ DOMAIN pc = Proc /\ file' \in {0, 1}
    BY FifoState
  <1>2. label = IF p = 1 THEN "exit" ELSE "wait"
    BY <1>1 DEF After
  <1>3. pc'[p] = label /\ (\A q \in Proc \ {p} : pc'[q] = pc[q]) /\ pc[p] \notin Writing
    BY <1>1 DEF Writing
  <1>4. DOMAIN fds' = Proc /\ \A q \in Proc : fds'[q] \subseteq fds[q]
    BY <1>1
  <1>5. pc[main] \notin {"mkfifo", "stat", "fork writer"}
    <2>1. pc[main] \in {"open", "read"} \/ (p = 1 /\ life[1] # "none")
      BY <1>1
    <2>2. life[main] # "alive" => pc[main] \in {"none", "ended"}
      BY <1>1 DEF FamilyInv, Lives0
    <2> QED
      BY <2>1, <2>2, FifoState
  <1>6. interrupts = MaxInterrupts /\ life'[main] = "alive" => Meeting'
    <2> SUFFICES ASSUME interrupts = MaxInterrupts, life[main] = "alive" PROVE Meeting'
      OBVIOUS
    <2>1. Meeting
      BY FifoState
    <2>2. CASE p = main
      <3>1. pc'[main] = "wait"
        BY <1>1, <1>2, <1>3, <2>2
      <3> QED
        BY <3>1 DEF Meeting
    <2>3. CASE p = 1
      <3>1. pc'[main] = pc[main] /\ pc'[1] = "exit" /\ pc[1] = "open" /\ fds' = fds
        BY <1>1, <1>2, <1>3, <2>3
      <3> QED
        BY <1>5, <2>1, <3>1 DEF Meeting
    <2> QED
      BY <2>2, <2>3
  <1>7. interrupts = MaxInterrupts /\ eof =>
            /\ Numbers(got, 1) = 1 .. Messages
            /\ pc'[main] \in {"close", "wait", "unlink", "return", "ended"}
    <2>1. interrupts = MaxInterrupts /\ eof =>
            /\ Numbers(got, 1) = 1 .. Messages
            /\ pc[main] \in {"close", "wait", "unlink", "return", "ended"}
      BY FifoState
    <2>2. pc'[main] = pc[main] \/ pc'[main] = "wait"
      BY <1>1, <1>2, <1>3
    <2> QED
      BY <2>1, <2>2
  <1> HIDE DEF Meeting
  <1> QED
    BY <1>1, <1>2, <1>3, <1>4, <1>5, <1>6, <1>7, FifoGoesOn

\* In several terminals: nothing is written or read.
LEMMA ApartRests ==
    ASSUME StreamInv, program = "fifo apart", UNCHANGED <<program, sent, pipe, got, interrupts>>,
           DOMAIN fds' = Proc, DOMAIN pending' = Proc, pc'[main] # "fork writer",
           \A q \in Proc : pc[q] \in Writing => pc'[q] \in Writing,
           \A q \in Proc : \/ fds'[q] \subseteq fds[q]
                           \/ pc[q] \notin Writing /\ \E end : fds'[q] = {end}
    PROVE  StreamInv'
  <1>1. Flow /\ interrupts' \in Int /\ interrupts' <= MaxInterrupts
    BY DEF StreamInv, Flow, StreamTypes
  <1>2. \A f, g : Writes(f) = Writes(g) => f = g
    BY DEF Writes, End
  <1>3. \A q \in Proc :
           \/ fds'[q] \subseteq fds[q]
           \/ /\ pc[q] \notin Writing
              /\ \A f, g \in Pipe : Writes(f) \in fds'[q] /\ Writes(g) \in fds'[q] => f = g
    BY <1>2
  <1>4. Flow'
    BY <1>1, <1>3, FlowRests
  <1> QED
    BY <1>4 DEF StreamInv, OnePipe, LeftInv, FifoInv, Apart

LEMMA ApartGoesOn ==
    ASSUME FamilyInv, StreamInv, program = "fifo apart", NEW p \in Proc, NEW label,
           pc' = [pc EXCEPT ![p] = label], pc[p] \notin Writing, label # "fork writer",
           UNCHANGED <<program, sent, pipe, got, pending, interrupts>>,
           DOMAIN fds' = Proc, \A q \in Proc : fds'[q] \subseteq fds[q]
    PROVE  StreamInv'
  <1>1. pc'[p] = label /\ \A q \in Proc \ {p} : pc'[q] = pc[q]
    BY DEF FamilyInv, Types
  <1>2. pc'[main] # "fork writer"
    BY <1>1, Names DEF StreamInv, Apart
  <1>3. DOMAIN pending' = Proc /\ \A q \in Proc : pc[q] \in Writing => pc'[q] \in Writing
    BY <1>1 DEF StreamInv, Flow, StreamTypes
  <1> QED
    BY <1>2, <1>3, ApartRests

LEMMA ApartFlows ==
    ASSUME FamilyInv, StreamInv, program = "fifo apart", NEW p \in Proc, FifoStep(p)
    PROVE  StreamInv'
  <1>0. /\ main \in Proc /\ reader = main /\ DOMAIN fds = Proc /\ DOMAIN pc = Proc
        /\ DOMAIN pending = Proc /\ pc[main] # "fork writer"
    BY Names DEF reader, FamilyInv, Types, StreamInv, Flow, StreamTypes, Apart
  <1>1. ASSUME NEW q \in Proc, life[q] = "alive", Exit(q) PROVE StreamInv'
    BY <1>1, FifoEnds
  <1>2. CASE Open(p)
    <2>1. /\ program \in {"fifo", "fifo apart"} /\ life[p] = "alive" /\ pc[p] = "open"
          /\ UNCHANGED <<program, pipe, sent, got, pending, interrupts>>
      BY <1>2 DEF Open, InFifo, At, bounds
    <2>2. /\ DOMAIN fds' = Proc
          /\ fds'[p] = fds[p] \/ \E end : fds'[p] = {end}
          /\ \A q \in Proc \ {p} : fds'[q] = fds[q]
      BY <1>0, <1>2 DEF Open
    <2>3. /\ pc'[p] \in {"exit", "unlink", "opening", "read", "write"}
          /\ \A q \in Proc \ {p} : pc'[q] = pc[q] \/ (pc[q] = "opening" /\ pc'[q] \in {"read", "write"})
      <3>1. After(p) \in {"exit", "unlink"} /\ \A q \in Proc : Opened(q) \in {"read", "write"}
        BY <2>1 DEF After, Opened
      <3>2. CASE file = 0
        <4>1. pc' = [pc EXCEPT ![p] = After(p)]
          BY <1>2, <3>2 DEF Open, Goto
        <4> QED
          BY <1>0, <3>1, <4>1
      <3>3. CASE file # 0
        <4>1. pc' = [q \in Proc |->
                  CASE q = p -> IF Connected(file, OtherEnd(EndOf(p))) THEN Opened(p) ELSE "opening"
                    [] q # p /\ pc[q] = "opening" /\ Holds(q, file, OtherEnd(EndOf(p))) -> Opened(q)
                    [] OTHER -> pc[q]]
          BY <1>2, <3>3 DEF Open
        <4>2. pc'[p] \in {Opened(p), "opening"}
          BY <4>1
        <4>3. ASSUME NEW q \in Proc, q # p
              PROVE  pc'[q] = pc[q] \/ (pc[q] = "opening" /\ pc'[q] = Opened(q))
          BY <4>1, <4>3
        <4> QED
          BY <3>1, <4>2, <4>3
      <3> QED
        BY <3>2, <3>3
    <2>4. /\ \A q \in Proc : pc[q] \in Writing => pc'[q] \in Writing
          /\ pc'[main] # "fork writer" /\ pc[p] \notin Writing
      BY <1>0, <2>1, <2>3 DEF Writing
    <2> QED
      BY <1>0, <2>1, <2>2, <2>4, ApartRests
  <1>3. CASE MakeFifo(p) \/ Stat(p)
    <2>1. \/ Exit(p) /\ life[p] = "alive"
          \/ \E label \in {"stat", "open"} :
                /\ pc' = [pc EXCEPT ![p] = label] /\ pc[p] \in {"mkfifo", "stat"}
                /\ UNCHANGED <<program, fds, pipe, sent, got, pending, interrupts>>
      BY <1>3 DEF MakeFifo, Stat, InFifo, At, Goto, stream, bounds
    <2> QED
      BY <1>0, <1>1, <2>1, ApartGoesOn DEF Writing
  <1>4. CASE WriterStep(p)
    <2>1. PICK f \in Pipe : /\ life[p] = "alive" /\ pc[p] = "write" /\ Holds(p, f, "write")
                            /\ Exit(p) \/ Write(p, f)
      BY <1>4 DEF WriterStep, BrokenPipe, InFifo, At
    <2>2. CASE Write(p, f)
      <3>1. Flow'
        BY <2>1, <2>2, HolderWrites DEF StreamInv
      <3> QED
        BY <2>2, <3>1 DEF Write, StreamInv, OnePipe, LeftInv, FifoInv, Apart
    <2> QED
      BY <1>1, <2>1, <2>2
  <1>5. CASE WriterExits(p)
    BY <1>1, <1>5 DEF WriterExits, InFifo, At
  <1>6. CASE ReadsMessage
    <2>1. PICK f \in Pipe : Read(f)
      BY <1>6 DEF ReadsMessage
    <2>2. Flow'
      BY <2>1, FlowReads DEF StreamInv
    <2> QED
      BY <2>1, <2>2 DEF Read, StreamInv, OnePipe, LeftInv, FifoInv, Apart
  <1>7. CASE ReadsEof \/ CloseReadEnd \/ WaitWriter \/ Unlink
    <2>1. \E label \in {"close", "unlink", "return"} :
            /\ pc' = [pc EXCEPT ![main] = label] /\ pc[main] \in {"read", "close", "wait", "unlink"}
            /\ UNCHANGED <<program, pipe, sent, got, pending, interrupts>>
            /\ fds' = fds \/ fds' = [fds EXCEPT ![main] = {}]
      <3>1. CASE ReadsEof
        BY <1>0, <3>1 DEF ReadsEof, InFifo, At, Goto, bounds
      <3>2. CASE CloseReadEnd
        BY <1>0, <3>2 DEF CloseReadEnd, After, InFifo, At, Goto, bounds
      <3>3. CASE WaitWriter
        BY <3>3 DEF WaitWriter, Wait, InFifo, At, Goto, stream, bounds
      <3>4. CASE Unlink
        BY <3>4 DEF Unlink, InFifo, At, Goto, stream, bounds
      <3> QED
        BY <1>7, <3>1, <3>2, <3>3, <3>4
    <2>2. PICK label \in {"close", "unlink", "return"} :
            /\ pc' = [pc EXCEPT ![main] = label] /\ pc[main] \in {"read", "close", "wait", "unlink"}
            /\ UNCHANGED <<program, pipe, sent, got, pending, interrupts>>
            /\ fds' = fds \/ fds' = [fds EXCEPT ![main] = {}]
      BY <2>1
    <2>3. DOMAIN fds' = Proc /\ \A q \in Proc : fds'[q] \subseteq fds[q]
      BY <1>0, <2>2
    <2> QED
      BY <1>0, <2>2, <2>3, ApartGoesOn DEF Writing
  <1>8. ~ForkWriter
    BY <1>0 DEF ForkWriter, InFifo, At
  <1> QED
    BY <1>2, <1>3, <1>4, <1>5, <1>6, <1>7, <1>8 DEF FifoStep

LEMMA FifoFlows == ASSUME FamilyInv, StreamInv, NEW p \in Proc, FifoStep(p) PROVE StreamInv'
  <1>1. program \in {"fifo", "fifo apart"}
    BY DEF FifoStep, MakeFifo, Stat, Open, WriterStep, WriterExits, ForkWriter, ReadsMessage, ReadsEof,
           CloseReadEnd, WaitWriter, Unlink, InFifo
  <1>2. CASE program = "fifo"
    BY <1>2, MakeFlows, StatFlows, OpenFlows, WriterFlows, WriterEnds, ForkFlows, ReaderFlows,
       CleanupFlows DEF FifoStep
  <1> QED
    BY <1>1, <1>2, ApartFlows

LEMMA FifoFaultFlows == ASSUME FamilyInv, StreamInv, FifoFault PROVE StreamInv'
  <1>1. main \in Proc /\ main # 1 /\ reader = main
    BY Names DEF reader, first
  <1>2. ASSUME NEW p \in Proc, life[p] = "alive", Exits(p, pending), interrupts' = interrupts,
               pc[p] \in {"mkfifo", "stat", "fork writer"}
        PROVE  StreamInv'
    <2>1. program = "fifo" => p # 1
      BY <1>2, FifoState
    <2> QED
      BY <1>2, <2>1, EndFlows
  <1>3. CASE ForkWriterFails
    BY <1>1, <1>2, <1>3 DEF ForkWriterFails, InFifo, At, Fails
  <1>4. ASSUME NEW p \in Proc, NoFifo(p) PROVE StreamInv'
    BY <1>2, <1>4 DEF NoFifo, InFifo, At, Fails
  <1>5. ASSUME NEW p \in Proc, OpenFails(p) \/ (p = main /\ FdopenFails) PROVE StreamInv'
    <2>1. /\ program \in {"fifo", "fifo apart"} /\ life[p] = "alive"
          /\ pc' = [pc EXCEPT ![p] = After(p)]
          /\ \/ pc[p] = "open" /\ fds' = fds
             \/ p = main /\ pc[p] = "read" /\ fds' = [fds EXCEPT ![main] = {}]
          /\ UNCHANGED <<program, life, pipe, sent, got, eof, pending, interrupts, file, made>>
      <3>1. CASE OpenFails(p)
        BY <3>1 DEF OpenFails, InFifo, At, Fails, Goto, process, stream, name
      <3>2. CASE p = main /\ FdopenFails
        BY <1>1, <3>2 DEF FdopenFails, InFifo, At, Fails, Goto, process, name
      <3> QED
        BY <1>5, <3>1, <3>2
    <2>2. CASE program = "fifo"
      <3>1. p \in {main, 1}
        BY <2>1, <2>2, FifoState
      <3> QED
        BY <2>1, <2>2, <3>1, FifoFails
    <2>3. CASE program = "fifo apart"
      <3>1. /\ After(p) # "fork writer" /\ pc[p] \notin Writing
            /\ DOMAIN fds' = Proc /\ \A q \in Proc : fds'[q] \subseteq fds[q]
        BY <2>1, <2>3 DEF After, Writing, StreamInv, Flow, StreamTypes
      <3> QED
        BY <2>1, <2>3, <3>1, ApartGoesOn
    <2> QED
      BY <2>1, <2>2, <2>3
  <1> QED
    BY <1>1, <1>3, <1>4, <1>5 DEF FifoFault

----------------------------------------------------------------------------
(* The streams are kept, and what follows.                                 *)

LEMMA InitialStream == Init => StreamInv
  <1> SUFFICES ASSUME Init PROVE StreamInv
    OBVIOUS
  <1>1. /\ program \in Programs /\ main \in Proc /\ 1 \in Proc /\ first \in Proc /\ second \in Proc
        /\ main # 1 /\ main # first /\ main # second /\ first = 1
    BY Names DEF Init
  <1>2. /\ fds = [p \in Proc |-> {}] /\ pipe = [f \in Pipe |-> <<>>]
        /\ sent = [p \in Proc |-> 0] /\ got = <<>> /\ eof = FALSE
        /\ pending = [p \in Proc |-> {}] /\ interrupts = MaxInterrupts /\ file = 0 /\ made = 0
    BY DEF Init
  <1>3. /\ \A p \in Proc \ {main} :
              program # "fifo apart" => life[p] = "none" /\ pc[p] = "none"
        /\ \A p \in Proc : life[p] # "stopped"
        /\ pc[main] \in {"pipe", "fork", "mkfifo"}
        /\ program = "fifo" => pc[main] = "mkfifo"
        /\ program = "pipeline" => pc[main] = "pipe"
    <2> DEFINE started == IF program = "fifo apart" THEN {0, 1, 2} ELSE {main}
               label   == CASE program = "pipeline" -> "pipe"
                            [] program = "jobctl"   -> "fork"
                            [] OTHER                -> "mkfifo"
    <2>1. /\ pc = [p \in Proc |-> IF p \in started THEN label ELSE "none"]
          /\ life = [p \in Proc |-> IF p \in started THEN "alive" ELSE "none"]
      BY DEF Init
    <2>2. /\ main \in started
          /\ \A p \in Proc \ {main} : program # "fifo apart" => p \notin started
      BY DEF main
    <2>3. /\ label \in {"pipe", "fork", "mkfifo"}
          /\ program = "fifo" => label = "mkfifo"
          /\ program = "pipeline" => label = "pipe"
      OBVIOUS
    <2> HIDE DEF started, label
    <2> QED
      BY <1>1, <2>1, <2>2, <2>3
  <1>4. MaxInterrupts \in Nat
    BY UnixAssumption
  <1>5. StreamTypes
    BY <1>2, <1>4 DEF StreamTypes
  <1>6. Ordered
    BY <1>2 DEF Ordered, InOrder
  <1>7. Sound
    <2> SUFFICES ASSUME NEW p \in Proc
                 PROVE  \E n \in 0 .. sent[p] :
                           /\ Numbers(got, p) = 1 .. n
                           /\ UNION {Numbers(pipe[f], p) : f \in Pipe} = n + 1 .. sent[p]
      BY DEF Sound
    <2>1. \A f \in Pipe : Numbers(pipe[f], p) = {}
      BY <1>2, NumbersOfNone
    <2>2. UNION {Numbers(pipe[f], p) : f \in Pipe} = {}
      BY <2>1
    <2>3. 1 .. 0 = {} /\ 0 + 1 .. 0 = {} /\ 0 \in 0 .. 0 /\ sent[p] = 0
      BY <1>2
    <2>4. Numbers(got, p) = {}
      BY <1>2, NumbersOfNone
    <2> QED
      BY <2>2, <2>3, <2>4
  <1>8. Unsent /\ OneEnd
    BY <1>2 DEF Unsent, OneEnd, Holds
  <1>9. Lane
    BY <1>2, NumbersOfNone DEF Lane, Holds
  <1>10. OnePipe
    <2>1. pipe[2] = <<>> /\ \A p \in Proc : fds[p] = {}
      BY <1>2 DEF Pipe
    <2> QED
      BY <1>3, <2>1 DEF OnePipe
  <1>11. LeftInv
    BY <1>1, <1>2, <1>3 DEF LeftInv
  <1>12. FifoInv
    BY <1>1, <1>2, <1>3 DEF FifoInv, Meeting
  <1>13. Apart
    BY <1>3 DEF Apart
  <1> QED
    BY <1>5, <1>6, <1>7, <1>8, <1>9, <1>10, <1>11, <1>12, <1>13 DEF StreamInv, Flow

\* Ctrl+C is pressed.
LEMMA InterruptFlows == ASSUME FamilyInv, StreamInv, NEW p \in Proc, Interrupt(p) PROVE StreamInv'
  <1>1. /\ interrupts > 0 /\ interrupts' = interrupts - 1 /\ DOMAIN pending' = Proc
        /\ UNCHANGED <<program, pc, life, fds, pipe, sent, got, eof, file, made>>
    BY DEF Interrupt, Sent, process, stream, name
  <1>2. Flow /\ interrupts \in Int /\ interrupts <= MaxInterrupts /\ MaxInterrupts \in Nat
    BY UnixAssumption DEF StreamInv, Flow, StreamTypes
  <1>3. interrupts' \in Int /\ interrupts' < MaxInterrupts
    BY <1>1, <1>2
  <1>4. Flow'
    <2>1. DOMAIN fds' = Proc /\ interrupts' <= MaxInterrupts
      BY <1>1, <1>2, <1>3 DEF StreamInv, Flow, StreamTypes
    <2> QED
      BY <1>1, <1>2, <1>3, <2>1, FlowRests
  <1>5. interrupts' # MaxInterrupts
    BY <1>2, <1>3
  <1>6. FifoInv'
    BY <1>1, <1>5 DEF StreamInv, FifoInv
  <1>7. OnePipe' /\ LeftInv' /\ Apart'
    BY <1>1 DEF StreamInv, OnePipe, LeftInv, Apart
  <1> QED
    BY <1>4, <1>6, <1>7 DEF StreamInv

LEMMA StreamKept == FamilyInv /\ StreamInv /\ [Next]_vars => StreamInv'
  <1> SUFFICES ASSUME FamilyInv, StreamInv, [Next]_vars PROVE StreamInv'
    OBVIOUS
  <1>1. ASSUME NEW p \in Proc, Step(p) PROVE StreamInv'
    <2>1. CASE Return
      BY <2>1, FifoEnds, Names DEF Return, At, first
    <2>2. ASSUME NEW s \in Signals, Deliver(p, s) PROVE StreamInv'
      <3>1. life[p] = "alive" /\ s \in pending[p] /\ interrupts' = interrupts
        BY <2>2 DEF Deliver, bounds
      <3>2. PICK signals : Exits(p, signals) /\ (program # "jobctl" => signals = pending)
        BY <2>2 DEF Deliver, Forwards
      <3>3. program = "fifo" => interrupts # MaxInterrupts
        BY <3>1 DEF StreamInv, FifoInv
      <3> QED
        BY <3>1, <3>2, <3>3, EndFlows
    <2> QED
      BY <1>1, <2>1, <2>2, PipelineFlows, FifoFlows, JobFlows DEF Step, Signals
  <1>2. CASE Fault
    BY <1>2, PipelineFaultFlows, FifoFaultFlows, JobFaultFlows, InterruptFlows DEF Fault
  <1>3. CASE Rest \/ UNCHANGED vars
    <2>1. UNCHANGED <<program, pc, life, fds, pipe, sent, got, eof, pending, interrupts, file, made>>
      BY <1>3 DEF Rest, vars, process, stream, bounds, name
    <2>2. Flow'
      BY <2>1 DEF StreamInv, Flow, StreamTypes, Ordered, Sound, Unsent, OneEnd, Lane, Holds
    <2>3. OnePipe' /\ LeftInv' /\ Apart'
      BY <2>1 DEF StreamInv, OnePipe, LeftInv, Apart
    <2>4. FifoInv'
      BY <2>1 DEF StreamInv, FifoInv, Meeting
    <2> QED
      BY <2>2, <2>3, <2>4 DEF StreamInv
  <1> QED
    BY <1>1, <1>2, <1>3 DEF Next

(* Nothing that is written to a pipe is lost, doubled or overtaken, and    *)
(* the end of the file is seen only when everything has been read: the     *)
(* left command of the pipeline has ended by then, and the writer of the   *)
(* FIFO, if nobody interrupted it, has written all its messages.           *)
THEOREM StreamsArrive == Spec => []StreamArrives
  <1>1. Init => FamilyInv /\ StreamInv
    BY Initial, InitialStream
  <1>2. (FamilyInv /\ StreamInv) /\ [Next]_vars => (FamilyInv /\ StreamInv)'
    BY FamilyKept, StreamKept
  <1>3. FamilyInv /\ StreamInv => StreamArrives
    <2> SUFFICES ASSUME FamilyInv, StreamInv PROVE StreamArrives
      OBVIOUS
    <2>1. InOrder(got) /\ \A f \in Pipe : InOrder(pipe[f])
      BY DEF StreamInv, Flow, Ordered
    <2>2. \A p \in Proc : \E n \in 0 .. sent[p] :
             /\ Numbers(got, p) = 1 .. n
             /\ UNION {Numbers(pipe[f], p) : f \in Pipe} = n + 1 .. sent[p]
      BY DEF StreamInv, Flow, Sound
    <2>3. eof /\ program = "pipeline" => life[first] # "alive" /\ Numbers(got, first) = 1 .. sent[first]
      BY DEF StreamInv, LeftInv
    <2>4. eof /\ program = "fifo" /\ interrupts = MaxInterrupts => Numbers(got, 1) = 1 .. Messages
      BY DEF StreamInv, FifoInv
    <2> QED
      BY <2>1, <2>2, <2>3, <2>4 DEF StreamArrives
  <1> QED
    BY <1>1, <1>2, <1>3, PTL DEF Spec
=============================================================================
