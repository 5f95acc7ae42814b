-------------------------- MODULE ThreadSyncProofs --------------------------
(***************************************************************************)
(* For any sizes of the tour: the order of locking decides whether the two *)
(* transfers give up; items leave the buffer in order, and nobody sleeps   *)
(* on it forgotten; what the parts report about their counters and rooms   *)
(* is true.                                                                *)
(***************************************************************************)
EXTENDS ThreadSync, FiniteSetTheorems, SequenceTheorems, TLAPS

opposite == 7    \* the steps of the tour
same     == 8
Transferring == step \in {opposite, same}
Pair         == {1, 2}

TransferLabels == {"first", "meet", "second", "both", "meet again", "release"}
Label == TransferLabels \cup
    {"set", "load", "store", "lock", "unlock", "add", "line", "waiting", "enter", "count", "look",
     "raise", "inside", "leave", "write", "unlock table", "done"}

Types ==
    /\ step \in 0 .. 10 /\ created \in Nat /\ (Transferring => created <= 2)
    /\ pc \in [Thread -> Label] /\ owner \in [Lock -> Nat]
    /\ outcome \in [{"opposite", "same"} -> [Pair -> {"none", "got", "gave up"}]]

\* Outside of part 5 its locks are free and nobody is in its code.
Elsewhere ==
    ~Transferring => /\ owner["A"] = Nobody /\ owner["B"] = Nobody
                     /\ \A t \in Thread : pc[t] \notin TransferLabels

Mine(t) == owner[IF t = 1 THEN "A" ELSE "B"]

\* With opposite orders: both take their first lock; each holds it while both
\* try the second; both release.
Taking ==
    /\ ~(pc[1] = "waiting" /\ pc[2] = "waiting")
    /\ \A t \in Pair :
          /\ pc[t] \in {"first", "meet", "waiting"}
          /\ Mine(t) = IF pc[t] = "first" THEN Nobody ELSE t
          /\ outcome["opposite"][t] = "none"

Trying ==
    /\ ~(pc[1] = "waiting" /\ pc[2] = "waiting")
    /\ \A t \in Pair :
          /\ pc[t] \in {"second", "meet again", "waiting"}
          /\ Mine(t) = t
          /\ outcome["opposite"][t] = IF pc[t] = "second" THEN "none" ELSE "gave up"

Releasing ==
    \A t \in Pair :
        /\ pc[t] \in {"release", "done"}
        /\ Mine(t) = IF pc[t] = "release" THEN t ELSE Nobody
        /\ outcome["opposite"][t] = "gave up"

Opposite == step = opposite => Taking \/ Trying \/ Releasing

\* With the same order the first lock protects the second.
Same ==
    step = same =>
        /\ owner["A"] \in {0, 1, 2} /\ owner["B"] \in {0, 1, 2}
        /\ \A t \in Pair :
              /\ pc[t] \in {"first", "second", "both", "release", "done"}
              /\ pc[t] \in {"second", "both", "release"} <=> owner["A"] = t
              /\ pc[t] = "both" <=> owner["B"] = t
              /\ outcome["same"][t] = IF pc[t] \in {"first", "second"} THEN "none" ELSE "got"

\* What the two parts have reported by a step of the tour.
Reported(n, opp, sam) ==
    /\ n \in 1 .. 6 => opp = "none"
    /\ n \in 1 .. 7 => sam = "none"
    /\ opp # "got" /\ sam # "gave up"
    /\ n > opposite => opp = "gave up"
    /\ n > same => sam = "got"

Reports == \A t \in Pair : Reported(step, outcome["opposite"][t], outcome["same"][t])

Inv == Types /\ Elsewhere /\ Opposite /\ Same /\ Reports

----------------------------------------------------------------------------
(* The tour.                                                               *)

LEMMA TourFacts ==
    /\ DOMAIN Tour = 1 .. 9 /\ Tour[opposite] = "opposite" /\ Tour[same] = "same"
    /\ Tour[1] = "share" /\ Tour[2] = "unsafe" /\ Tour[3] = "locked" /\ Tour[4] = "atomic"
    /\ Tour[5] = "buffer" /\ Tour[6] = "semaphore" /\ Tour[9] = "table"
  BY DEF Tour, opposite, same

LEMMA PartFacts ==
    /\ Size("opposite") = 2 /\ Size("same") = 2
    /\ Checked("opposite") = 0 /\ Checked("same") = 0
    /\ Entry("opposite") = "first" /\ Entry("same") = "first"
    /\ \A p \in {Tour[i] : i \in DOMAIN Tour} \ {"opposite", "same"} :
          Entry(p) \notin TransferLabels /\ Entry(p) \in Label
  <1>1. /\ Size("opposite") = 2 /\ Size("same") = 2
        /\ Checked("opposite") = 0 /\ Checked("same") = 0
        /\ Entry("opposite") = "first" /\ Entry("same") = "first"
    BY DEF Size, Checked, Entry
  <1>2. ASSUME NEW p \in {"share", "unsafe", "locked", "atomic", "buffer", "semaphore", "table"}
        PROVE  Entry(p) \notin TransferLabels /\ Entry(p) \in Label
    BY <1>2 DEF Entry, TransferLabels, Label
  <1>3. {Tour[i] : i \in DOMAIN Tour} \ {"opposite", "same"}
            \subseteq {"share", "unsafe", "locked", "atomic", "buffer", "semaphore", "table"}
    BY TourFacts DEF opposite, same
  <1> QED
    BY <1>1, <1>2, <1>3

LEMMA Greatest ==
    ASSUME NEW a \in Nat, NEW b \in Nat, NEW c \in Nat, NEW d \in Nat
    PROVE  \E n \in {a, b, c, d, 2} : n >= a /\ n >= b /\ n >= c /\ n >= d /\ n >= 2
  OBVIOUS

\* There are threads for every part.
LEMMA PartRuns ==
    /\ \A i \in DOMAIN Tour : 1 .. Size(Tour[i]) \subseteq Thread
    /\ \E n \in Nat : Thread = 1 .. n
  <1> DEFINE S == {Size(Tour[i]) : i \in DOMAIN Tour}
             n == CHOOSE n \in S : \A i \in DOMAIN Tour : Size(Tour[i]) <= n
  <1>1. /\ Threads \in Nat /\ Consumers + 1 \in Nat /\ Visitors \in Nat /\ Readers + 1 \in Nat
        /\ Threads > 0 /\ Visitors > 0
    BY TourAssumption
  <1>2. S = {1, 2, Threads, Consumers + 1, Visitors, Readers + 1}
    BY TourFacts DEF Size, opposite, same
  <1>3. \A i \in DOMAIN Tour : Size(Tour[i]) \in S
    OBVIOUS
  <1> HIDE DEF S
  <1>4. \E m \in S : \A i \in DOMAIN Tour : Size(Tour[i]) <= m
    <2>1. PICK m \in {Threads, Consumers + 1, Visitors, Readers + 1, 2} :
             m >= Threads /\ m >= Consumers + 1 /\ m >= Visitors /\ m >= Readers + 1 /\ m >= 2
      BY <1>1, Greatest
    <2>2. m \in S /\ \A k \in S : k <= m
      BY <1>1, <1>2, <2>1
    <2> QED
      BY <1>3, <2>2
  <1>5. n \in S /\ \A i \in DOMAIN Tour : Size(Tour[i]) <= n
    BY <1>4
  <1>6. Thread = 1 .. n
    BY DEF Thread, S
  <1> HIDE DEF n
  <1>7. n \in Nat
    BY <1>1, <1>2, <1>5
  <1>8. \A i \in DOMAIN Tour : Size(Tour[i]) \in Nat /\ Size(Tour[i]) <= n
    BY <1>1, <1>2, <1>3, <1>5
  <1> QED
    BY <1>6, <1>7, <1>8

LEMMA PairRuns == Pair \subseteq Thread
  <1>1. opposite \in DOMAIN Tour /\ Size(Tour[opposite]) = 2
    BY TourFacts, PartFacts DEF opposite
  <1> QED
    BY <1>1, PartRuns DEF Pair

\* Who runs in part 5 is one of the two.
LEMMA Runner ==
    ASSUME Inv, NEW t \in Thread, NEW l, At(t, l), Transferring
    PROVE  /\ t \in Pair /\ part = IF step = opposite THEN "opposite" ELSE "same"
           /\ l \in TransferLabels \cup {"waiting", "done"}
  <1>1. t \in Nat /\ t <= created /\ pc[t] = l /\ t > 0
    BY DEF At, Thread
  <1>2. t \in Pair
    <2>1. created \in Nat /\ created <= 2
      BY DEF Inv, Types
    <2> QED
      BY <1>1, <2>1 DEF Pair
  <1>3. pc[t] \in TransferLabels \cup {"waiting", "done"}
    BY <1>2 DEF Inv, Opposite, Same, Taking, Trying, Releasing, Transferring, TransferLabels
  <1> QED
    BY <1>1, <1>2, <1>3, TourFacts DEF part, Transferring

----------------------------------------------------------------------------
(* The invariant.                                                          *)

LEMMA PairIs == 1 .. 2 = Pair
  BY DEF Pair

LEMMA Initial == Init => Inv
  <1> SUFFICES ASSUME Init PROVE Inv
    OBVIOUS
  <1>1. /\ step = 1 /\ created = 0 /\ pc = [t \in Thread |-> "set"]
        /\ owner = [l \in Lock |-> 0]
        /\ outcome = [p \in {"opposite", "same"} |-> [t \in Pair |-> "none"]]
    BY PairIs DEF Init, Entry, Nobody
  <1>2. Types
    <2>1. step \in 0 .. 10 /\ created \in Nat /\ ~Transferring
      BY <1>1 DEF Transferring, opposite, same
    <2>2. pc \in [Thread -> Label] /\ owner \in [Lock -> Nat]
      BY <1>1 DEF Label
    <2>3. outcome \in [{"opposite", "same"} -> [Pair -> {"none", "got", "gave up"}]]
      BY <1>1
    <2> QED
      BY <2>1, <2>2, <2>3, Zenon DEF Types
  <1>3. Elsewhere
    BY <1>1 DEF Elsewhere, Lock, Nobody, TransferLabels
  <1>4. Opposite /\ Same /\ Reports
    BY <1>1 DEF Opposite, Same, Reports, Reported, opposite, same
  <1> QED
    BY <1>2, <1>3, <1>4 DEF Inv

\* A step outside of part 5.
LEMMA ElsewhereStep ==
    ASSUME Inv, ~Transferring, UNCHANGED <<step, created, outcome>>,
           owner' \in [Lock -> Nat], owner'["A"] = owner["A"], owner'["B"] = owner["B"],
           pc' \in [Thread -> Label],
           \A u \in Thread : pc'[u] = pc[u] \/ pc'[u] \notin TransferLabels
    PROVE  Inv'
  <1>1. Types'
    BY DEF Inv, Types, Transferring
  <1>2. Elsewhere'
    BY DEF Inv, Elsewhere, Transferring
  <1>3. Opposite' /\ Same'
    BY DEF Opposite, Same, Transferring
  <1>4. Reports'
    BY DEF Inv, Reports
  <1> QED
    BY <1>1, <1>2, <1>3, <1>4 DEF Inv

\* A step to a label that is not one of part 5.
LEMMA GotoStep ==
    ASSUME Inv, NEW t \in Thread, NEW l \in Label, At(t, l), NEW next \in Label, Goto(t, next),
           {l, next} \cap (TransferLabels \cup {"waiting"}) = {}, l # "done",
           UNCHANGED <<step, created, outcome>>,
           owner' \in [Lock -> Nat], owner'["A"] = owner["A"], owner'["B"] = owner["B"]
    PROVE  Inv'
  <1>1. ~Transferring
    BY Runner
  <1>2. pc' \in [Thread -> Label] /\ \A u \in Thread : pc'[u] = pc[u] \/ pc'[u] \notin TransferLabels
    BY DEF Goto, Inv, Types
  <1> QED
    BY <1>1, <1>2, ElsewhereStep

LEMMA CountingStep ==
    ASSUME Inv, NEW t \in Thread,
           \/ SetShared(t) \/ LockCounter(t) \/ Load(t) \/ Store(t) \/ UnlockCounter(t) \/ AtomicAdd(t)
    PROVE  Inv'
  <1>1. /\ UNCHANGED <<step, created, outcome>>
        /\ owner' \in [Lock -> Nat] /\ owner'["A"] = owner["A"] /\ owner'["B"] = owner["B"]
    <2>1. t \in Nat /\ 0 \in Nat /\ "A" \in Lock /\ "B" \in Lock
      BY DEF Thread, Lock
    <2>2. owner \in [Lock -> Nat]
      BY DEF Inv, Types
    <2> QED
      BY <2>1, <2>2
         DEF SetShared, LockCounter, Load, Store, UnlockCounter, AtomicAdd, local, locks, Nobody
  <1>2. PICK l \in {"set", "lock", "load", "store", "unlock", "add"},
             next \in {"done", "lock", "load", "store", "unlock", "add"} :
                At(t, l) /\ Goto(t, next)
    BY DEF SetShared, LockCounter, Load, Store, UnlockCounter, AtomicAdd, Counted
  <1>3. /\ l \in Label /\ next \in Label /\ l # "done"
        /\ {l, next} \cap (TransferLabels \cup {"waiting"}) = {}
    BY DEF TransferLabels, Label
  <1> QED
    BY <1>1, <1>2, <1>3, GotoStep

LEMMA RoomStep ==
    ASSUME Inv, NEW t \in Thread,
           \/ Enter(t) \/ CountIn(t) \/ Look(t) \/ Raise(t) \/ CountOut(t) \/ Leave(t)
           \/ WriteLock(t) \/ Write(t) \/ WriteUnlock(t)
    PROVE  Inv'
  <1> DEFINE Labels == {"count", "look", "raise", "inside", "leave", "write", "unlock table"}
  <1>1. UNCHANGED <<step, created, outcome, owner>>
    BY DEF Enter, CountIn, Look, Raise, CountOut, Leave, WriteLock, Write, WriteUnlock, local, locks
  <1>2. \/ \E l \in Labels \cup {"enter"}, next \in Labels \cup {"done"} : At(t, l) /\ Goto(t, next)
        \/ At(t, "raise") /\ pc' = pc
    BY DEF Enter, CountIn, Look, Raise, CountOut, Leave, WriteLock, Write, WriteUnlock
  <1>3. CASE At(t, "raise") /\ pc' = pc
    <2>1. "raise" \notin TransferLabels \cup {"waiting", "done"}
      BY DEF TransferLabels
    <2>2. ~Transferring
      BY <1>3, <2>1, Runner
    <2> QED
      BY <1>1, <1>3, <2>2, ElsewhereStep DEF Inv, Types
  <1>4. ASSUME NEW l \in Labels \cup {"enter"}, NEW next \in Labels \cup {"done"},
               At(t, l), Goto(t, next)
        PROVE  Inv'
    <2>1. /\ l \in Label /\ next \in Label /\ l # "done"
          /\ {l, next} \cap (TransferLabels \cup {"waiting"}) = {}
      BY DEF TransferLabels, Label
    <2> QED
      BY <1>1, <1>4, <2>1, GotoStep DEF Inv, Types
  <1> QED
    BY <1>2, <1>3, <1>4

LEMMA BufferSteps ==
    ASSUME Inv, SpuriousWakeup \/ \E t \in Thread : BufferStep(t) PROVE Inv'
  <1>1. /\ part = "buffer" /\ UNCHANGED <<step, created, outcome, owner, pc>>
    BY DEF SpuriousWakeup, BufferStep, local, locks
  <1>2. ~Transferring
    BY <1>1, TourFacts DEF Transferring, part
  <1> QED
    BY <1>1, <1>2, ElsewhereStep DEF Inv, Types

LEMMA LineStep == ASSUME Inv, NEW t \in Thread, StartLine(t) PROVE Inv'
  <1>1. /\ At(t, "line") /\ UNCHANGED <<step, created, outcome, owner>>
        /\ pc' = IF \A u \in 1 .. Size(part) \ {t} : pc[u] = "waiting"
                 THEN [u \in Thread |-> IF u <= Size(part) THEN "enter" ELSE pc[u]]
                 ELSE [pc EXCEPT ![t] = "waiting"]
    BY DEF StartLine, Barrier, local, locks
  <1>2. ~Transferring
    <2>1. "line" \notin TransferLabels \cup {"waiting", "done"}
      BY DEF TransferLabels
    <2> QED
      BY <1>1, <2>1, Runner
  <1>3. /\ pc' \in [Thread -> Label]
        /\ \A u \in Thread : pc'[u] = pc[u] \/ pc'[u] \in {"waiting", "enter"}
    BY <1>1 DEF Inv, Types, Label
  <1> QED
    BY <1>1, <1>2, <1>3, ElsewhereStep DEF Inv, Types, TransferLabels

\* What a step of a transfer has to keep.
LEMMA PairStep ==
    ASSUME Inv, Transferring, UNCHANGED <<step, created>>,
           pc' \in [Thread -> Label], owner' \in [Lock -> Nat],
           outcome' \in [{"opposite", "same"} -> [Pair -> {"none", "got", "gave up"}]],
           Opposite', Same', Reports'
    PROVE  Inv'
  BY DEF Inv, Types, Elsewhere, Transferring

LEMMA ReportedAt ==
    ASSUME NEW n, NEW opp, NEW sam
    PROVE  /\ n = opposite => (Reported(n, opp, sam) <=> opp # "got" /\ sam = "none")
           /\ n = same => (Reported(n, opp, sam) <=> opp = "gave up" /\ sam # "gave up")
  <1>1. ASSUME n = opposite
        PROVE  n \notin 1 .. 6 /\ n \in 1 .. 7 /\ ~(n > opposite) /\ ~(n > same)
    BY <1>1 DEF opposite, same
  <1>2. ASSUME n = same
        PROVE  n \notin 1 .. 6 /\ n \notin 1 .. 7 /\ n > opposite /\ ~(n > same)
    BY <1>2 DEF opposite, same
  <1>3. "gave up" # "got" /\ "none" # "gave up"
    OBVIOUS
  <1> QED
    BY <1>1, <1>2, <1>3, Zenon DEF Reported

LEMMA Distinct == opposite # same /\ 1 \in Pair /\ 2 \in Pair
                  /\ \A t \in Pair : t \in Nat /\ t # Nobody /\ (t = 1 \/ t = 2)
  BY DEF opposite, same, Pair, Nobody

Transfers(t) ==
    \/ LockFirst(t) \/ BothHoldOne(t) \/ LockSecond(t) \/ GiveUp(t) \/ UnlockSecond(t)
    \/ BothAreThrough(t) \/ UnlockFirst(t)

LEMMA OppositeStep ==
    ASSUME Inv, step = opposite, part = "opposite", NEW t \in Pair, Transfers(t)
    PROVE  Inv'
  <1> USE DEF Mine
  <1>0. UNCHANGED <<step, created>>
    BY DEF Transfers, LockFirst, BothHoldOne, LockSecond, GiveUp, UnlockSecond, BothAreThrough,
       UnlockFirst, Barrier, local
  <1>1. /\ pc \in [Thread -> Label] /\ owner \in [Lock -> Nat]
        /\ outcome \in [{"opposite", "same"} -> [Pair -> {"none", "got", "gave up"}]]
        /\ Taking \/ Trying \/ Releasing
        /\ 1 \in Thread /\ 2 \in Thread /\ t \in Thread
    BY PairRuns DEF Pair, Inv, Types, Opposite
  <1>2. /\ First(t) = IF t = 1 THEN "A" ELSE "B"
        /\ Second(t) = IF t = 1 THEN "B" ELSE "A"
        /\ First(t) \in Lock /\ "A" \in Lock /\ "B" \in Lock
    BY Distinct DEF First, Second, Lock
  <1>3. \A u \in Pair : u = 1 \/ u = 2
    BY Distinct
  <1>4. Size(part) = 2
    BY PartFacts
  <1>5. Reports' /\ (Taking' \/ Trying' \/ Releasing') /\ pc' \in [Thread -> Label]
        /\ owner' \in [Lock -> Nat]
        /\ outcome' \in [{"opposite", "same"} -> [Pair -> {"none", "got", "gave up"}]]
    <2>1. CASE LockFirst(t)
      <3>1. /\ pc[t] = "first" /\ owner' = [owner EXCEPT ![First(t)] = t]
            /\ pc' = [pc EXCEPT ![t] = "meet"] /\ outcome' = outcome
        BY <2>1 DEF LockFirst, At, Goto, WithBarrier
      <3>2. Taking
        BY <1>1, <3>1 DEF Trying, Releasing
      <3>3. Taking'
        BY <1>1, <1>2, <3>1, <3>2 DEF Taking, Pair, Nobody
      <3>4. pc' \in [Thread -> Label] /\ owner' \in [Lock -> Nat]
        BY <1>1, <1>2, <3>1, Distinct DEF Label, TransferLabels
      <3> QED
        BY <1>0, <1>1, <3>1, <3>3, <3>4 DEF Inv, Reports
    <2>2. CASE BothHoldOne(t)
      <3>1. /\ pc[t] = "meet" /\ owner' = owner /\ outcome' = outcome
            /\ pc' = IF \A u \in Pair \ {t} : pc[u] = "waiting"
                     THEN [u \in Thread |-> IF u <= 2 THEN "second" ELSE pc[u]]
                     ELSE [pc EXCEPT ![t] = "waiting"]
        BY <1>4, <2>2, PairIs DEF BothHoldOne, Barrier, At, locks
      <3>2. Taking
        BY <1>1, <3>1 DEF Trying, Releasing
      <3>3. CASE \A u \in Pair \ {t} : pc[u] = "waiting"
        <4>0. pc' = [u \in Thread |-> IF u <= 2 THEN "second" ELSE pc[u]]
          BY <3>1, <3>3
        <4>1. pc'[1] = "second" /\ pc'[2] = "second"
          <5>1. \A u \in Pair : u \in Thread /\ u <= 2
            BY PairRuns DEF Pair
          <5>2. \A u \in Pair : pc'[u] = "second"
            BY <4>0, <5>1
          <5> QED
            BY <5>2, Distinct
        <4>2. Trying'
          BY <1>3, <3>1, <3>2, <3>3, <4>1 DEF Taking, Trying, Pair
        <4> QED
          BY <1>0, <1>1, <3>1, <3>3, <4>2 DEF Inv, Reports, Label, TransferLabels
      <3>4. CASE ~ \A u \in Pair \ {t} : pc[u] = "waiting"
        <4>0. pc' = [pc EXCEPT ![t] = "waiting"] /\ \E u \in Pair \ {t} : pc[u] # "waiting"
          BY <3>1, <3>4
        <4>1. Taking'
          BY <1>1, <3>1, <3>2, <4>0 DEF Taking, Pair
        <4> QED
          BY <1>0, <1>1, <3>1, <3>4, <4>1 DEF Inv, Reports, Label, TransferLabels
      <3> QED
        BY <3>3, <3>4
    <2>3. CASE LockSecond(t)
      <3>1. pc[t] = "second" /\ owner[Second(t)] = Nobody
        BY <2>3 DEF LockSecond, At
      <3>2. Trying
        BY <1>1, <3>1 DEF Taking, Releasing
      <3>3. \A u \in Pair : owner[IF u = 1 THEN "A" ELSE "B"] = u
        BY <3>2 DEF Trying
      <3>4. owner["A"] = 1
        BY <3>3, Distinct
      <3>5. owner["B"] = 2
        BY <3>3, Distinct
      <3>6. 1 # Nobody /\ 2 # Nobody
        BY DEF Nobody
      <3> QED
        BY <1>2, <3>1, <3>4, <3>5, <3>6
    <2>4. CASE GiveUp(t)
      <3>1. /\ pc[t] = "second" /\ owner' = owner
            /\ pc' = [pc EXCEPT ![t] = "meet again"]
            /\ outcome' = [outcome EXCEPT !["opposite"][t] = "gave up"]
        BY <2>4 DEF GiveUp, At, Goto, WithBarrier
      <3>2. Trying
        BY <1>1, <3>1 DEF Taking, Releasing
      <3>3. Trying'
        BY <1>1, <3>1, <3>2 DEF Trying, Pair
      <3>4. Reports'
        <4>1. /\ outcome'["same"] = outcome["same"]
              /\ \A u \in Pair : outcome'["opposite"][u] \in {outcome["opposite"][u], "gave up"}
          BY <1>1, <3>1
        <4>2. \A u \in Pair : outcome["opposite"][u] # "got" /\ outcome["same"][u] = "none"
          BY ReportedAt DEF Inv, Reports
        <4>3. \A u \in Pair : outcome'["opposite"][u] # "got" /\ outcome'["same"][u] = "none"
          BY <4>1, <4>2
        <4> QED
          BY <1>0, <4>3, ReportedAt DEF Reports
      <3> QED
        BY <1>1, <3>1, <3>3, <3>4 DEF Label, TransferLabels
    <2>5. CASE UnlockSecond(t)
      BY <1>1, <2>5 DEF UnlockSecond, At, Taking, Trying, Releasing
    <2>6. CASE BothAreThrough(t)
      <3>1. /\ pc[t] = "meet again" /\ owner' = owner /\ outcome' = outcome
            /\ pc' = IF \A u \in Pair \ {t} : pc[u] = "waiting"
                     THEN [u \in Thread |-> IF u <= 2 THEN "release" ELSE pc[u]]
                     ELSE [pc EXCEPT ![t] = "waiting"]
        BY <1>4, <2>6, PairIs DEF BothAreThrough, Barrier, At, locks
      <3>2. Trying
        BY <1>1, <3>1 DEF Taking, Releasing
      <3>3. CASE \A u \in Pair \ {t} : pc[u] = "waiting"
        <4>0. pc' = [u \in Thread |-> IF u <= 2 THEN "release" ELSE pc[u]]
          BY <3>1, <3>3
        <4>1. pc'[1] = "release" /\ pc'[2] = "release"
          <5>1. \A u \in Pair : u \in Thread /\ u <= 2
            BY PairRuns DEF Pair
          <5>2. \A u \in Pair : pc'[u] = "release"
            BY <4>0, <5>1
          <5> QED
            BY <5>2, Distinct
        <4>2. Releasing'
          BY <1>3, <3>1, <3>2, <3>3, <4>1 DEF Trying, Releasing, Pair
        <4> QED
          BY <1>0, <1>1, <3>1, <3>3, <4>2 DEF Inv, Reports, Label, TransferLabels
      <3>4. CASE ~ \A u \in Pair \ {t} : pc[u] = "waiting"
        <4>0. pc' = [pc EXCEPT ![t] = "waiting"] /\ \E u \in Pair \ {t} : pc[u] # "waiting"
          BY <3>1, <3>4
        <4>1. Trying'
          BY <1>1, <3>1, <3>2, <4>0 DEF Trying, Pair
        <4> QED
          BY <1>0, <1>1, <3>1, <3>4, <4>1 DEF Inv, Reports, Label, TransferLabels
      <3> QED
        BY <3>3, <3>4
    <2>7. CASE UnlockFirst(t)
      <3>1. /\ pc[t] = "release" /\ owner' = [owner EXCEPT ![First(t)] = Nobody]
            /\ pc' = [pc EXCEPT ![t] = "done"] /\ outcome' = outcome
        BY <2>7 DEF UnlockFirst, At, Goto
      <3>2. Releasing
        BY <1>1, <3>1 DEF Taking, Trying
      <3>3. Releasing'
        BY <1>1, <1>2, <3>1, <3>2 DEF Releasing, Pair, Nobody
      <3>4. pc' \in [Thread -> Label] /\ owner' \in [Lock -> Nat]
        BY <1>1, <1>2, <3>1 DEF Label, TransferLabels, Nobody
      <3> QED
        BY <1>0, <1>1, <3>1, <3>3, <3>4 DEF Inv, Reports
    <2> QED
      BY <2>1, <2>2, <2>3, <2>4, <2>5, <2>6, <2>7 DEF Transfers
  <1>6. Opposite' /\ Same'
    BY <1>0, <1>5, Distinct DEF Opposite, Same
  <1> QED
    BY <1>0, <1>5, <1>6, PairStep DEF Transferring

LEMMA SameStep ==
    ASSUME Inv, step = same, part = "same", NEW t \in Pair, Transfers(t)
    PROVE  Inv'
  <1>0. UNCHANGED <<step, created>>
    BY DEF Transfers, LockFirst, BothHoldOne, LockSecond, GiveUp, UnlockSecond, BothAreThrough,
       UnlockFirst, Barrier, local
  <1>1. /\ pc \in [Thread -> Label] /\ owner \in [Lock -> Nat]
        /\ outcome \in [{"opposite", "same"} -> [Pair -> {"none", "got", "gave up"}]]
        /\ 1 \in Thread /\ 2 \in Thread /\ t \in Thread /\ "A" \in Lock /\ "B" \in Lock
    BY PairRuns DEF Pair, Inv, Types, Lock
  <1>2. First(t) = "A" /\ Second(t) = "B"
    BY DEF First, Second
  <1>3. /\ owner["A"] \in {0, 1, 2} /\ owner["B"] \in {0, 1, 2}
        /\ \A u \in Pair :
              /\ pc[u] \in {"first", "second", "both", "release", "done"}
              /\ pc[u] \in {"second", "both", "release"} <=> owner["A"] = u
              /\ pc[u] = "both" <=> owner["B"] = u
              /\ outcome["same"][u] = IF pc[u] \in {"first", "second"} THEN "none" ELSE "got"
    BY DEF Inv, Same
  <1>4. PICK o \in Pair : o # t /\ Pair = {t, o} /\ t \notin {0, o} /\ o # 0
    BY DEF Pair
  <1>5. ~GiveUp(t) /\ ~BothHoldOne(t) /\ ~BothAreThrough(t)
    <2>1. ASSUME GiveUp(t) PROVE FALSE
      <3>1. pc[t] = "second" /\ owner["B"] # 0
        BY <1>2, <2>1 DEF GiveUp, At, Nobody
      <3>2. owner["B"] # t /\ owner["A"] = t
        BY <1>3, <3>1
      <3>3. owner["B"] = o
        BY <1>3, <1>4, <3>1, <3>2 DEF Pair
      <3> QED
        BY <1>3, <1>4, <3>2, <3>3
    <2> QED
      BY <1>3, <2>1 DEF BothHoldOne, BothAreThrough, Barrier, At
  \* The lock that changes hands, to whom, and where that leads.
  <1>6. PICK l \in {"A", "B"}, next \in {"second", "both", "release", "done"}, h \in {0, t} :
            /\ pc' = [pc EXCEPT ![t] = next] /\ owner' = [owner EXCEPT ![l] = h]
            /\ owner[l] \in {0, t}
            /\ next \in {"second", "both", "release"} <=> owner'["A"] = t
            /\ next = "both" <=> owner'["B"] = t
            /\ IF next = "both" THEN outcome' = [outcome EXCEPT !["same"][t] = "got"]
               ELSE /\ outcome' = outcome
                    /\ next = "second" <=> pc[t] \in {"first", "second"}
    <2>1. CASE LockFirst(t)
      <3>1. /\ pc[t] = "first" /\ owner["A"] = 0 /\ owner' = [owner EXCEPT !["A"] = t]
            /\ pc' = [pc EXCEPT ![t] = "second"] /\ outcome' = outcome
        BY <1>2, <2>1 DEF LockFirst, At, Goto, WithBarrier, Nobody
      <3>2. owner'["A"] = t /\ owner'["B"] # t
        BY <1>1, <1>3, <3>1
      <3> QED
        BY <3>1, <3>2
    <2>2. CASE LockSecond(t)
      <3>1. /\ pc[t] = "second" /\ owner["B"] = 0 /\ owner' = [owner EXCEPT !["B"] = t]
            /\ pc' = [pc EXCEPT ![t] = "both"]
            /\ outcome' = [outcome EXCEPT !["same"][t] = "got"]
        BY <1>2, <2>2 DEF LockSecond, At, Goto, Nobody
      <3>2. owner'["A"] = t /\ owner'["B"] = t
        BY <1>1, <1>3, <3>1
      <3> QED
        BY <3>1, <3>2
    <2>3. CASE UnlockSecond(t)
      <3>1. /\ pc[t] = "both" /\ owner' = [owner EXCEPT !["B"] = 0]
            /\ pc' = [pc EXCEPT ![t] = "release"] /\ outcome' = outcome
        BY <1>2, <2>3 DEF UnlockSecond, At, Goto, WithBarrier, Nobody
      <3>2. owner'["A"] = t /\ owner'["B"] # t /\ owner["B"] = t
        BY <1>1, <1>3, <1>4, <3>1
      <3> QED
        BY <3>1, <3>2
    <2>4. CASE UnlockFirst(t)
      <3>1. /\ pc[t] = "release" /\ owner' = [owner EXCEPT !["A"] = 0]
            /\ pc' = [pc EXCEPT ![t] = "done"] /\ outcome' = outcome
        BY <1>2, <2>4 DEF UnlockFirst, At, Goto, Nobody
      <3>2. owner'["A"] # t /\ owner'["B"] # t /\ owner["A"] = t
        BY <1>1, <1>3, <1>4, <3>1
      <3> QED
        BY <3>1, <3>2
    <2> QED
      BY <1>5, <2>1, <2>2, <2>3, <2>4 DEF Transfers
  <1>7. /\ pc' \in [Thread -> Label] /\ pc'[t] = next /\ pc'[o] = pc[o]
    <2>1. o \in Thread /\ next \in Label
      BY PairRuns DEF Label, TransferLabels
    <2> QED
      BY <1>1, <1>4, <1>6, <2>1
  <1>8. /\ owner' \in [Lock -> Nat]
        /\ \A k \in {"A", "B"} : owner'[k] = (IF k = l THEN h ELSE owner[k])
    <2>1. h \in Nat
      BY <1>4 DEF Pair
    <2> QED
      BY <1>1, <1>6, <2>1
  <1>9. \A k \in {"A", "B"} : owner'[k] \in {0, 1, 2} /\ (owner'[k] = o <=> owner[k] = o)
    BY <1>3, <1>4, <1>6, <1>8 DEF Pair
  <1>10. /\ outcome' \in [{"opposite", "same"} -> [Pair -> {"none", "got", "gave up"}]]
         /\ outcome'["opposite"] = outcome["opposite"]
         /\ outcome'["same"][o] = outcome["same"][o]
         /\ outcome'["same"][t] = IF next = "second" THEN "none" ELSE "got"
    <2>1. CASE next = "both"
      <3>1. outcome' = [outcome EXCEPT !["same"] = [outcome["same"] EXCEPT ![t] = "got"]]
        BY <1>6, <2>1
      <3>2. outcome["same"] \in [Pair -> {"none", "got", "gave up"}]
        BY <1>1
      <3>3. /\ outcome'["same"] = [outcome["same"] EXCEPT ![t] = "got"]
            /\ outcome'["opposite"] = outcome["opposite"]
        BY <1>1, <3>1
      <3>4. outcome' \in [{"opposite", "same"} -> [Pair -> {"none", "got", "gave up"}]]
        BY <1>1, <3>1, <3>2
      <3> QED
        BY <1>4, <2>1, <3>2, <3>3, <3>4
    <2>2. CASE next # "both"
      BY <1>1, <1>3, <1>6, <2>2, ZenonT(30)
    <2> QED
      BY <2>1, <2>2
  <1>11. \A u \in Pair :
            /\ pc'[u] \in {"first", "second", "both", "release", "done"}
            /\ pc'[u] \in {"second", "both", "release"} <=> owner'["A"] = u
            /\ pc'[u] = "both" <=> owner'["B"] = u
            /\ outcome'["same"][u] = IF pc'[u] \in {"first", "second"} THEN "none" ELSE "got"
    <2>1. ASSUME NEW u \in Pair, u = t
          PROVE  /\ pc'[u] \in {"first", "second", "both", "release", "done"}
                 /\ pc'[u] \in {"second", "both", "release"} <=> owner'["A"] = u
                 /\ pc'[u] = "both" <=> owner'["B"] = u
                 /\ outcome'["same"][u] = IF pc'[u] \in {"first", "second"} THEN "none" ELSE "got"
      BY <1>6, <1>7, <1>10, <2>1
    <2>2. ASSUME NEW u \in Pair, u = o
          PROVE  /\ pc'[u] \in {"first", "second", "both", "release", "done"}
                 /\ pc'[u] \in {"second", "both", "release"} <=> owner'["A"] = u
                 /\ pc'[u] = "both" <=> owner'["B"] = u
                 /\ outcome'["same"][u] = IF pc'[u] \in {"first", "second"} THEN "none" ELSE "got"
      BY <1>3, <1>7, <1>9, <1>10, <2>2
    <2> QED
      BY <1>4, <2>1, <2>2
  <1>12. Same' /\ Opposite'
    BY <1>0, <1>9, <1>11, Distinct DEF Same, Opposite
  <1>13. Reports'
    <2>1. \A u \in Pair : outcome["opposite"][u] = "gave up"
      BY ReportedAt DEF Inv, Reports
    <2>2. \A u \in Pair : outcome'["opposite"][u] = "gave up" /\ outcome'["same"][u] # "gave up"
      BY <1>10, <1>11, <2>1
    <2> QED
      BY <1>0, <2>2, ReportedAt DEF Reports
  <1> QED
    BY <1>0, <1>7, <1>8, <1>10, <1>12, <1>13, PairStep DEF Transferring

LEMMA TransferStep == ASSUME Inv, NEW t \in Thread, Transfers(t) PROVE Inv'
  <1>1. \E l \in TransferLabels : At(t, l)
    BY DEF Transfers, LockFirst, BothHoldOne, LockSecond, GiveUp, UnlockSecond, BothAreThrough,
       UnlockFirst, Barrier, TransferLabels
  <1>2. Transferring
    BY <1>1 DEF At, Inv, Elsewhere
  <1>3. t \in Pair /\ part = IF step = opposite THEN "opposite" ELSE "same"
    BY <1>1, <1>2, Runner
  <1> QED
    BY <1>2, <1>3, OppositeStep, SameStep, Distinct DEF Transferring

----------------------------------------------------------------------------
(* The steps of main().                                                    *)

LEMMA TransferPart ==
    ASSUME Inv, Transferring
    PROVE  /\ step = opposite => part = "opposite"
           /\ step = same => part = "same"
           /\ Size(part) = 2 /\ Checked(part) = 0
  BY TourFacts, PartFacts DEF Transferring, part

LEMMA CreateStep == ASSUME Inv, Create PROVE Inv'
  <1>1. created < Size(part) /\ created' = created + 1 /\ UNCHANGED <<step, pc, owner, outcome>>
    BY DEF Create, locks
  <1>2. created' \in Nat /\ (Transferring => created' <= 2)
    <2>1. created \in Nat
      BY DEF Inv, Types
    <2>2. ASSUME Transferring PROVE created' <= 2
      BY <1>1, <2>1, <2>2, TransferPart
    <2> QED
      BY <1>1, <2>1, <2>2
  <1>3. Types'
    BY <1>1, <1>2 DEF Inv, Types, Transferring
  <1> QED
    BY <1>1, <1>3, ZenonT(30)
       DEF Inv, Elsewhere, Opposite, Same, Reports, Transferring, Taking, Trying, Releasing, Mine

LEMMA FailStep == ASSUME Inv, CreateFails PROVE Inv'
  <1>1. created < Checked(part) /\ step' = 0 /\ UNCHANGED <<created, pc, owner, outcome>>
    BY DEF CreateFails, locks
  <1>2. ~Transferring
    <2>1. created \in Nat
      BY DEF Inv, Types
    <2> QED
      BY <1>1, <2>1, TransferPart
  <1>3. ~Transferring' /\ step' \in 0 .. 10
    BY <1>1 DEF Transferring, opposite, same
  <1>4. Types' /\ Elsewhere'
    BY <1>1, <1>2, <1>3 DEF Inv, Types, Elsewhere
  <1>5. Opposite' /\ Same'
    BY <1>3 DEF Opposite, Same, Transferring
  <1>6. Reports'
    <2>1. 0 \notin 1 .. 6 /\ 0 \notin 1 .. 7 /\ ~(0 > opposite) /\ ~(0 > same)
      BY DEF opposite, same
    <2>2. \A t \in Pair : outcome["opposite"][t] # "got" /\ outcome["same"][t] # "gave up"
      BY DEF Inv, Reports, Reported
    <2> QED
      BY <1>1, <2>1, <2>2 DEF Reports, Reported
  <1> QED
    BY <1>4, <1>5, <1>6 DEF Inv

LEMMA NextStep ==
    ASSUME NEW n \in 1 .. 9
    PROVE  /\ n + 1 \in 1 .. 6 => n \in 1 .. 6
           /\ n + 1 \in 1 .. 7 => n \in 1 .. 7
           /\ n + 1 > opposite => n > opposite \/ n = opposite
           /\ n + 1 > same => n > same \/ n = same
  BY DEF opposite, same

\* Where a report stands when the tour goes on.
LEMMA ReportedNext ==
    ASSUME NEW n \in 1 .. 9, NEW opp, NEW sam, Reported(n, opp, sam),
           n = opposite => opp = "gave up", n = same => sam = "got"
    PROVE  Reported(n + 1, opp, sam)
  BY NextStep, Zenon DEF Reported

\* Both transfers have ended when they are joined.
LEMMA BothEnded ==
    ASSUME Inv, Transferring, Join
    PROVE  /\ pc[1] = "done" /\ pc[2] = "done" /\ owner["A"] = Nobody /\ owner["B"] = Nobody
           /\ step = opposite => \A t \in Pair : outcome["opposite"][t] = "gave up"
           /\ step = same => \A t \in Pair : outcome["same"][t] = "got"
  <1>1. \A t \in Pair : pc[t] = "done"
    BY TransferPart, PairIs DEF Join, Ended, Transferring
  <1>2. CASE step = opposite
    <2>1. Releasing
      BY <1>1, <1>2, Distinct DEF Inv, Opposite, Taking, Trying
    <2>2. \A t \in Pair : Mine(t) = Nobody
      BY <1>1, <2>1 DEF Releasing
    <2>3. owner["A"] = Nobody /\ owner["B"] = Nobody
      BY <2>2, Distinct DEF Mine
    <2> QED
      BY <1>1, <1>2, <2>1, <2>3, Distinct DEF Releasing
  <1>3. CASE step = same
    <2>1. \A t \in Pair : owner["A"] # t /\ owner["B"] # t /\ outcome["same"][t] = "got"
      BY <1>1, <1>3 DEF Inv, Same
    <2>2. owner["A"] \in {0, 1, 2} /\ owner["B"] \in {0, 1, 2}
      BY <1>3 DEF Inv, Same
    <2>3. owner["A"] = Nobody /\ owner["B"] = Nobody
      BY <2>1, <2>2 DEF Pair, Nobody
    <2> QED
      BY <1>1, <1>3, <2>1, <2>3, Distinct
  <1> QED
    BY <1>2, <1>3 DEF Transferring

LEMMA JoinStep == ASSUME Inv, Join PROVE Inv'
  <1> DEFINE label == IF step' \in DOMAIN Tour THEN Entry(Tour[step']) ELSE "done"
  <1>1. /\ step' = step + 1 /\ created' = 0 /\ pc' = [t \in Thread |-> label]
        /\ UNCHANGED <<owner, outcome>>
    BY DEF Join, locks
  <1>2. step \in 1 .. 9 /\ step' \in 2 .. 10
    <2>1. step \in DOMAIN Tour
      BY DEF Join, Touring
    <2> QED
      BY <1>1, <2>1, TourFacts
  <1>3. step' \in {opposite, same} => label = "first"
    BY TourFacts, PartFacts DEF opposite, same
  <1>4. step' \notin {opposite, same} => label \in Label \ TransferLabels
    <2>1. CASE step' \notin DOMAIN Tour
      BY <2>1 DEF Label, TransferLabels
    <2>2. ASSUME step' \in DOMAIN Tour, step' \notin {opposite, same}
          PROVE  label \in Label \ TransferLabels
      <3>1. Tour[step'] \notin {"opposite", "same"}
        BY <2>2, TourFacts DEF opposite, same
      <3> QED
        BY <2>2, <3>1, PartFacts
    <2> QED
      BY <2>1, <2>2
  <1> HIDE DEF label
  <1>5. label \in Label
    BY <1>3, <1>4 DEF Label, TransferLabels
  <1>6. Types'
    <2>1. step' \in 0 .. 10 /\ created' \in Nat /\ (Transferring' => created' <= 2)
      BY <1>1, <1>2
    <2>2. pc' \in [Thread -> Label]
      BY <1>1, <1>5
    <2> QED
      BY <1>1, <2>1, <2>2 DEF Inv, Types
  <1>7. owner["A"] = Nobody /\ owner["B"] = Nobody
    BY BothEnded DEF Inv, Elsewhere
  <1>8. Elsewhere'
    BY <1>1, <1>4, <1>7 DEF Elsewhere, Transferring
  <1>9. Reports'
    <2>1. /\ step = opposite => \A t \in Pair : outcome["opposite"][t] = "gave up"
          /\ step = same => \A t \in Pair : outcome["same"][t] = "got"
      BY BothEnded DEF Transferring
    <2>2. \A t \in Pair : Reported(step + 1, outcome["opposite"][t], outcome["same"][t])
      BY <1>2, <2>1, ReportedNext DEF Inv, Reports
    <2> QED
      BY <1>1, <2>2 DEF Reports
  <1>10. ASSUME step' = opposite PROVE Taking'
    <2>1. \A t \in Pair : pc'[t] = "first"
      BY <1>1, <1>3, <1>10, PairRuns
    <2>2. \A t \in Pair : outcome["opposite"][t] = "none"
      <3>1. step \in 1 .. 6
        BY <1>1, <1>2, <1>10 DEF opposite
      <3> QED
        BY <3>1 DEF Inv, Reports, Reported
    <2> QED
      BY <1>1, <1>7, <2>1, <2>2, Distinct DEF Taking, Mine
  <1>11. ASSUME step' = same PROVE Same'
    <2>1. \A t \in Pair : pc'[t] = "first"
      BY <1>1, <1>3, <1>11, PairRuns
    <2>2. \A t \in Pair : outcome["same"][t] = "none"
      <3>1. step \in 1 .. 7
        BY <1>1, <1>2, <1>11 DEF same
      <3> QED
        BY <3>1 DEF Inv, Reports, Reported
    <2>3. owner'["A"] = 0 /\ owner'["B"] = 0 /\ \A t \in Pair : t # 0
      BY <1>1, <1>7, Distinct DEF Nobody
    <2> QED
      BY <1>1, <2>1, <2>2, <2>3 DEF Same
  <1>12. Opposite' /\ Same'
    BY <1>10, <1>11 DEF Opposite, Same
  <1> QED
    BY <1>6, <1>8, <1>9, <1>12 DEF Inv

----------------------------------------------------------------------------
(* The theorems.                                                           *)

LEMMA Step == ASSUME Inv, [Next]_vars PROVE Inv'
  <1>1. CASE main
    BY <1>1, CreateStep, FailStep, JoinStep DEF main
  <1>2. ASSUME NEW t \in Thread, Run(t) PROVE Inv'
    BY <1>2, CountingStep, BufferSteps, RoomStep, LineStep, TransferStep DEF Run, Transfers
  <1>3. CASE SpuriousWakeup
    BY <1>3, BufferSteps
  <1>4. CASE UNCHANGED vars
    BY <1>4 DEF vars, local, locks, Inv, Types, Elsewhere, Opposite, Same, Reports, Transferring,
       Taking, Trying, Releasing, Mine
  <1> QED
    BY <1>1, <1>2, <1>3, <1>4 DEF Next, Finished

(* The invariant holds of every behaviour.                                 *)
THEOREM Invariance == Spec => []Inv
  BY Initial, Step, PTL DEF Spec

(* What do_transfer() reports depends on the order of locking alone: no    *)
(* interleaving, of any number of threads in the other parts, lets one of  *)
(* the transfers of part 5 through or makes one of the second pair give up.*)
THEOREM LockOrderDecides == Spec => []OrderDecides
  <1>1. ASSUME Inv PROVE OrderDecides
    <2>1. Over("opposite") => step > opposite
      BY TourFacts DEF Over, opposite, same
    <2>2. Over("same") => step > same
      BY TourFacts DEF Over, opposite, same
    <2>3. \A t \in Pair : Reported(step, outcome["opposite"][t], outcome["same"][t])
      BY <1>1 DEF Inv, Reports
    <2> QED
      BY <2>1, <2>2, <2>3, PairIs DEF OrderDecides, Reported
  <1> QED
    BY <1>1, Invariance, PTL
----------------------------------------------------------------------------
(* How far the tour is.                                                    *)

Created == step \in 0 .. 10 /\ (Touring => created \in 0 .. Size(part))

LEMMA SizeIs ==
    /\ Size("share") = 1 /\ Size("unsafe") = Threads /\ Size("locked") = Threads
    /\ Size("atomic") = Threads /\ Size("buffer") = Consumers + 1 /\ Size("semaphore") = Visitors
    /\ Size("opposite") = 2 /\ Size("same") = 2 /\ Size("table") = Readers + 1
  BY DEF Size

LEMMA SizeType == \A i \in DOMAIN Tour : Size(Tour[i]) \in Nat
  <1>1. Threads \in Nat /\ Consumers \in Nat /\ Visitors \in Nat /\ Readers \in Nat
    BY TourAssumption
  <1>2. DOMAIN Tour = 1 .. 9
    BY TourFacts
  <1> QED
    BY <1>1, <1>2, SizeIs, TourFacts DEF opposite, same

\* Only main() moves the tour on.
LEMMA RunStays ==
    /\ \A t \in Thread : Run(t) => UNCHANGED <<step, created>>
    /\ SpuriousWakeup => UNCHANGED <<step, created>>
  BY DEF Run, SpuriousWakeup, SetShared, LockCounter, Load, Store, UnlockCounter, AtomicAdd,
     BufferStep, Enter, CountIn, Look, Raise, CountOut, Leave, StartLine, WriteLock, Write,
     WriteUnlock, LockFirst, BothHoldOne, LockSecond, GiveUp, UnlockSecond, BothAreThrough,
     UnlockFirst, Barrier, local

LEMMA CreatedInit == Init => Created
  <1>1. SUFFICES ASSUME Init PROVE Created
    OBVIOUS
  <1>2. step = 1 /\ created = 0
    BY <1>1 DEF Init
  <1>3. Touring /\ part = "share"
    BY <1>2, TourFacts DEF Touring, part
  <1> QED
    BY <1>2, <1>3, SizeIs DEF Created

LEMMA CreatedStep == ASSUME Created, [Next]_vars PROVE Created'
  <1>1. CASE Create
    <2>1. Touring /\ created < Size(part) /\ created' = created + 1 /\ step' = step
      BY <1>1 DEF Create
    <2>2. Size(part) \in Nat
      BY <2>1, SizeType DEF Touring, part
    <2> QED
      BY <2>1, <2>2 DEF Created, Touring, part
  <1>2. CASE CreateFails
    <2>1. step' = 0
      BY <1>2 DEF CreateFails
    <2> QED
      BY <2>1, TourFacts DEF Created, Touring
  <1>3. CASE Join
    <2>1. step' = step + 1 /\ created' = 0 /\ step \in 1 .. 9
      BY <1>3, TourFacts DEF Join, Touring
    <2>2. Touring' => Size(part)' \in Nat
      BY SizeType DEF Touring, part
    <2>3. Touring' => created' \in 0 .. Size(part)'
      BY <2>1, <2>2
    <2> QED
      BY <2>1, <2>3 DEF Created
  <1>4. CASE UNCHANGED <<step, created>>
    BY <1>4 DEF Created, Touring, part
  <1> QED
    BY <1>1, <1>2, <1>3, <1>4, RunStays DEF Next, main, Finished, vars, local

LEMMA CreatedAlways == Spec => []Created
  BY CreatedInit, CreatedStep, PTL DEF Spec
----------------------------------------------------------------------------
(* The buffer: the ring holds what has been put and not been taken.        *)

BufferLabel == {"lock", "test", "asleep", "woken", "done"}
Fed         == Items + Consumers

\* The slot that is i slots ahead of h.
Ahead(h, i) == IF h + i < Slots THEN h + i ELSE (h + i) - Slots

BufferTypes ==
    /\ g_buffer \in [0 .. Slots - 1 -> Int]
    /\ g_count \in 0 .. Slots /\ g_head \in 0 .. Slots - 1 /\ g_tail \in 0 .. Slots - 1
    /\ put \in 0 .. Fed /\ taken \in Seq(Int)
    /\ buffer_pc \in [Buffer!Thread -> BufferLabel]

RingHolds ==
    /\ g_tail = Ahead(g_head, g_count) /\ put = Len(taken) + g_count
    /\ \A i \in 1 .. Len(taken) : taken[i] = Buffer!Feed[i]
    /\ \A i \in 0 .. g_count - 1 : g_buffer[Ahead(g_head, i)] = Buffer!Feed[Len(taken) + i + 1]
    /\ buffer_pc[0] = "done" <=> put = Fed

Running == {c \in Buffer!Consumer : buffer_pc[c] # "done"}
Awake   == {c \in Running : buffer_pc[c] # "asleep"}

SleepsWell ==
    /\ buffer_pc[0] = "asleep" => g_count = Slots
    /\ Cardinality(Awake) >= g_count \/ Awake = Running

BufferInv == BufferTypes /\ RingHolds /\ SleepsWell

LEMMA Sizes ==
    /\ Slots \in Nat \ {0} /\ Consumers \in Nat \ {0} /\ Items \in Nat
    /\ Fed \in Nat \ {0}
  BY TourAssumption DEF Fed

LEMMA BufferNames ==
    /\ Buffer!Thread = 0 .. Consumers /\ Buffer!Consumer = 1 .. Consumers
    /\ Buffer!producer = 0
  BY Sizes DEF Buffer!Thread, Buffer!Consumer, Buffer!producer

LEMMA FeedFacts ==
    /\ Buffer!Feed \in Seq(Int) /\ Len(Buffer!Feed) = Fed
    /\ \A i \in 1 .. Fed : Buffer!Feed[i] \in Int
  <1>1. Buffer!Feed = [i \in 1 .. Fed |-> IF i <= Items THEN i ELSE -1]
    BY DEF Buffer!Feed, Buffer!StopMarker, Fed
  <1>2. Fed \in Nat
    BY Sizes
  <1> QED
    BY <1>1, <1>2

\* Going round the ring.
LEMMA GoesRound ==
    ASSUME NEW h \in 0 .. Slots - 1, NEW i \in 0 .. Slots
    PROVE  (h + i) % Slots = Ahead(h, i) /\ Ahead(h, i) \in 0 .. Slots - 1
  BY Sizes DEF Ahead

LEMMA AheadFacts ==
    ASSUME NEW h \in 0 .. Slots - 1, NEW i \in 0 .. Slots - 1
    PROVE  /\ Ahead(h, 0) = h
           /\ Ahead(Ahead(h, 1), i) = Ahead(h, i + 1)
           /\ Ahead(Ahead(h, i), 1) = Ahead(h, i + 1)
           /\ \A j \in 0 .. Slots - 1 : j # i => Ahead(h, j) # Ahead(h, i)
  BY Sizes DEF Ahead

LEMMA OneOn ==
    ASSUME NEW h \in 0 .. Slots - 1
    PROVE  (h + 1) % Slots = Ahead(h, 1) /\ Ahead(h, 1) \in 0 .. Slots - 1
  BY Sizes, GoesRound
LEMMA BufferInit == Init => BufferInv
  <1> SUFFICES ASSUME Init PROVE BufferInv
    OBVIOUS
  <1>1. /\ g_buffer = [s \in 0 .. Slots - 1 |-> 0] /\ g_count = 0 /\ g_head = 0 /\ g_tail = 0
        /\ put = 0 /\ taken = <<>> /\ buffer_pc = [t \in Buffer!Thread |-> "lock"]
    BY DEF Init, Buffer!Init
  <1>2. BufferTypes
    BY <1>1, Sizes DEF BufferTypes, BufferLabel
  <1>3. RingHolds
    BY <1>1, Sizes, BufferNames DEF RingHolds, Ahead
  <1>4. SleepsWell
    <2>1. \A c \in Buffer!Consumer : buffer_pc[c] = "lock"
      BY <1>1, BufferNames, Sizes
    <2>2. Awake = Running
      BY <2>1 DEF Awake, Running
    <2> QED
      BY <1>1, <2>2, BufferNames, Sizes DEF SleepsWell
  <1> QED
    BY <1>2, <1>3, <1>4 DEF BufferInv

LEMMA AwakeCounts ==
    /\ IsFiniteSet(Running) /\ IsFiniteSet(Awake)
    /\ \A S \in SUBSET Running : IsFiniteSet(S) /\ Cardinality(S) \in Nat
  <1>1. IsFiniteSet(1 .. Consumers)
    BY FS_Interval, Sizes
  <1>2. Running \subseteq 1 .. Consumers /\ Awake \subseteq Running
    BY BufferNames DEF Running, Awake
  <1> QED
    BY <1>1, <1>2, FS_Subset, FS_CardinalityType

\* A step of a thread that neither puts nor takes.
LEMMA WaitStep ==
    ASSUME BufferInv, NEW t \in Buffer!Thread, NEW l \in {"test", "asleep", "woken"},
           buffer_pc[t] # "done", buffer_pc' = [buffer_pc EXCEPT ![t] = l],
           UNCHANGED <<g_buffer, g_count, g_head, g_tail, put, taken>>,
           l = "asleep" => IF t = 0 THEN g_count = Slots ELSE g_count = 0
    PROVE  BufferInv'
  <1>1. BufferTypes'
    BY DEF BufferInv, BufferTypes, BufferLabel
  <1>2. RingHolds'
    BY BufferNames, Sizes, SMTT(30) DEF BufferInv, BufferTypes, RingHolds
  <1>3. Running' = Running
    BY BufferNames DEF BufferInv, BufferTypes, Running
  <1>4. CASE l = "asleep" /\ t # 0
    <2>1. g_count' = 0 /\ buffer_pc'[0] = buffer_pc[0]
      BY <1>4, BufferNames DEF BufferInv, BufferTypes
    <2>2. Cardinality(Awake)' \in Nat
      <3>1. Awake' \subseteq Running
        BY <1>3 DEF Awake
      <3> QED
        BY <3>1, AwakeCounts
    <2>3. SleepsWell'
      BY <2>1, <2>2 DEF BufferInv, SleepsWell
    <2> QED
      BY <1>1, <1>2, <2>3 DEF BufferInv
  <1>5. CASE ~(l = "asleep" /\ t # 0)
    <2>1. Awake \subseteq Awake' /\ Awake' \subseteq Running
      BY <1>3, <1>5, BufferNames DEF BufferInv, BufferTypes, Awake, Running
    <2>2. Cardinality(Awake)' >= Cardinality(Awake) /\ Cardinality(Awake)' \in Nat
          /\ Cardinality(Awake) \in Nat
      BY <2>1, AwakeCounts, FS_Subset
    <2>3. buffer_pc'[0] = "asleep" => g_count' = Slots
      BY <1>5, BufferNames, Sizes DEF BufferInv, BufferTypes, SleepsWell
    <2>4. Cardinality(Awake)' >= g_count' \/ Awake' = Running'
      <3>1. CASE Awake = Running
        BY <1>3, <2>1, <3>1
      <3>2. CASE Cardinality(Awake) >= g_count
        BY <2>2, <3>2 DEF BufferInv, BufferTypes
      <3> QED
        BY <3>1, <3>2 DEF BufferInv, SleepsWell
    <2> QED
      BY <1>1, <1>2, <2>3, <2>4 DEF BufferInv, SleepsWell
  <1> QED
    BY <1>4, <1>5
\* The ring after an item has been put.
LEMMA PutRing ==
    ASSUME BufferInv, Buffer!Put
    PROVE  /\ g_buffer' \in [0 .. Slots - 1 -> Int]
           /\ g_count' \in 0 .. Slots /\ g_head' \in 0 .. Slots - 1 /\ g_tail' \in 0 .. Slots - 1
           /\ put' \in 0 .. Fed /\ taken' = taken
           /\ g_tail' = Ahead(g_head', g_count') /\ put' = Len(taken') + g_count'
           /\ \A i \in 0 .. g_count' - 1 : g_buffer'[Ahead(g_head', i)] = Buffer!Feed[Len(taken') + i + 1]
  <1> DEFINE n == Len(taken)
  <1>1. /\ buffer_pc[0] = "test" /\ g_count # Slots
        /\ g_buffer' = [g_buffer EXCEPT ![g_tail] = Buffer!Feed[put + 1]]
        /\ g_tail' = (g_tail + 1) % Slots /\ g_count' = g_count + 1 /\ put' = put + 1
        /\ g_head' = g_head /\ taken' = taken
    BY BufferNames DEF Buffer!Put, Buffer!Full
  <1>2. /\ g_buffer \in [0 .. Slots - 1 -> Int] /\ g_count \in 0 .. Slots - 1
        /\ g_head \in 0 .. Slots - 1 /\ g_tail \in 0 .. Slots - 1
        /\ g_tail = Ahead(g_head, g_count) /\ put = n + g_count /\ n \in Nat
        /\ \A i \in 0 .. g_count - 1 : g_buffer[Ahead(g_head, i)] = Buffer!Feed[n + i + 1]
    <2>1. BufferTypes /\ RingHolds
      BY DEF BufferInv
    <2>2. g_count \in 0 .. Slots - 1
      BY <1>1, <2>1, Sizes DEF BufferTypes
    <2>3. n \in Nat
      BY <2>1 DEF BufferTypes
    <2> QED
      BY <2>1, <2>2, <2>3 DEF BufferTypes, RingHolds
  <1>3. put \in 0 .. Fed /\ put < Fed
    BY <1>1, Sizes DEF BufferInv, BufferTypes, RingHolds
  <1> HIDE DEF n
  <1>4. put' \in 0 .. Fed /\ Buffer!Feed[put + 1] \in Int
    <2>1. put + 1 \in 1 .. Fed
      BY <1>3, Sizes
    <2> QED
      BY <1>1, <2>1, FeedFacts
  <1>5. g_tail' = Ahead(g_head, g_count + 1) /\ g_tail' \in 0 .. Slots - 1
    BY <1>1, <1>2, OneOn, AheadFacts
  <1>6. g_count' \in 0 .. Slots
    BY <1>1, <1>2, Sizes
  <1>7. ASSUME NEW i \in 0 .. g_count
        PROVE  g_buffer'[Ahead(g_head, i)] = Buffer!Feed[n + i + 1]
    <2>0. i \in 0 .. Slots - 1 /\ i \in 0 .. Slots
      BY <1>2, Sizes
    <2>1. i \in 0 .. Slots - 1 /\ Ahead(g_head, i) \in 0 .. Slots - 1
      BY <1>2, <2>0, GoesRound
    <2>2. CASE i = g_count
      BY <1>1, <1>2, <2>1, <2>2
    <2>3. CASE i # g_count
      <3>1. i \in 0 .. g_count - 1
        BY <1>2, <2>3
      <3>2. Ahead(g_head, i) # g_tail
        BY <1>2, <2>1, <2>3, AheadFacts
      <3> QED
        BY <1>1, <1>2, <2>1, <3>1, <3>2
    <2> QED
      BY <2>2, <2>3
  <1>8. g_count' - 1 = g_count
    BY <1>1, <1>2
  <1>9. g_buffer' \in [0 .. Slots - 1 -> Int]
    BY <1>1, <1>2, <1>4
  <1>10. put' = n + g_count'
    BY <1>1, <1>2
  <1> QED
    BY <1>1, <1>2, <1>4, <1>5, <1>6, <1>7, <1>8, <1>9, <1>10 DEF n

LEMMA PutStep == ASSUME BufferInv, Buffer!Put PROVE BufferInv'
  <1> DEFINE next == IF put' = Fed THEN "done" ELSE "lock"
             sleeping == {w \in Buffer!Consumer : buffer_pc[w] = "asleep"}
  <1>1. /\ buffer_pc[0] = "test" /\ g_count # Slots /\ g_count' = g_count + 1 /\ taken' = taken
        /\ \/ sleeping = {} /\ buffer_pc' = [buffer_pc EXCEPT ![0] = next]
           \/ \E w \in sleeping : buffer_pc' = [buffer_pc EXCEPT ![0] = next, ![w] = "woken"]
    BY BufferNames, FeedFacts DEF Buffer!Put, Buffer!Full, Buffer!Signal
  <1>2. buffer_pc \in [Buffer!Thread -> BufferLabel] /\ g_count \in 0 .. Slots /\ taken \in Seq(Int)
    BY DEF BufferInv, BufferTypes
  <1>3. buffer_pc'[0] = next /\ buffer_pc' \in [Buffer!Thread -> BufferLabel]
    BY <1>1, <1>2, BufferNames, Sizes DEF BufferLabel
  <1>4. BufferTypes'
    BY <1>1, <1>2, <1>3, PutRing DEF BufferTypes
  <1>5. RingHolds'
    BY <1>1, <1>3, PutRing DEF RingHolds, BufferInv
  <1>6. Cardinality(Awake)' >= g_count' \/ Awake' = Running'
    <2>1. CASE sleeping = {}
      <3>1. ASSUME NEW c \in Buffer!Consumer PROVE buffer_pc'[c] # "asleep"
        <4>1. c \in Buffer!Thread /\ c # 0
          BY BufferNames
        <4>2. buffer_pc' = [buffer_pc EXCEPT ![0] = next] /\ buffer_pc[c] # "asleep"
          BY <1>1, <2>1
        <4> QED
          BY <1>2, <4>1, <4>2
      <3> QED
        BY <3>1 DEF Awake, Running
    <2>2. ASSUME NEW w \in sleeping,
                 buffer_pc' = [buffer_pc EXCEPT ![0] = next, ![w] = "woken"]
          PROVE  Cardinality(Awake)' >= g_count' \/ Awake' = Running'
      <3>1. \A c \in Buffer!Consumer :
                buffer_pc'[c] = IF c = w THEN "woken" ELSE buffer_pc[c]
        BY <1>2, <2>2, BufferNames
      <3>2. Running' = Running /\ Awake' = Awake \cup {w} /\ w \notin Awake
        BY <3>1 DEF Running, Awake
      <3>3. Cardinality(Awake)' = Cardinality(Awake) + 1 /\ Cardinality(Awake) \in Nat
        <4>1. Cardinality(Awake \cup {w}) = Cardinality(Awake) + 1
          BY <3>2, AwakeCounts, FS_AddElement
        <4>2. Awake \in SUBSET Running
          BY DEF Awake
        <4> QED
          BY <3>2, <4>1, <4>2, AwakeCounts
      <3>4. Cardinality(Awake) >= g_count
        BY <3>2, Zenon DEF BufferInv, SleepsWell, Running, Awake
      <3> QED
        BY <1>1, <1>2, <3>3, <3>4
    <2> QED
      BY <1>1, <2>1, <2>2
  <1>7. buffer_pc'[0] # "asleep"
    BY <1>3
  <1> QED
    BY <1>4, <1>5, <1>6, <1>7 DEF BufferInv, SleepsWell
\* The ring after an item has been taken.
LEMMA TakeRing ==
    ASSUME BufferInv, NEW c, Buffer!Take(c)
    PROVE  /\ g_count' \in 0 .. Slots /\ g_head' \in 0 .. Slots - 1
           /\ g_buffer' = g_buffer /\ g_tail' = g_tail /\ put' = put
           /\ taken' \in Seq(Int) /\ Len(taken') = Len(taken) + 1
           /\ g_tail' = Ahead(g_head', g_count') /\ put' = Len(taken') + g_count'
           /\ \A i \in 1 .. Len(taken') : taken'[i] = Buffer!Feed[i]
           /\ \A i \in 0 .. g_count' - 1 : g_buffer'[Ahead(g_head', i)] = Buffer!Feed[Len(taken') + i + 1]
  <1> DEFINE n == Len(taken)
  <1>1. /\ g_count > 0 /\ taken' = Append(taken, g_buffer[g_head])
        /\ g_head' = (g_head + 1) % Slots /\ g_count' = g_count - 1
        /\ g_buffer' = g_buffer /\ g_tail' = g_tail /\ put' = put
    BY DEF Buffer!Take
  <1>2. /\ g_buffer \in [0 .. Slots - 1 -> Int] /\ g_count \in 1 .. Slots
        /\ g_head \in 0 .. Slots - 1 /\ g_tail \in 0 .. Slots - 1 /\ taken \in Seq(Int)
    BY <1>1, Sizes DEF BufferInv, BufferTypes
  <1>3. /\ g_tail = Ahead(g_head, g_count) /\ put = n + g_count /\ n \in Nat
        /\ \A i \in 1 .. n : taken[i] = Buffer!Feed[i]
        /\ \A i \in 0 .. g_count - 1 : g_buffer[Ahead(g_head, i)] = Buffer!Feed[n + i + 1]
    BY <1>2 DEF BufferInv, RingHolds
  <1>4. g_head' = Ahead(g_head, 1) /\ g_head' \in 0 .. Slots - 1
    BY <1>1, <1>2, OneOn
  <1>5. g_buffer[g_head] = Buffer!Feed[n + 1] /\ g_buffer[g_head] \in Int
    <2>1. 0 \in 0 .. g_count - 1 /\ 0 \in 0 .. Slots - 1 /\ Ahead(g_head, 0) = g_head
      BY <1>2, Sizes, AheadFacts
    <2>2. n + 0 + 1 = n + 1
      BY <1>3
    <2> QED
      BY <1>2, <1>3, <2>1, <2>2
  <1>6. /\ taken' \in Seq(Int) /\ Len(taken') = n + 1
        /\ taken'[n + 1] = Buffer!Feed[n + 1] /\ \A i \in 1 .. n : taken'[i] = taken[i]
    BY <1>1, <1>2, <1>5
  <1>7. ASSUME NEW i \in 1 .. n + 1 PROVE taken'[i] = Buffer!Feed[i]
    <2>1. i = n + 1 \/ i \in 1 .. n
      BY <1>3
    <2> QED
      BY <1>3, <1>6, <2>1
  <1>8. ASSUME NEW i \in 0 .. g_count - 2
        PROVE  g_buffer[Ahead(g_head', i)] = Buffer!Feed[(n + 1) + i + 1]
    <2>1. i \in 0 .. Slots - 1 /\ i + 1 \in 0 .. g_count - 1
      BY <1>2, Sizes
    <2>2. Ahead(g_head', i) = Ahead(g_head, i + 1)
      BY <1>2, <1>4, <2>1, AheadFacts
    <2>3. n + (i + 1) + 1 = (n + 1) + i + 1
      BY <1>3, <2>1
    <2> QED
      BY <1>3, <2>1, <2>2, <2>3
  <1>9. g_tail = Ahead(g_head', g_count') /\ g_count' \in 0 .. Slots - 1
    <2>1. g_count' \in 0 .. Slots - 1 /\ g_count' + 1 = g_count
      BY <1>1, <1>2, Sizes
    <2> QED
      BY <1>2, <1>3, <1>4, <2>1, AheadFacts, ZenonT(30)
  <1>10. g_count' - 1 = g_count - 2 /\ put' = (n + 1) + g_count' /\ g_count' \in 0 .. Slots
    BY <1>1, <1>2, <1>3, <1>9, Sizes
  <1> HIDE DEF n
  <1> QED
    <2>1. Len(taken) = n
      BY DEF n
    <2> QED
      BY <1>1, <1>4, <1>6, <1>7, <1>8, <1>9, <1>10, <2>1

LEMMA TakeStep == ASSUME BufferInv, NEW c \in Buffer!Consumer, Buffer!Take(c) PROVE BufferInv'
  <1> DEFINE next == IF g_buffer[g_head] = -1 THEN "done" ELSE "lock"
  <1>1. /\ buffer_pc[c] = "test" /\ g_count > 0 /\ g_count' = g_count - 1 /\ put' = put
        /\ IF buffer_pc[0] = "asleep"
           THEN buffer_pc' = [buffer_pc EXCEPT ![c] = next, ![0] = "woken"]
           ELSE buffer_pc' = [buffer_pc EXCEPT ![c] = next]
    BY BufferNames DEF Buffer!Take, Buffer!Signal, Buffer!StopMarker
  <1>2. /\ buffer_pc \in [Buffer!Thread -> BufferLabel] /\ g_count \in 0 .. Slots
        /\ put \in 0 .. Fed
    BY DEF BufferInv, BufferTypes
  <1>3. /\ next \in {"done", "lock"} /\ c \in Buffer!Thread /\ 0 \in Buffer!Thread /\ c # 0
    BY BufferNames, Sizes
  <1> HIDE DEF next
  <1>4. /\ buffer_pc' \in [Buffer!Thread -> BufferLabel]
        /\ buffer_pc'[0] = IF buffer_pc[0] = "asleep" THEN "woken" ELSE buffer_pc[0]
        /\ \A d \in Buffer!Consumer : buffer_pc'[d] = IF d = c THEN next ELSE buffer_pc[d]
    <2>1. "woken" \in BufferLabel /\ next \in BufferLabel
      BY <1>3 DEF BufferLabel
    <2>2. \A d \in Buffer!Consumer : d \in Buffer!Thread /\ d # 0
      BY BufferNames
    <2> QED
      BY <1>1, <1>2, <1>3, <2>1, <2>2
  <1>5. BufferTypes'
    BY <1>2, <1>4, TakeRing DEF BufferInv, BufferTypes
  <1>6. RingHolds'
    <2>1. buffer_pc'[0] = "done" <=> put' = Fed
      BY <1>1, <1>4 DEF BufferInv, RingHolds
    <2> QED
      BY <2>1, TakeRing DEF RingHolds
  <1>7. Cardinality(Awake)' >= g_count' \/ Awake' = Running'
    <2>1. CASE next = "lock"
      <3>1. Running' = Running /\ Awake' = Awake
        BY <1>1, <1>4, <2>1 DEF Running, Awake
      <3>2. Cardinality(Awake) \in Nat
        BY AwakeCounts DEF Awake
      <3> QED
        BY <1>1, <1>2, <3>1, <3>2 DEF BufferInv, SleepsWell
    <2>2. CASE next = "done"
      <3>1. Running' = Running \ {c} /\ Awake' = Awake \ {c} /\ c \in Awake
        BY <1>1, <1>4, <2>2 DEF Running, Awake
      <3>2. Cardinality(Awake \ {c}) = Cardinality(Awake) - 1 /\ Cardinality(Awake) \in Nat
        <4>1. Awake \in SUBSET Running
          BY DEF Awake
        <4>2. Cardinality(Awake \ {c}) = Cardinality(Awake) - 1
          BY <3>1, AwakeCounts, FS_RemoveElement
        <4> QED
          BY <4>1, <4>2, AwakeCounts
      <3>3. CASE Awake = Running
        BY <3>1, <3>3
      <3>4. CASE Cardinality(Awake) >= g_count
        BY <1>1, <1>2, <3>1, <3>2, <3>4
      <3> QED
        BY <3>3, <3>4 DEF BufferInv, SleepsWell
    <2> QED
      BY <1>3, <2>1, <2>2
  <1>8. buffer_pc'[0] # "asleep"
    BY <1>4
  <1> QED
    BY <1>5, <1>6, <1>7, <1>8 DEF BufferInv, SleepsWell

LEMMA BufferStays == ASSUME BufferInv, UNCHANGED ring PROVE BufferInv'
  BY DEF ring, BufferInv, BufferTypes, RingHolds, SleepsWell, Awake, Running

LEMMA BufferStepKeeps ==
    ASSUME BufferInv, Created, NEW t \in Thread, BufferStep(t)
    PROVE  BufferInv'
  <1>1. /\ IF t = Consumers + 1 THEN Buffer!Produce ELSE Buffer!Consume(t)
        /\ Touring /\ part = "buffer" /\ t <= created
    BY DEF BufferStep
  <1>2. \A u \in Buffer!Thread : Buffer!Acquire(u) => BufferInv'
    BY WaitStep, Zenon DEF Buffer!Acquire, Buffer!ring
  <1>3. CASE t = Consumers + 1
    <2>1. ASSUME Buffer!PutWaits PROVE BufferInv'
      <3>1. /\ buffer_pc[0] = "test" /\ g_count = Slots
            /\ buffer_pc' = [buffer_pc EXCEPT ![0] = "asleep"]
            /\ UNCHANGED <<g_buffer, g_count, g_head, g_tail, put, taken>>
        BY <2>1, BufferNames DEF Buffer!PutWaits, Buffer!Sleep, Buffer!Full, Buffer!ring
      <3>2. 0 \in Buffer!Thread /\ "test" # "done"
        BY BufferNames, Sizes
      <3> QED
        BY <3>1, <3>2, WaitStep
    <2> QED
      BY <1>1, <1>2, <1>3, <2>1, PutStep, BufferNames, Sizes DEF Buffer!Produce
  <1>4. CASE t # Consumers + 1
    <2>1. t \in Buffer!Consumer
      <3>1. t \in Nat /\ t > 0 /\ t <= Consumers + 1
        BY <1>1, SizeIs, Sizes DEF Created, Thread
      <3> QED
        BY <1>4, <3>1, Sizes, BufferNames
    <2>2. ASSUME Buffer!TakeWaits(t) PROVE BufferInv'
      <3>1. /\ buffer_pc[t] = "test" /\ g_count = 0
            /\ buffer_pc' = [buffer_pc EXCEPT ![t] = "asleep"]
            /\ UNCHANGED <<g_buffer, g_count, g_head, g_tail, put, taken>>
        BY <2>2 DEF Buffer!TakeWaits, Buffer!Sleep, Buffer!ring
      <3>2. t \in Buffer!Thread /\ t # 0
        BY <2>1, BufferNames
      <3> QED
        BY <3>1, <3>2, WaitStep
    <2>3. t \in Buffer!Thread
      BY <2>1, BufferNames
    <2> QED
      BY <1>1, <1>2, <1>4, <2>1, <2>2, <2>3, TakeStep DEF Buffer!Consume
  <1> QED
    BY <1>3, <1>4

LEMMA SpuriousKeeps == ASSUME BufferInv, SpuriousWakeup PROVE BufferInv'
  <1>1. PICK t \in Buffer!Thread : Buffer!SpuriousWakeup(t)
    BY DEF SpuriousWakeup
  <1> QED
    BY <1>1, WaitStep DEF Buffer!SpuriousWakeup, Buffer!ring
LEMMA BufferNext == ASSUME BufferInv, Created, [Next]_vars PROVE BufferInv'
  <1>1. CASE main
    BY <1>1, BufferStays DEF main, Create, CreateFails, Join
  <1>2. CASE SpuriousWakeup
    BY <1>2, SpuriousKeeps
  <1>3. ASSUME NEW t \in Thread, Run(t) PROVE BufferInv'
    <2>1. CASE BufferStep(t)
      BY <2>1, BufferStepKeeps
    <2>2. CASE ~BufferStep(t)
      BY <1>3, <2>2, BufferStays
         DEF Run, SetShared, LockCounter, Load, Store, UnlockCounter, AtomicAdd, Enter, CountIn,
             Look, Raise, CountOut, Leave, StartLine, WriteLock, Write, WriteUnlock, LockFirst,
             BothHoldOne, LockSecond, GiveUp, UnlockSecond, BothAreThrough, UnlockFirst, Barrier
    <2> QED
      BY <2>1, <2>2
  <1>4. CASE UNCHANGED vars
    BY <1>4, BufferStays DEF vars
  <1> QED
    BY <1>1, <1>2, <1>3, <1>4 DEF Next, Finished

LEMMA BufferAlways == Spec => []BufferInv
  BY BufferInit, BufferNext, CreatedAlways, PTL DEF Spec

(* Whatever the sizes and the interleaving, items leave the ring in the    *)
(* order in which they entered it, none lost and none doubled: part 3 with *)
(* any number of slots and consumers, and signals that wake anyone.        *)
THEOREM BufferInOrder == Spec => []InOrder
  <1>1. ASSUME BufferInv PROVE InOrder
    <2> DEFINE n      == Len(taken)
               rest   == [i \in 1 .. g_count |-> g_buffer[(g_head + i - 1) % Slots]]
               prefix == SubSeq(Buffer!Feed, 1, put)
    <2>1. /\ g_buffer \in [0 .. Slots - 1 -> Int] /\ g_count \in 0 .. Slots
          /\ g_head \in 0 .. Slots - 1 /\ put \in 0 .. Fed /\ taken \in Seq(Int)
      BY <1>1 DEF BufferInv, BufferTypes
    <2>2. /\ put = n + g_count
          /\ \A i \in 1 .. n : taken[i] = Buffer!Feed[i]
          /\ \A i \in 0 .. g_count - 1 : g_buffer[Ahead(g_head, i)] = Buffer!Feed[n + i + 1]
      BY <1>1 DEF BufferInv, RingHolds
    <2>3. /\ prefix \in Seq(Int) /\ Len(prefix) = put
          /\ \A i \in 1 .. put : prefix[i] = Buffer!Feed[i]
      BY <2>1, FeedFacts, Sizes
    <2>4. ASSUME NEW i \in 1 .. g_count
          PROVE  /\ g_buffer[(g_head + i - 1) % Slots] = Buffer!Feed[n + i]
                 /\ g_buffer[(g_head + i - 1) % Slots] \in Int
      <3>1. i - 1 \in 0 .. g_count - 1 /\ i - 1 \in 0 .. Slots /\ g_head + i - 1 = g_head + (i - 1)
        BY <2>1, Sizes
      <3>2. (g_head + i - 1) % Slots = Ahead(g_head, i - 1)
            /\ Ahead(g_head, i - 1) \in 0 .. Slots - 1
        BY <2>1, <3>1, GoesRound
      <3>3. n \in Nat /\ n + (i - 1) + 1 = n + i
        BY <2>1
      <3> QED
        BY <2>1, <2>2, <3>1, <3>2, <3>3
    <2>5. /\ rest \in Seq(Int) /\ Len(rest) = g_count
          /\ \A i \in 1 .. g_count : rest[i] = Buffer!Feed[n + i]
      <3>1. g_count \in Nat
        BY <2>1, Sizes
      <3>2. rest = [i \in 1 .. g_count |-> g_buffer[(g_head + i - 1) % Slots]]
        OBVIOUS
      <3> HIDE DEF rest, n
      <3>3. rest \in [1 .. g_count -> Int]
        BY <2>4, <3>2
      <3> QED
        BY <2>4, <3>1, <3>2, <3>3
    <2>6. n \in Nat /\ g_count \in Nat
      BY <2>1, Sizes
    <2> HIDE DEF rest, prefix
    <2>7. /\ taken \o rest \in Seq(Int) /\ Len(taken \o rest) = n + g_count
          /\ \A i \in 1 .. n : (taken \o rest)[i] = taken[i]
          /\ \A i \in n + 1 .. n + g_count : (taken \o rest)[i] = rest[i - n]
      <3>1. taken \in Seq(Int) /\ Len(taken) = n
        BY <2>1
      <3> HIDE DEF n
      <3>2. /\ taken \o rest \in Seq(Int) /\ Len(taken \o rest) = n + g_count
            /\ \A i \in 1 .. n + g_count : (taken \o rest)[i] = IF i <= n THEN taken[i] ELSE rest[i - n]
        BY <2>5, <3>1, ConcatProperties
      <3>3. /\ \A i \in 1 .. n : i \in 1 .. n + g_count /\ i <= n
            /\ \A i \in n + 1 .. n + g_count : i \in 1 .. n + g_count /\ ~(i <= n)
        BY <2>6
      <3> QED
        BY <3>2, <3>3
    <2> HIDE DEF n
    <2>8. ASSUME NEW i \in 1 .. put PROVE (taken \o rest)[i] = prefix[i]
      <3>1. CASE i \in 1 .. n
        BY <2>2, <2>3, <2>7, <3>1
      <3>2. CASE i \in n + 1 .. n + g_count
        <4>1. i - n \in 1 .. g_count /\ n + (i - n) = i
          BY <2>6, <3>2
        <4> QED
          BY <2>3, <2>5, <2>7, <3>2, <4>1
      <3>3. i \in 1 .. n + g_count
        BY <2>2
      <3>4. i \in 1 .. n \/ i \in n + 1 .. n + g_count
        BY <2>6, <3>3
      <3> QED
        BY <3>1, <3>2, <3>4
    <2>9. taken \o rest = prefix
      BY <2>2, <2>3, <2>7, <2>8, SeqEqual
    <2> QED
      BY <2>9 DEF InOrder, Buffer!InOrder, rest, prefix
  <1> QED
    BY <1>1, BufferAlways, PTL

LEMMA SameCardinality == \A S : Buffer!Cardinality(S) = Cardinality(S)
  BY DEF Buffer!Cardinality, Cardinality

(* One signal for each item and each freed slot is enough, for any number  *)
(* of consumers and slots: nobody sleeps on while there is work for it.    *)
THEOREM SignalsSuffice == Spec => []NobodyForgotten
  <1>1. ASSUME BufferInv PROVE NobodyForgotten
    <2>1. Running = {c \in Buffer!Consumer : buffer_pc[c] # "done"}
          /\ Awake = {c \in Running : buffer_pc[c] # "asleep"}
      BY DEF Running, Awake
    <2>2. SleepsWell
      BY <1>1 DEF BufferInv
    <2>3. buffer_pc[Buffer!producer] = "asleep" => Buffer!Full
      BY <2>2, BufferNames DEF SleepsWell, Buffer!Full
    <2>4. Cardinality(Awake) >= g_count \/ Awake = Running
      BY <2>2 DEF SleepsWell
    <2> HIDE DEF Running, Awake
    <2> QED
      BY <2>1, <2>3, <2>4, SameCardinality, Zenon DEF NobodyForgotten, Buffer!NobodyForgotten
  <1> QED
    BY <1>1, BufferAlways, PTL
----------------------------------------------------------------------------
(* What the threads of the other parts do.                                 *)

Counters  == {"unsafe", "locked", "atomic"}
Visit     == {"count", "look", "raise", "inside", "leave"}

\* Where a thread can be at a step of the tour.
Places(n) ==
    CASE n = 1 -> {"set", "done"}
      [] n = 2 -> {"load", "store", "done"}
      [] n = 3 -> {"lock", "load", "store", "unlock", "done"}
      [] n = 4 -> {"add", "done"}
      [] n = 5 -> {"done"}
      [] n = 6 -> {"enter", "done"} \cup Visit
      [] n \in {7, 8} -> {"waiting", "done"} \cup TransferLabels
      [] n = 9 -> {"line", "waiting", "enter", "write", "unlock table", "done"} \cup Visit
      [] OTHER -> Label

Control == pc \in [Thread -> Places(step)]

Memory ==
    /\ g_counter \in [Counters -> Nat] /\ loaded \in [Thread -> Nat] /\ rounds \in [Thread -> Nat]
    /\ inside \in [Room -> Int] /\ most \in [Room -> Nat] /\ peak \in [Room -> Int]
    /\ mine \in [Thread -> Int]

ThreadInv == Inv /\ Created /\ Control /\ Memory

LEMMA PlacesAre ==
    /\ Places(1) = {"set", "done"} /\ Places(2) = {"load", "store", "done"}
    /\ Places(3) = {"lock", "load", "store", "unlock", "done"} /\ Places(4) = {"add", "done"}
    /\ Places(6) = {"enter", "done"} \cup Visit
    /\ Places(9) = {"line", "waiting", "enter", "write", "unlock table", "done"} \cup Visit
    /\ Places(5) = {"done"} /\ Places(0) = Label /\ Places(10) = Label
    /\ Places(7) = {"waiting", "done"} \cup TransferLabels
    /\ Places(8) = {"waiting", "done"} \cup TransferLabels
  BY DEF Places

\* Who can run at a step of the tour, and that it is a thread of the part.
LEMMA WhoRuns ==
    ASSUME ThreadInv, NEW t \in Thread, Run(t)
    PROVE  /\ step \in 1 .. 9 /\ t \in 1 .. Size(part) /\ UNCHANGED <<step, created>>
           /\ step = 1 => SetShared(t)
           /\ step = 2 => Load(t) \/ Store(t)
           /\ step = 3 => LockCounter(t) \/ Load(t) \/ Store(t) \/ UnlockCounter(t)
           /\ step = 4 => AtomicAdd(t)
           /\ step = 5 => BufferStep(t)
           /\ step = 6 => Enter(t) \/ CountIn(t) \/ Look(t) \/ Raise(t) \/ CountOut(t) \/ Leave(t)
           /\ step \in {7, 8} => Transfers(t)
           /\ step = 9 => \/ Enter(t) \/ CountIn(t) \/ Look(t) \/ Raise(t) \/ CountOut(t) \/ Leave(t)
                          \/ StartLine(t) \/ WriteLock(t) \/ Write(t) \/ WriteUnlock(t)
  <1>1. pc[t] \in Places(step)
    BY DEF ThreadInv, Control
  <1>2. Touring /\ t <= created /\ UNCHANGED <<step, created>>
    BY RunStays
       DEF Run, SetShared, LockCounter, Load, Store, UnlockCounter, AtomicAdd, BufferStep, Enter,
           CountIn, Look, Raise, CountOut, Leave, StartLine, WriteLock, Write, WriteUnlock, LockFirst,
           BothHoldOne, LockSecond, GiveUp, UnlockSecond, BothAreThrough, UnlockFirst, Barrier, At
  <1>3. step \in 1 .. 9 /\ t \in 1 .. Size(part)
    <2>1. step \in 1 .. 9
      BY <1>2, TourFacts DEF Touring
    <2>2. created \in 0 .. Size(part) /\ Size(part) \in Nat
      BY <1>2, SizeType DEF ThreadInv, Created, part, Touring
    <2>3. t \in Nat /\ t > 0
      BY DEF Thread
    <2> QED
      BY <1>2, <2>1, <2>2, <2>3
  <1>4. BufferStep(t) => step = 5
    BY <1>3, TourFacts DEF BufferStep, part, opposite, same
  <1>5. Transfers(t) => pc[t] \in TransferLabels
    BY DEF Transfers, LockFirst, BothHoldOne, LockSecond, GiveUp, UnlockSecond, BothAreThrough,
           UnlockFirst, Barrier, At, TransferLabels
  <1>6. /\ SetShared(t) => pc[t] = "set"
        /\ LockCounter(t) => pc[t] = "lock"
        /\ Load(t) => pc[t] = "load"
        /\ Store(t) => pc[t] = "store"
        /\ UnlockCounter(t) => pc[t] = "unlock"
        /\ AtomicAdd(t) => pc[t] = "add"
    BY DEF SetShared, LockCounter, Load, Store, UnlockCounter, AtomicAdd, At
  <1>7. /\ Enter(t) => pc[t] = "enter"
        /\ StartLine(t) => pc[t] = "line"
        /\ WriteLock(t) => pc[t] = "enter" /\ part = "table"
        /\ Write(t) => pc[t] = "write"
        /\ WriteUnlock(t) => pc[t] = "unlock table"
        /\ CountIn(t) \/ Look(t) \/ Raise(t) \/ CountOut(t) \/ Leave(t) => pc[t] \in Visit
    BY DEF Enter, CountIn, Look, Raise, CountOut, Leave, StartLine, WriteLock, Write, WriteUnlock,
           Barrier, At, IsWriter, Visit
  <1>8. part = "table" => step = 9
    BY <1>3, TourFacts DEF part, opposite, same
  <1>9. \/ SetShared(t) \/ LockCounter(t) \/ Load(t) \/ Store(t) \/ UnlockCounter(t) \/ AtomicAdd(t)
        \/ BufferStep(t) \/ Transfers(t)
        \/ Enter(t) \/ CountIn(t) \/ Look(t) \/ Raise(t) \/ CountOut(t) \/ Leave(t)
        \/ StartLine(t) \/ WriteLock(t) \/ Write(t) \/ WriteUnlock(t)
    BY DEF Run, Transfers
  <1>10. pc[t] \in TransferLabels =>
            pc[t] \notin {"set", "load", "store", "lock", "unlock", "add", "line", "waiting", "enter", "write",
                         "unlock table", "done", "count", "look", "raise", "inside", "leave"}
    BY DEF TransferLabels
  <1>11. ASSUME step = 1
         PROVE  SetShared(t)
    <2>1. pc[t] \in {"set", "done"}
      BY <1>1, <1>11, PlacesAre DEF Visit
    <2>2. ~Transfers(t)
      BY <1>5, <1>10, <2>1
    <2>3. ~BufferStep(t)
      BY <1>4, <1>11
    <2> QED
      BY <1>6, <1>7, <1>9, <2>1, <2>2, <2>3 DEF Visit
  <1>12. ASSUME step = 2
         PROVE  Load(t) \/ Store(t)
    <2>1. pc[t] \in {"load", "store", "done"}
      BY <1>1, <1>12, PlacesAre DEF Visit
    <2>2. ~Transfers(t)
      BY <1>5, <1>10, <2>1
    <2>3. ~BufferStep(t)
      BY <1>4, <1>12
    <2> QED
      BY <1>6, <1>7, <1>9, <2>1, <2>2, <2>3 DEF Visit
  <1>13. ASSUME step = 3
         PROVE  LockCounter(t) \/ Load(t) \/ Store(t) \/ UnlockCounter(t)
    <2>1. pc[t] \in {"lock", "load", "store", "unlock", "done"}
      BY <1>1, <1>13, PlacesAre DEF Visit
    <2>2. ~Transfers(t)
      BY <1>5, <1>10, <2>1
    <2>3. ~BufferStep(t)
      BY <1>4, <1>13
    <2> QED
      BY <1>6, <1>7, <1>9, <2>1, <2>2, <2>3 DEF Visit
  <1>14. ASSUME step = 4
         PROVE  AtomicAdd(t)
    <2>1. pc[t] \in {"add", "done"}
      BY <1>1, <1>14, PlacesAre DEF Visit
    <2>2. ~Transfers(t)
      BY <1>5, <1>10, <2>1
    <2>3. ~BufferStep(t)
      BY <1>4, <1>14
    <2> QED
      BY <1>6, <1>7, <1>9, <2>1, <2>2, <2>3 DEF Visit
  <1>15. ASSUME step = 5
         PROVE  BufferStep(t)
    <2>1. pc[t] \in {"done"}
      BY <1>1, <1>15, PlacesAre DEF Visit
    <2>2. ~Transfers(t)
      BY <1>5, <1>10, <2>1
    <2> QED
      BY <1>6, <1>7, <1>9, <2>1, <2>2 DEF Visit
  <1>16. ASSUME step = 6
         PROVE  Enter(t) \/ CountIn(t) \/ Look(t) \/ Raise(t) \/ CountOut(t) \/ Leave(t)
    <2>1. pc[t] \in {"enter", "done", "count", "look", "raise", "inside", "leave"}
      BY <1>1, <1>16, PlacesAre DEF Visit
    <2>2. ~Transfers(t)
      BY <1>5, <1>10, <2>1
    <2>3. part # "table" /\ ~BufferStep(t)
      BY <1>4, <1>8, <1>16
    <2> QED
      BY <1>6, <1>7, <1>9, <2>1, <2>2, <2>3 DEF Visit
  <1>18. ASSUME step = 9
         PROVE  \/ Enter(t) \/ CountIn(t) \/ Look(t) \/ Raise(t) \/ CountOut(t) \/ Leave(t)
               \/ StartLine(t) \/ WriteLock(t) \/ Write(t) \/ WriteUnlock(t)
    <2>1. pc[t] \in {"line", "waiting", "enter", "write", "unlock table", "done",
                 "count", "look", "raise", "inside", "leave"}
      BY <1>1, <1>18, PlacesAre DEF Visit
    <2>2. ~Transfers(t)
      BY <1>5, <1>10, <2>1
    <2>3. ~BufferStep(t)
      BY <1>4, <1>18
    <2> QED
      BY <1>6, <1>7, <1>9, <2>1, <2>2, <2>3 DEF Visit
  <1>17. ASSUME step \in {7, 8} PROVE Transfers(t)
    <2>1. pc[t] \in TransferLabels \/ pc[t] \in {"waiting", "done"}
      BY <1>1, <1>17, PlacesAre
    <2>2. pc[t] \notin {"set", "load", "store", "lock", "unlock", "add", "line", "enter", "write",
                       "unlock table", "count", "look", "raise", "inside", "leave"}
      BY <1>10, <2>1
    <2>3. ~BufferStep(t)
      BY <1>4, <1>17
    <2> QED
      BY <1>6, <1>7, <1>9, <2>2, <2>3 DEF Visit
  <1> QED
    BY <1>2, <1>3, <1>11, <1>12, <1>13, <1>14, <1>15, <1>16, <1>17, <1>18
LEMMA PartIs ==
    /\ step = 1 => part = "share"
    /\ step = 2 => part = "unsafe"
    /\ step = 3 => part = "locked"
    /\ step = 4 => part = "atomic"
    /\ step = 6 => part = "semaphore"
    /\ step = 9 => part = "table"
  BY TourFacts DEF part

LEMMA PlacesJoin ==
    ASSUME NEW n \in 1 .. 10
    PROVE  (IF n \in DOMAIN Tour THEN Entry(Tour[n]) ELSE "done") \in Places(n)
  <1>1. /\ Entry("share") = "set" /\ Entry("unsafe") = "load" /\ Entry("locked") = "lock"
        /\ Entry("atomic") = "add" /\ Entry("buffer") = "done" /\ Entry("semaphore") = "enter"
        /\ Entry("opposite") = "first" /\ Entry("same") = "first" /\ Entry("table") = "line"
    BY DEF Entry
  <1>2. n \in 1 .. 9 \/ n = 10
    OBVIOUS
  <1>3. CASE n = 10
    <2>0. DOMAIN Tour = 1 .. 9 /\ Places(10) = Label
      BY TourFacts, PlacesAre
    <2>1. n \notin DOMAIN Tour /\ Places(n) = Label
      BY <1>3, <2>0
    <2> QED
      BY <2>1 DEF Label
  <1>4. CASE n \in 1 .. 9
    <2>1. n = 1 \/ n = 2 \/ n = 3 \/ n = 4 \/ n = 5 \/ n = 6 \/ n = 7 \/ n = 8 \/ n = 9
      BY <1>4
    <2>2. n \in DOMAIN Tour
      BY <1>4, TourFacts
    <2>3. Tour[7] = "opposite" /\ Tour[8] = "same"
      BY TourFacts DEF opposite, same
    <2>4. Entry(Tour[n]) \in Places(n)
      <3>1. n \in {1, 2, 3, 4, 5} => Entry(Tour[n]) \in Places(n)
        BY <1>1, PlacesAre, TourFacts, ZenonT(30)
      <3>2. n \in {6, 9} => Entry(Tour[n]) \in Places(n)
        BY <1>1, PlacesAre, TourFacts, ZenonT(30)
      <3>3. "first" \in Places(7) /\ "first" \in Places(8)
        BY PlacesAre DEF TransferLabels
      <3>4. n \in {7, 8} => Entry(Tour[n]) \in Places(n)
        BY <1>1, <2>3, <3>3
      <3> QED
        BY <2>1, <3>1, <3>2, <3>4
    <2> QED
      BY <2>2, <2>4
  <1> QED
    BY <1>2, <1>3, <1>4

LEMMA ThreadInit == Init => ThreadInv
  <1> SUFFICES ASSUME Init PROVE ThreadInv
    OBVIOUS
  <1>1. /\ step = 1 /\ pc = [t \in Thread |-> "set"] /\ g_counter = [k \in Counters |-> 0]
        /\ loaded = [t \in Thread |-> 0] /\ rounds = [t \in Thread |-> 0]
        /\ inside = [r \in Room |-> 0] /\ most = [r \in Room |-> 0] /\ peak = [r \in Room |-> 0]
        /\ mine = [t \in Thread |-> 0]
    BY DEF Init, Entry, Counters
  <1>2. Control
    BY <1>1, PlacesAre DEF Control
  <1>3. Memory
    BY <1>1 DEF Memory
  <1> QED
    BY <1>2, <1>3, Initial, CreatedInit DEF ThreadInv

LEMMA ControlStep == ASSUME ThreadInv, [Next]_vars PROVE Control'
  <1>1. pc' \in [Thread -> Label] /\ step \in 0 .. 10
    BY Step DEF ThreadInv, Inv, Types
  <1>2. pc \in [Thread -> Places(step)]
    BY DEF ThreadInv, Control
  <1>3. CASE Create \/ UNCHANGED vars
    BY <1>2, <1>3 DEF Create, Control, vars, local
  <1>4. CASE CreateFails
    BY <1>1, <1>4, PlacesAre DEF CreateFails, Control
  <1>5. CASE Join
    <2>1. step' = step + 1 /\ step \in 1 .. 9
      BY <1>5, TourFacts DEF Join, Touring
    <2>2. step' \in 1 .. 10
      BY <2>1
    <2>3. (IF step' \in DOMAIN Tour THEN Entry(Tour[step']) ELSE "done") \in Places(step')
      BY <2>2, PlacesJoin
    <2> QED
      BY <1>5, <2>3 DEF Join, Control
  <1>6. CASE SpuriousWakeup
    BY <1>2, <1>6, RunStays DEF SpuriousWakeup, Control
  <1>7. ASSUME NEW t \in Thread, Run(t) PROVE Control'
    <2>0. step' = step /\ step \in 1 .. 9
      BY <1>7, WhoRuns
    <2>1. \/ pc' = pc
          \/ \E l \in Places(step) : pc' = [pc EXCEPT ![t] = l]
          \/ \E l \in Places(step) : pc' = [u \in Thread |-> IF u <= Size(part) THEN l ELSE pc[u]]
      <3>1. CASE step = 1
        BY <1>7, <3>1, WhoRuns, PlacesAre DEF SetShared, Goto
      <3>2. CASE step = 2
        BY <1>7, <3>2, WhoRuns, PlacesAre, PartIs DEF Load, Store, Counted, Goto
      <3>3. CASE step = 3
        BY <1>7, <3>3, WhoRuns, PlacesAre, PartIs DEF LockCounter, Load, Store, UnlockCounter, Counted, Goto
      <3>4. CASE step = 4
        BY <1>7, <3>4, WhoRuns, PlacesAre DEF AtomicAdd, Counted, Goto
      <3>5. CASE step = 5
        BY <1>7, <3>5, WhoRuns DEF BufferStep
      <3>6. CASE step = 6
        BY <1>7, <3>6, WhoRuns, PlacesAre DEF Enter, CountIn, Look, Raise, CountOut, Leave, Goto, Visit
      <3>7. CASE step \in {7, 8}
        <4>1. Transfers(t) /\ Places(step) = {"waiting", "done"} \cup TransferLabels
          BY <1>7, <3>7, WhoRuns, PlacesAre
        <4> QED
          BY <4>1 DEF Transfers, LockFirst, BothHoldOne, LockSecond, GiveUp, UnlockSecond, BothAreThrough,
                      UnlockFirst, Barrier, Goto, WithBarrier, TransferLabels
      <3>8. CASE step = 9
        BY <1>7, <3>8, WhoRuns, PlacesAre
           DEF Enter, CountIn, Look, Raise, CountOut, Leave, StartLine, WriteLock, Write, WriteUnlock,
               Barrier, Goto, Visit
      <3> QED
        BY <2>0, <3>1, <3>2, <3>3, <3>4, <3>5, <3>6, <3>7, <3>8
    <2> QED
      BY <1>2, <2>0, <2>1 DEF Control
  <1> QED
    BY <1>3, <1>4, <1>5, <1>6, <1>7 DEF Next, main, Finished
LEMMA MemoryStep == ASSUME ThreadInv, [Next]_vars PROVE Memory'
  <1>1. /\ g_counter \in [Counters -> Nat] /\ loaded \in [Thread -> Nat] /\ rounds \in [Thread -> Nat]
        /\ inside \in [Room -> Int] /\ most \in [Room -> Nat] /\ peak \in [Room -> Int]
        /\ mine \in [Thread -> Int]
    BY DEF ThreadInv, Memory
  <1>2. CASE main \/ SpuriousWakeup \/ UNCHANGED vars
    BY <1>1, <1>2 DEF main, Create, CreateFails, Join, SpuriousWakeup, vars, local, counting, rooms, Memory
  <1>3. ASSUME NEW t \in Thread, Run(t), step \in {1, 2, 3, 4} PROVE Memory'
    <2>1. CASE step = 1
      BY <1>1, <1>3, <2>1, WhoRuns DEF SetShared, local, rooms, Memory
    <2>2. UNCHANGED <<inside, most, peak, mine>>
      BY <1>3, WhoRuns DEF SetShared, LockCounter, Load, Store, UnlockCounter, AtomicAdd, rooms
    <2>3. step \in {2, 3} => part \in Counters
      BY PartIs DEF Counters
    <2>4. CASE LockCounter(t) \/ UnlockCounter(t) \/ AtomicAdd(t)
      BY <1>1, <2>2, <2>4 DEF LockCounter, UnlockCounter, AtomicAdd, Counted, local, counting, Memory
    <2>5. CASE Load(t) /\ step \in {2, 3}
      BY <1>1, <2>2, <2>3, <2>5 DEF Load, counting, Memory
    <2>6. CASE Store(t) /\ step \in {2, 3}
      BY <1>1, <2>2, <2>3, <2>6 DEF Store, Counted, local, Memory
    <2> QED
      BY <1>3, <2>1, <2>4, <2>5, <2>6, WhoRuns
  <1>4. ASSUME NEW t \in Thread, Run(t), step \in {5, 7, 8} PROVE Memory'
    <2>1. BufferStep(t) \/ Transfers(t)
      BY <1>4, WhoRuns
    <2>2. UNCHANGED <<local, counting, rooms>>
      BY <2>1 DEF BufferStep, Transfers, LockFirst, BothHoldOne, LockSecond, GiveUp, UnlockSecond,
                  BothAreThrough, UnlockFirst, Barrier
    <2> QED
      BY <1>1, <2>2 DEF local, counting, rooms, Memory
  <1>5. ASSUME NEW t \in Thread, Run(t), step \in {6, 9} PROVE Memory'
    <2>1. part \in Room
      BY <1>5, PartIs DEF Room
    <2>2. UNCHANGED counting
      BY <1>5, WhoRuns
         DEF Enter, CountIn, Look, Raise, CountOut, Leave, StartLine, WriteLock, Write, WriteUnlock, Barrier
    <2>3. CASE Enter(t) \/ Leave(t) \/ StartLine(t) \/ WriteLock(t) \/ Write(t) \/ WriteUnlock(t)
      BY <1>1, <2>2, <2>3
         DEF Enter, Leave, StartLine, WriteLock, Write, WriteUnlock, Barrier, local, counting, rooms, Memory
    <2>4. CASE CountIn(t)
      BY <1>1, <2>1, <2>2, <2>4 DEF CountIn, local, counting, Memory
    <2>5. CASE Look(t)
      BY <1>1, <2>1, <2>2, <2>5 DEF Look, counting, rooms, Memory
    <2>6. CASE Raise(t)
      <3>1. loaded' \in [Thread -> Nat]
        BY <1>1, <2>1, <2>6 DEF Raise
      <3>2. most' \in [Room -> Nat]
        <4>1. most' = most \/ most' = [most EXCEPT ![part] = IF mine[t] > loaded[t] THEN mine[t] ELSE @]
          BY <2>6 DEF Raise
        <4>2. mine[t] > loaded[t] => mine[t] \in Nat
          BY <1>1
        <4> QED
          BY <1>1, <2>1, <4>1, <4>2
      <3> QED
        BY <1>1, <2>2, <2>6, <3>1, <3>2 DEF Raise, counting, Memory
    <2>7. CASE CountOut(t)
      BY <1>1, <2>1, <2>2, <2>7 DEF CountOut, local, counting, Memory
    <2> QED
      BY <1>5, <2>3, <2>4, <2>5, <2>6, <2>7, WhoRuns
  <1>6. \A t \in Thread : Run(t) => step \in {1, 2, 3, 4} \/ step \in {5, 7, 8} \/ step \in {6, 9}
    BY WhoRuns
  <1> QED
    BY <1>2, <1>3, <1>4, <1>5, <1>6 DEF Next, Finished

LEMMA ThreadsAlways == Spec => []ThreadInv
  <1>1. ThreadInv /\ [Next]_vars => ThreadInv'
    BY Step, CreatedStep, ControlStep, MemoryStep DEF ThreadInv
  <1> QED
    BY <1>1, ThreadInit, PTL DEF Spec
----------------------------------------------------------------------------
(* The counters: the increments that threads have done, and what has been  *)
(* stored of them.                                                         *)

Team == 1 .. Threads

\* The increments done: the r-th of thread t, for each t.
Counts(done) == {p \in Team \X (1 .. Increments) : p[2] <= done[p[1]]}
Sum == Cardinality(Counts(rounds))

RoundsRight ==
    step \in {2, 3, 4} =>
        \A t \in Team : /\ rounds[t] \in 0 .. Increments
                        /\ pc[t] = "done" <=> rounds[t] = Increments

\* A thread loads at least 1 after its first round; one thread loses nothing.
UnsafeRight ==
    /\ step = 1 => g_counter["unsafe"] = 0
    /\ step = 2 =>
        /\ g_counter["unsafe"] <= Sum
        /\ \A t \in Team :
              /\ rounds[t] >= 1 => g_counter["unsafe"] >= 1
              /\ pc[t] = "store" => loaded[t] <= Sum /\ (rounds[t] >= 1 => loaded[t] >= 1)
        /\ (\A t \in Team : pc[t] = "done") /\ Increments > 1 => g_counter["unsafe"] >= 2
        /\ Threads = 1 => /\ g_counter["unsafe"] = rounds[1]
                          /\ pc[1] = "store" => loaded[1] = rounds[1]
    /\ step > 2 => g_counter["unsafe"] \in Fewest .. Expected

\* The mutex is held from the lock to the unlock, and only by one.
LockedRight ==
    /\ step \in {1, 2} => g_counter["locked"] = 0 /\ owner["counter"] = Nobody
    /\ step = 3 =>
        /\ \A t \in Team :
              /\ pc[t] \in {"load", "store", "unlock"} <=> owner["counter"] = t
              /\ pc[t] = "store" => loaded[t] = g_counter["locked"]
              /\ pc[t] = "unlock" => g_counter["locked"] = Sum + 1
        /\ (\A t \in Team : pc[t] # "unlock") => g_counter["locked"] = Sum
    /\ step > 3 => g_counter["locked"] = Expected

AtomicRight ==
    /\ step \in {1, 2, 3} => g_counter["atomic"] = 0
    /\ step = 4 => g_counter["atomic"] = Sum
    /\ step > 4 => g_counter["atomic"] = Expected

CountInv == RoundsRight /\ UnsafeRight /\ LockedRight /\ AtomicRight

LEMMA TeamFacts ==
    /\ Threads \in Nat \ {0} /\ Increments \in Nat \ {0} /\ 1 \in Team
    /\ Expected = Threads * Increments /\ Expected \in Nat
    /\ IsFiniteSet(Team \X (1 .. Increments))
    /\ Cardinality(Team \X (1 .. Increments)) = Expected
  <1>1. Threads \in Nat \ {0} /\ Increments \in Nat \ {0}
    BY TourAssumption
  <1>2. /\ IsFiniteSet(Team) /\ Cardinality(Team) = Threads
        /\ IsFiniteSet(1 .. Increments) /\ Cardinality(1 .. Increments) = Increments
    BY <1>1, FS_Interval DEF Team
  <1>3. Expected = Threads * Increments /\ Expected \in Nat
    BY <1>1 DEF Expected
  <1>4. /\ IsFiniteSet(Team \X (1 .. Increments))
        /\ Cardinality(Team \X (1 .. Increments)) = Cardinality(Team) * Cardinality(1 .. Increments)
    BY <1>2, FS_Product
  <1>5. 1 \in Team
    BY <1>1 DEF Team
  <1> QED
    BY <1>1, <1>2, <1>3, <1>4, <1>5

LEMMA CountsFinite ==
    ASSUME NEW done
    PROVE  /\ IsFiniteSet(Counts(done)) /\ Cardinality(Counts(done)) \in Nat
           /\ Cardinality(Counts(done)) <= Expected
  <1>1. Counts(done) \subseteq Team \X (1 .. Increments)
    BY DEF Counts
  <1> QED
    BY <1>1, TeamFacts, FS_Subset, FS_CardinalityType

LEMMA CountsNone ==
    ASSUME NEW done, \A t \in Team : done[t] = 0
    PROVE  Cardinality(Counts(done)) = 0
  <1>1. Counts(done) = {}
    BY TeamFacts DEF Counts
  <1> QED
    BY <1>1, FS_EmptySet

LEMMA CountsAll ==
    ASSUME NEW done, \A t \in Team : done[t] = Increments
    PROVE  Cardinality(Counts(done)) = Expected
  <1>1. Counts(done) = Team \X (1 .. Increments)
    BY TeamFacts DEF Counts
  <1> QED
    BY <1>1, TeamFacts

LEMMA CountsOne ==
    ASSUME NEW done \in [Thread -> Nat], NEW t \in Team, Team \subseteq Thread, done[t] < Increments
    PROVE  Cardinality(Counts([done EXCEPT ![t] = @ + 1])) = Cardinality(Counts(done)) + 1
  <1> DEFINE next == [done EXCEPT ![t] = @ + 1]
             new  == <<t, done[t] + 1>>
  <1>1. done[t] \in Nat /\ t \in Thread
    OBVIOUS
  <1>2. new \in Team \X (1 .. Increments) /\ new \notin Counts(done)
    BY <1>1, TeamFacts DEF Counts
  <1>3. ASSUME NEW p \in Team \X (1 .. Increments)
        PROVE  p \in Counts(next) <=> p \in Counts(done) \cup {new}
    <2>1. PICK u \in Team, r \in 1 .. Increments : p = <<u, r>>
      OBVIOUS
    <2>2. next[u] = IF u = t THEN done[u] + 1 ELSE done[u]
      OBVIOUS
    <2>3. done[u] \in Nat /\ r \in Nat
      BY TeamFacts
    <2>4. p \in Counts(next) <=> r <= next[u]
      BY <2>1 DEF Counts
    <2>5. p \in Counts(done) <=> r <= done[u]
      BY <2>1 DEF Counts
    <2>6. p = new <=> u = t /\ r = done[t] + 1
      BY <2>1
    <2> QED
      BY <2>2, <2>3, <2>4, <2>5, <2>6
  <1>4. Counts(next) = Counts(done) \cup {new}
    <2>1. Counts(next) \subseteq Team \X (1 .. Increments) /\ Counts(done) \subseteq Team \X (1 .. Increments)
      BY DEF Counts
    <2> HIDE DEF next, new
    <2> QED
      BY <1>2, <1>3, <2>1
  <1>5. Cardinality(Counts(done) \cup {new}) = Cardinality(Counts(done)) + 1
    BY <1>2, CountsFinite, FS_AddElement
  <1> QED
    BY <1>4, <1>5
LEMMA TeamRuns == Team \subseteq Thread
  <1>1. 2 \in DOMAIN Tour /\ Size(Tour[2]) = Threads
    BY TourFacts, SizeIs
  <1> QED
    BY <1>1, PartRuns DEF Team

LEMMA CountInit == Init => CountInv
  <1> SUFFICES ASSUME Init PROVE CountInv
    OBVIOUS
  <1>1. step = 1 /\ g_counter = [k \in Counters |-> 0] /\ owner = [l \in Lock |-> Nobody]
    BY DEF Init, Counters
  <1>2. \A k \in Counters : g_counter[k] = 0
    BY <1>1
  <1>3. owner["counter"] = Nobody
    BY <1>1 DEF Lock
  <1> QED
    BY <1>1, <1>2, <1>3 DEF CountInv, RoundsRight, UnsafeRight, LockedRight, AtomicRight, Counters

\* A step in another part.
LEMMA CountStays ==
    ASSUME CountInv, step \in {0, 1, 5, 6, 7, 8, 9, 10} \/ UNCHANGED <<pc, loaded, rounds, owner>>,
           step' = step \/ step' = 0, g_counter' = g_counter, owner'["counter"] = owner["counter"]
    PROVE  CountInv'
  <1>1. CASE step' = 0
    BY <1>1 DEF CountInv, RoundsRight, UnsafeRight, LockedRight, AtomicRight
  <1>2. CASE step' = step /\ UNCHANGED <<pc, loaded, rounds, owner>>
    BY <1>2 DEF CountInv, RoundsRight, UnsafeRight, LockedRight, AtomicRight, Sum
  <1>3. CASE step' = step /\ step \in {0, 1, 5, 6, 7, 8, 9, 10}
    BY <1>3 DEF CountInv, RoundsRight, UnsafeRight, LockedRight, AtomicRight
  <1> QED
    BY <1>1, <1>2, <1>3

LEMMA CountJoin == ASSUME ThreadInv, CountInv, Join PROVE CountInv'
  <1>1. /\ step' = step + 1 /\ step \in 1 .. 9 /\ g_counter' = g_counter /\ owner' = owner
        /\ rounds' = [t \in Thread |-> 0] /\ loaded' = [t \in Thread |-> 0]
        /\ pc' = [t \in Thread |-> IF step' \in DOMAIN Tour THEN Entry(Tour[step']) ELSE "done"]
        /\ \A t \in 1 .. Size(part) : Ended(t)
    BY TourFacts DEF Join, Touring, locks
  <1>2. g_counter \in [Counters -> Nat]
    BY DEF ThreadInv, Memory
  <1>3. Sum' = 0 /\ \A t \in Team : rounds'[t] = 0
    <2>1. \A t \in Team : rounds'[t] = 0
      BY <1>1, TeamRuns
    <2> QED
      BY <2>1, CountsNone DEF Sum
  <1>4. ASSUME step \in {2, 3, 4}
        PROVE  /\ \A t \in Team : pc[t] = "done" /\ rounds[t] = Increments
               /\ Sum = Expected
    <2>1. Size(part) = Threads /\ part # "buffer"
      BY <1>4, PartIs, SizeIs
    <2>2. \A t \in Team : pc[t] = "done" /\ rounds[t] = Increments
      BY <1>1, <1>4, <2>1 DEF Ended, Team, CountInv, RoundsRight
    <2> QED
      BY <2>2, CountsAll DEF Sum
  <1>5. ASSUME step' \in {2, 3, 4}
        PROVE  \A t \in Team : pc'[t] = IF step' = 2 THEN "load" ELSE IF step' = 3 THEN "lock" ELSE "add"
    <2>1. Entry("unsafe") = "load" /\ Entry("locked") = "lock" /\ Entry("atomic") = "add"
      BY DEF Entry
    <2>2. pc' = [t \in Thread |-> Entry(Tour[step'])]
      BY <1>1, <1>5, TourFacts
    <2> QED
      BY <1>5, <2>1, <2>2, TeamRuns, TourFacts
  <1>6. RoundsRight'
    BY <1>3, <1>5, TeamFacts DEF RoundsRight
  <1>7. UnsafeRight'
    <2>1. CASE step = 1
      <3>1. step' = 2 /\ g_counter'["unsafe"] = 0
        BY <1>1, <2>1 DEF CountInv, UnsafeRight
      <3>2. \A t \in Team : pc'[t] = "load" /\ rounds'[t] = 0
        BY <1>3, <1>5, <3>1
      <3> QED
        BY <1>3, <3>1, <3>2, TeamFacts DEF UnsafeRight
    <2>2. CASE step = 2
      <3>1. g_counter["unsafe"] \in Nat /\ g_counter["unsafe"] <= Expected
        BY <1>2, <1>4, <2>2 DEF CountInv, UnsafeRight, Counters
      <3>2. g_counter["unsafe"] >= 1
        BY <1>4, <2>2, TeamFacts DEF CountInv, UnsafeRight
      <3>3. Increments > 1 => g_counter["unsafe"] >= 2
        BY <1>4, <2>2 DEF CountInv, UnsafeRight
      <3>4. Threads = 1 => g_counter["unsafe"] = Increments
        BY <1>4, <2>2, TeamFacts DEF CountInv, UnsafeRight
      <3>5. g_counter["unsafe"] >= Fewest /\ Fewest \in Nat
        BY <3>1, <3>2, <3>3, <3>4, TeamFacts DEF Fewest
      <3>6. step' = 3
        BY <1>1, <2>2
      <3> QED
        BY <1>1, <3>1, <3>5, <3>6, TeamFacts DEF UnsafeRight
    <2>3. CASE step \in 3 .. 9
      BY <1>1, <2>3 DEF CountInv, UnsafeRight
    <2> QED
      BY <1>1, <2>1, <2>2, <2>3
  <1>8. LockedRight'
    <2>1. CASE step = 1
      BY <1>1, <2>1 DEF CountInv, LockedRight
    <2>2. CASE step = 2
      <3>1. step' = 3 /\ g_counter'["locked"] = 0 /\ owner'["counter"] = Nobody
        BY <1>1, <2>2 DEF CountInv, LockedRight
      <3>2. \A t \in Team : pc'[t] = "lock" /\ t # Nobody
        BY <1>5, <3>1 DEF Team, Nobody
      <3> QED
        BY <1>3, <3>1, <3>2 DEF LockedRight
    <2>3. CASE step = 3
      BY <1>1, <1>4, <2>3 DEF CountInv, LockedRight
    <2>4. CASE step \in 4 .. 9
      BY <1>1, <2>4 DEF CountInv, LockedRight
    <2> QED
      BY <1>1, <2>1, <2>2, <2>3, <2>4
  <1>9. AtomicRight'
    <2>1. CASE step \in {1, 2}
      BY <1>1, <2>1 DEF CountInv, AtomicRight
    <2>2. CASE step = 3
      BY <1>1, <1>3, <2>2 DEF CountInv, AtomicRight
    <2>3. CASE step = 4
      BY <1>1, <1>4, <2>3 DEF CountInv, AtomicRight
    <2>4. CASE step \in 5 .. 9
      BY <1>1, <2>4 DEF CountInv, AtomicRight
    <2> QED
      BY <1>1, <2>1, <2>2, <2>3, <2>4
  <1> QED
    BY <1>6, <1>7, <1>8, <1>9 DEF CountInv
\* What one more round of thread t does to the sum.
LEMMA OneMore ==
    ASSUME ThreadInv, CountInv, step \in {2, 3, 4}, NEW t \in Team, pc[t] # "done",
           NEW l, l # "done", Counted(t, l)
    PROVE  /\ Sum \in Nat /\ Sum' = Sum + 1 /\ Sum' <= Expected
           /\ rounds[t] \in Nat /\ rounds[t] < Increments
           /\ rounds'[t] = rounds[t] + 1
           /\ pc'[t] = IF rounds[t] + 1 = Increments THEN "done" ELSE l
           /\ \A u \in Team : u # t => rounds'[u] = rounds[u] /\ pc'[u] = pc[u]
           /\ \A u \in Team : /\ rounds'[u] \in 0 .. Increments
                              /\ pc'[u] = "done" <=> rounds'[u] = Increments
  <1>1. /\ rounds' = [rounds EXCEPT ![t] = @ + 1]
        /\ pc' = [pc EXCEPT ![t] = IF rounds'[t] = Increments THEN "done" ELSE l]
    BY DEF Counted, Goto
  <1>2. /\ rounds \in [Thread -> Nat] /\ t \in Thread /\ Team \subseteq Thread
        /\ pc \in [Thread -> Places(step)]
    BY TeamRuns DEF ThreadInv, Memory, Control
  <1>3. /\ rounds[t] \in Nat /\ rounds[t] < Increments
        /\ \A u \in Team : /\ rounds[u] \in 0 .. Increments
                           /\ pc[u] = "done" <=> rounds[u] = Increments
    BY <1>2, TeamFacts DEF CountInv, RoundsRight
  <1>4. Sum \in Nat /\ Sum' = Sum + 1
    BY <1>1, <1>2, <1>3, CountsOne, CountsFinite DEF Sum
  <1>5. Sum' <= Expected
    BY CountsFinite DEF Sum
  <1>6. /\ rounds'[t] = rounds[t] + 1
        /\ pc'[t] = IF rounds[t] + 1 = Increments THEN "done" ELSE l
        /\ \A u \in Team : u # t => rounds'[u] = rounds[u] /\ pc'[u] = pc[u]
    BY <1>1, <1>2
  <1>7. ASSUME NEW u \in Team
        PROVE  rounds'[u] \in 0 .. Increments /\ (pc'[u] = "done" <=> rounds'[u] = Increments)
    BY <1>3, <1>6, TeamFacts
  <1> QED
    BY <1>3, <1>4, <1>5, <1>6, <1>7

\* The other counters do not change.
LEMMA UnsafeRun ==
    ASSUME ThreadInv, CountInv, NEW t \in Thread, Run(t), step = 2
    PROVE  CountInv'
  <1>1. (Load(t) \/ Store(t)) /\ t \in Team /\ part = "unsafe" /\ step' = step
    BY WhoRuns, PartIs, SizeIs DEF Team
  <1>2. /\ g_counter \in [Counters -> Nat] /\ loaded \in [Thread -> Nat] /\ rounds \in [Thread -> Nat]
        /\ pc \in [Thread -> Places(step)] /\ Team \subseteq Thread
    BY TeamRuns DEF ThreadInv, Memory, Control
  <1>3. /\ g_counter["unsafe"] \in Nat /\ g_counter["unsafe"] <= Sum /\ Sum \in Nat
        /\ \A u \in Team :
              /\ rounds[u] >= 1 => g_counter["unsafe"] >= 1
              /\ pc[u] = "store" => loaded[u] <= Sum /\ (rounds[u] >= 1 => loaded[u] >= 1)
        /\ (\A u \in Team : pc[u] = "done") /\ Increments > 1 => g_counter["unsafe"] >= 2
        /\ Threads = 1 => g_counter["unsafe"] = rounds[1]
        /\ Threads = 1 => (pc[1] = "store" => loaded[1] = rounds[1])
    BY <1>2, CountsFinite DEF CountInv, UnsafeRight, Sum, Counters
  <1>4. \A u \in Team : rounds[u] \in Nat /\ loaded[u] \in Nat
    BY <1>2
  <1>5. CASE Load(t)
    <2>1. /\ pc[t] = "load" /\ pc' = [pc EXCEPT ![t] = "store"]
          /\ loaded' = [loaded EXCEPT ![t] = g_counter["unsafe"]]
          /\ UNCHANGED <<g_counter, rounds, owner>>
      BY <1>1, <1>5 DEF Load, At, Goto, counting, locks
    <2>2. /\ pc'[t] = "store" /\ loaded'[t] = g_counter["unsafe"] /\ Sum' = Sum
          /\ \A u \in Team : u # t => pc'[u] = pc[u] /\ loaded'[u] = loaded[u]
      BY <1>1, <1>2, <2>1 DEF Sum
    <2>3. RoundsRight'
      BY <1>1, <2>1, <2>2 DEF CountInv, RoundsRight
    <2>4. \A u \in Team : pc'[u] = "store" => loaded'[u] <= Sum' /\ (rounds'[u] >= 1 => loaded'[u] >= 1)
      BY <1>3, <1>4, <2>1, <2>2
    <2>5. UnsafeRight'
      <3>1. ~ \A u \in Team : pc'[u] = "done"
        BY <1>1, <2>2
      <3>2. Threads = 1 => t = 1
        BY <1>1 DEF Team
      <3> QED
        BY <1>1, <1>3, <2>1, <2>2, <2>4, <3>1, <3>2 DEF UnsafeRight
    <2>6. LockedRight' /\ AtomicRight'
      BY <1>1, <2>1 DEF CountInv, LockedRight, AtomicRight
    <2> QED
      BY <2>3, <2>5, <2>6 DEF CountInv
  <1>6. CASE Store(t)
    <2>1. /\ pc[t] = "store" /\ g_counter' = [g_counter EXCEPT !["unsafe"] = loaded[t] + 1]
          /\ Counted(t, "load") /\ UNCHANGED <<loaded, owner>>
      BY <1>1, <1>6 DEF Store, At, local, locks
    <2>2. /\ g_counter'["unsafe"] = loaded[t] + 1
          /\ g_counter'["locked"] = g_counter["locked"] /\ g_counter'["atomic"] = g_counter["atomic"]
      BY <1>2, <2>1 DEF Counters
    <2>3. /\ Sum' = Sum + 1 /\ rounds[t] < Increments /\ rounds'[t] = rounds[t] + 1
          /\ pc'[t] = IF rounds[t] + 1 = Increments THEN "done" ELSE "load"
          /\ \A u \in Team : u # t => rounds'[u] = rounds[u] /\ pc'[u] = pc[u]
          /\ \A u \in Team : /\ rounds'[u] \in 0 .. Increments
                             /\ pc'[u] = "done" <=> rounds'[u] = Increments
      BY <1>1, <2>1, OneMore
    <2>4. RoundsRight'
      BY <2>3 DEF RoundsRight
    <2>5. loaded[t] <= Sum /\ loaded[t] \in Nat /\ (rounds[t] >= 1 => loaded[t] >= 1)
      BY <1>1, <1>3, <1>4, <2>1
    <2>6. g_counter'["unsafe"] <= Sum' /\ g_counter'["unsafe"] >= 1
      BY <1>3, <2>2, <2>3, <2>5
    <2>7. \A u \in Team : pc'[u] = "store" => loaded'[u] <= Sum' /\ (rounds'[u] >= 1 => loaded'[u] >= 1)
      <3>1. pc'[t] # "store"
        BY <2>3
      <3> QED
        BY <1>3, <1>4, <2>1, <2>3, <3>1
    <2>8. (\A u \in Team : pc'[u] = "done") /\ Increments > 1 => g_counter'["unsafe"] >= 2
      <3>1. ASSUME pc'[t] = "done", Increments > 1 PROVE g_counter'["unsafe"] >= 2
        <4>1. rounds[t] + 1 = Increments /\ rounds[t] \in Nat
          BY <1>1, <1>4, <2>3, <3>1
        <4>2. rounds[t] >= 1
          BY <3>1, <4>1, TeamFacts
        <4> QED
          BY <2>2, <2>5, <4>2
      <3> QED
        BY <1>1, <3>1
    <2>9. Threads = 1 => g_counter'["unsafe"] = rounds'[1] /\ pc'[1] # "store"
      <3>1. Threads = 1 => t = 1
        BY <1>1 DEF Team
      <3> QED
        BY <1>3, <2>1, <2>2, <2>3, <3>1
    <2>10. UnsafeRight'
      BY <1>1, <2>6, <2>7, <2>8, <2>9 DEF UnsafeRight
    <2>11. LockedRight' /\ AtomicRight'
      BY <1>1, <2>1, <2>2 DEF CountInv, LockedRight, AtomicRight
    <2> QED
      BY <2>4, <2>10, <2>11 DEF CountInv
  <1> QED
    BY <1>1, <1>5, <1>6
LEMMA LockedRun ==
    ASSUME ThreadInv, CountInv, NEW t \in Thread, Run(t), step = 3
    PROVE  CountInv'
  <1>1. /\ LockCounter(t) \/ Load(t) \/ Store(t) \/ UnlockCounter(t)
        /\ t \in Team /\ t # Nobody /\ part = "locked" /\ step' = step
    BY WhoRuns, PartIs, SizeIs DEF Team, Nobody
  <1>2. /\ g_counter \in [Counters -> Nat] /\ loaded \in [Thread -> Nat] /\ owner \in [Lock -> Nat]
        /\ pc \in [Thread -> Places(step)] /\ Team \subseteq Thread /\ t \in Thread
        /\ "counter" \in Lock /\ "locked" \in Counters
    BY TeamRuns DEF ThreadInv, Memory, Control, Inv, Types, Lock, Counters
  <1>3. \A u \in Team :
              /\ pc[u] \in {"load", "store", "unlock"} <=> owner["counter"] = u
              /\ pc[u] = "store" => loaded[u] = g_counter["locked"]
              /\ pc[u] = "unlock" => g_counter["locked"] = Sum + 1
    BY <1>1 DEF CountInv, LockedRight
  <1>4. (\A u \in Team : pc[u] # "unlock") => g_counter["locked"] = Sum
    BY <1>1 DEF CountInv, LockedRight
  <1>5. g_counter["locked"] \in Nat /\ Sum \in Nat
    BY <1>2, CountsFinite DEF Sum
  <1>6. CASE LockCounter(t)
    <2>1. /\ pc[t] = "lock" /\ owner["counter"] = Nobody
          /\ owner' = [owner EXCEPT !["counter"] = t] /\ pc' = [pc EXCEPT ![t] = "load"]
          /\ UNCHANGED <<g_counter, rounds, loaded>>
      BY <1>6 DEF LockCounter, At, Goto, local, counting
    <2>2. /\ pc'[t] = "load" /\ owner'["counter"] = t /\ Sum' = Sum
          /\ \A u \in Team : u # t => pc'[u] = pc[u]
      BY <1>1, <1>2, <2>1 DEF Sum
    <2>3. \A u \in Team : pc[u] \notin {"load", "store", "unlock"}
      BY <1>3, <2>1 DEF Team, Nobody
    <2>4. RoundsRight'
      BY <1>1, <2>1, <2>2 DEF CountInv, RoundsRight
    <2>5. LockedRight'
      <3>1. g_counter'["locked"] = Sum'
        BY <1>4, <2>1, <2>2, <2>3
      <3> QED
        BY <1>1, <2>2, <2>3, <3>1 DEF LockedRight
    <2>6. UnsafeRight' /\ AtomicRight'
      BY <1>1, <2>1 DEF CountInv, UnsafeRight, AtomicRight
    <2> QED
      BY <2>4, <2>5, <2>6 DEF CountInv
  <1>7. CASE Load(t)
    <2>1. /\ pc[t] = "load" /\ pc' = [pc EXCEPT ![t] = "store"]
          /\ loaded' = [loaded EXCEPT ![t] = g_counter["locked"]]
          /\ UNCHANGED <<g_counter, rounds, owner>>
      BY <1>1, <1>7 DEF Load, At, Goto, counting, locks
    <2>2. /\ pc'[t] = "store" /\ loaded'[t] = g_counter["locked"] /\ Sum' = Sum
          /\ \A u \in Team : u # t => pc'[u] = pc[u] /\ loaded'[u] = loaded[u]
      BY <1>1, <1>2, <2>1 DEF Sum
    <2>3. RoundsRight'
      BY <1>1, <2>1, <2>2 DEF CountInv, RoundsRight
    <2>4. LockedRight'
      BY <1>1, <1>3, <1>4, <2>1, <2>2 DEF LockedRight
    <2>5. UnsafeRight' /\ AtomicRight'
      BY <1>1, <2>1 DEF CountInv, UnsafeRight, AtomicRight
    <2> QED
      BY <2>3, <2>4, <2>5 DEF CountInv
  <1>8. CASE Store(t)
    <2>1. /\ pc[t] = "store" /\ pc' = [pc EXCEPT ![t] = "unlock"]
          /\ g_counter' = [g_counter EXCEPT !["locked"] = loaded[t] + 1]
          /\ UNCHANGED <<rounds, loaded, owner>>
      BY <1>1, <1>8 DEF Store, At, Goto, local, locks
    <2>2. /\ pc'[t] = "unlock" /\ Sum' = Sum /\ g_counter'["locked"] = loaded[t] + 1
          /\ g_counter'["unsafe"] = g_counter["unsafe"] /\ g_counter'["atomic"] = g_counter["atomic"]
          /\ \A u \in Team : u # t => pc'[u] = pc[u]
      BY <1>1, <1>2, <2>1 DEF Sum, Counters
    <2>3. owner["counter"] = t /\ \A u \in Team \ {t} : pc[u] \notin {"load", "store", "unlock"}
      BY <1>1, <1>3, <2>1
    <2>4. g_counter'["locked"] = Sum' + 1
      <3>1. g_counter["locked"] = Sum
        BY <1>1, <1>4, <2>1, <2>3
      <3>2. loaded[t] = g_counter["locked"]
        BY <1>1, <1>3, <2>1
      <3> QED
        BY <2>2, <3>1, <3>2
    <2>5. RoundsRight'
      BY <1>1, <2>1, <2>2 DEF CountInv, RoundsRight
    <2>6. LockedRight'
      BY <1>1, <2>1, <2>2, <2>3, <2>4 DEF LockedRight
    <2>7. UnsafeRight' /\ AtomicRight'
      BY <1>1, <2>2 DEF CountInv, UnsafeRight, AtomicRight
    <2> QED
      BY <2>5, <2>6, <2>7 DEF CountInv
  <1>9. CASE UnlockCounter(t)
    <2>1. /\ pc[t] = "unlock" /\ owner' = [owner EXCEPT !["counter"] = Nobody]
          /\ Counted(t, "lock") /\ UNCHANGED <<g_counter, loaded>>
      BY <1>9 DEF UnlockCounter, At, local
    <2>2. /\ Sum' = Sum + 1 /\ rounds'[t] = rounds[t] + 1 /\ pc'[t] \in {"done", "lock"}
          /\ \A u \in Team : u # t => rounds'[u] = rounds[u] /\ pc'[u] = pc[u]
          /\ \A u \in Team : /\ rounds'[u] \in 0 .. Increments
                             /\ pc'[u] = "done" <=> rounds'[u] = Increments
      BY <1>1, <2>1, OneMore
    <2>3. owner'["counter"] = Nobody
          /\ \A u \in Team : pc'[u] \notin {"load", "store", "unlock"} /\ u # Nobody
      BY <1>1, <1>2, <1>3, <2>1, <2>2 DEF Team, Nobody
    <2>4. g_counter'["locked"] = Sum'
      BY <1>1, <1>3, <2>1, <2>2
    <2>5. RoundsRight'
      BY <2>2 DEF RoundsRight
    <2>6. LockedRight'
      BY <1>1, <2>3, <2>4 DEF LockedRight
    <2>7. UnsafeRight' /\ AtomicRight'
      BY <1>1, <2>1 DEF CountInv, UnsafeRight, AtomicRight
    <2> QED
      BY <2>5, <2>6, <2>7 DEF CountInv
  <1> QED
    BY <1>1, <1>6, <1>7, <1>8, <1>9

LEMMA AtomicRun ==
    ASSUME ThreadInv, CountInv, NEW t \in Thread, Run(t), step = 4
    PROVE  CountInv'
  <1>1. AtomicAdd(t) /\ t \in Team /\ step' = step
    BY WhoRuns, PartIs, SizeIs DEF Team
  <1>2. /\ pc[t] = "add" /\ g_counter' = [g_counter EXCEPT !["atomic"] = @ + 1] /\ Counted(t, "add")
        /\ owner' = owner
    BY <1>1 DEF AtomicAdd, At, locks
  <1>3. /\ Sum' = Sum + 1
        /\ \A u \in Team : /\ rounds'[u] \in 0 .. Increments
                           /\ pc'[u] = "done" <=> rounds'[u] = Increments
    BY <1>1, <1>2, OneMore
  <1>4. /\ g_counter'["atomic"] = g_counter["atomic"] + 1
        /\ g_counter'["unsafe"] = g_counter["unsafe"] /\ g_counter'["locked"] = g_counter["locked"]
    BY <1>2 DEF ThreadInv, Memory, Counters
  <1>5. RoundsRight'
    BY <1>3 DEF RoundsRight
  <1>6. AtomicRight' /\ UnsafeRight' /\ LockedRight'
    BY <1>1, <1>3, <1>4 DEF CountInv, AtomicRight, UnsafeRight, LockedRight
  <1> QED
    BY <1>5, <1>6 DEF CountInv

LEMMA CountNext == ASSUME ThreadInv, CountInv, [Next]_vars PROVE CountInv'
  <1>1. step \in 0 .. 10 /\ owner \in [Lock -> Nat]
    BY DEF ThreadInv, Inv, Types
  <1>2. CASE Create \/ CreateFails \/ SpuriousWakeup \/ UNCHANGED vars
    BY <1>2, CountStays DEF Create, CreateFails, SpuriousWakeup, vars, local, counting, locks
  <1>3. ASSUME NEW t \in Thread, Run(t), step \in {1, 5, 6, 7, 8, 9} PROVE CountInv'
    <2>1. step' = step
      BY <1>3, WhoRuns
    <2>2. g_counter' = g_counter /\ owner'["counter"] = owner["counter"]
      <3>1. CASE step \in {1, 5}
        BY <1>3, <3>1, WhoRuns DEF SetShared, BufferStep, counting, locks
      <3>2. CASE step \in {6, 9}
        <4>1. UNCHANGED <<counting, locks>>
          BY <1>3, <3>2, WhoRuns
             DEF Enter, CountIn, Look, Raise, CountOut, Leave, StartLine, WriteLock, Write, WriteUnlock,
                 Barrier
        <4> QED
          BY <4>1 DEF counting, locks
      <3>3. CASE step \in {7, 8}
        <4>1. Transfers(t)
          BY <1>3, <3>3, WhoRuns
        <4>2. UNCHANGED counting
          BY <4>1 DEF Transfers, LockFirst, BothHoldOne, LockSecond, GiveUp, UnlockSecond,
                      BothAreThrough, UnlockFirst, Barrier
        <4>3. owner' = owner \/ \E l \in {"A", "B"}, h \in Nat : owner' = [owner EXCEPT ![l] = h]
          <5>1. First(t) \in {"A", "B"} /\ Second(t) \in {"A", "B"} /\ t \in Nat /\ Nobody \in Nat
            BY DEF First, Second, Thread, Nobody
          <5> QED
            BY <4>1, <5>1
               DEF Transfers, LockFirst, BothHoldOne, LockSecond, GiveUp, UnlockSecond, BothAreThrough,
                   UnlockFirst, Barrier, locks
        <4> QED
          BY <1>1, <4>2, <4>3 DEF counting, Lock
      <3> QED
        BY <1>3, <3>1, <3>2, <3>3
    <2> QED
      BY <1>3, <2>1, <2>2, CountStays
  <1>4. \A t \in Thread : Run(t) => step \in {1, 5, 6, 7, 8, 9} \/ step = 2 \/ step = 3 \/ step = 4
    BY WhoRuns
  <1> QED
    BY <1>2, <1>3, <1>4, CountJoin, UnsafeRun, LockedRun, AtomicRun DEF Next, main, Finished

LEMMA CountAlways == Spec => []CountInv
  BY CountInit, CountNext, ThreadsAlways, PTL DEF Spec
----------------------------------------------------------------------------
(* The rooms: who is in, the semaphore and the table lock, and the printed *)
(* maximum.                                                                *)

Visiting == {t \in Thread : pc[t] \in Visit}
Seen     == {"look", "raise", "inside"}
Within   == {t \in Thread : pc[t] \in Seen}

\* The real maximum has been stored, or one who saw it is about to.
MostRight(r, n) ==
    /\ step \in 1 .. n - 1 => inside[r] = 0 /\ most[r] = 0 /\ peak[r] = 0
    /\ step = n =>
        /\ inside[r] = Cardinality(Within)
        /\ most[r] <= peak[r]
        /\ \A t \in Thread : /\ pc[t] \in {"look", "raise"} => mine[t] <= peak[r]
                             /\ pc[t] = "raise" => loaded[t] <= most[r]
        /\ \/ most[r] = peak[r]
           \/ \E t \in 1 .. Size(part) : pc[t] \in {"look", "raise"} /\ mine[t] = peak[r]
    /\ step > n => most[r] = peak[r]

SemaphoreRight ==
    /\ step \in 1 .. 5 => g_room = Permits
    /\ step = 6 => g_room \in Nat /\ g_room + Cardinality(Visiting) = Permits
    /\ peak["semaphore"] <= Permits

TableRight ==
    /\ step \in 1 .. 8 => read_locked = 0 /\ ~write_locked
    /\ step = 9 =>
        /\ read_locked = Cardinality(Visiting)
        /\ write_locked => Visiting = {}
        /\ \A t \in Thread : pc[t] \in {"write", "unlock table"} => t = Readers + 1 /\ write_locked
    /\ g_readers_during_write \in {-1, 0}
    /\ write_locked => inside["table"] = 0

RoomInv ==
    /\ MostRight("semaphore", 6) /\ SemaphoreRight
    /\ MostRight("table", 9) /\ TableRight
RoomSizes ==
    /\ IsFiniteSet(Visiting) /\ IsFiniteSet(Within) /\ Within \subseteq Visiting
    /\ Cardinality(Visiting) \in Nat /\ Cardinality(Within) \in Nat
    /\ Cardinality(Within) <= Cardinality(Visiting)
    /\ Visiting = {} <=> Cardinality(Visiting) = 0

LEMMA RoomSets == RoomSizes
  <1>1. IsFiniteSet(Thread)
    BY PartRuns, FS_Interval
  <1>2. Visiting \subseteq Thread /\ Within \subseteq Visiting
    BY DEF Visiting, Within, Visit, Seen
  <1>3. IsFiniteSet(Visiting)
    BY <1>1, <1>2, FS_Subset
  <1> QED
    BY <1>2, <1>3, FS_Subset, FS_CardinalityType, FS_EmptySet DEF RoomSizes

LEMMA RoomSetsNext == RoomSizes'
  BY RoomSets, PTL

\* A thread that goes from one label to another comes in, goes out or stays.
LEMMA Passes ==
    ASSUME ThreadInv, NEW t \in Thread, NEW l, pc' = [pc EXCEPT ![t] = l]
    PROVE  /\ l \in Visit /\ pc[t] \notin Visit => Cardinality(Visiting)' = Cardinality(Visiting) + 1
           /\ l \notin Visit /\ pc[t] \in Visit => Cardinality(Visiting)' = Cardinality(Visiting) - 1
           /\ (l \in Visit <=> pc[t] \in Visit) => Visiting' = Visiting
           /\ l \in Seen /\ pc[t] \notin Seen => Cardinality(Within)' = Cardinality(Within) + 1
           /\ l \notin Seen /\ pc[t] \in Seen => Cardinality(Within)' = Cardinality(Within) - 1
           /\ (l \in Seen <=> pc[t] \in Seen) => Within' = Within
           /\ \A u \in Thread : pc'[u] = IF u = t THEN l ELSE pc[u]
  <1>1. \A u \in Thread : pc'[u] = IF u = t THEN l ELSE pc[u]
    BY DEF ThreadInv, Control
  <1>2. Visiting' = IF l \in Visit THEN Visiting \cup {t} ELSE Visiting \ {t}
    BY <1>1 DEF Visiting
  <1>3. Within' = IF l \in Seen THEN Within \cup {t} ELSE Within \ {t}
    BY <1>1 DEF Within
  <1>4. t \in Visiting <=> pc[t] \in Visit
    BY DEF Visiting
  <1>5. t \in Within <=> pc[t] \in Seen
    BY DEF Within
  <1>6. IsFiniteSet(Visiting) /\ IsFiniteSet(Within)
    BY RoomSets DEF RoomSizes
  <1>7. /\ l \in Visit /\ pc[t] \notin Visit => Cardinality(Visiting)' = Cardinality(Visiting) + 1
        /\ l \in Seen /\ pc[t] \notin Seen => Cardinality(Within)' = Cardinality(Within) + 1
    BY <1>2, <1>3, <1>4, <1>5, <1>6, FS_AddElement
  <1>8. /\ l \notin Visit /\ pc[t] \in Visit => Cardinality(Visiting)' = Cardinality(Visiting) - 1
        /\ l \notin Seen /\ pc[t] \in Seen => Cardinality(Within)' = Cardinality(Within) - 1
    BY <1>2, <1>3, <1>4, <1>5, <1>6, FS_RemoveElement
  <1>9. /\ (l \in Visit <=> pc[t] \in Visit) => Visiting' = Visiting
        /\ (l \in Seen <=> pc[t] \in Seen) => Within' = Within
    BY <1>2, <1>3, <1>4, <1>5
  <1> QED
    BY <1>1, <1>7, <1>8, <1>9

LEMMA RoomInit == Init => RoomInv
  <1> SUFFICES ASSUME Init PROVE RoomInv
    OBVIOUS
  <1>1. /\ step = 1 /\ inside = [r \in Room |-> 0] /\ most = [r \in Room |-> 0]
        /\ peak = [r \in Room |-> 0] /\ g_room = Permits /\ read_locked = 0 /\ write_locked = FALSE
        /\ g_readers_during_write = -1
    BY DEF Init
  <1>2. Permits \in Nat \ {0}
    BY TourAssumption
  <1>3. \A r \in Room : inside[r] = 0 /\ most[r] = 0 /\ peak[r] = 0
    BY <1>1
  <1>4. "semaphore" \in Room /\ "table" \in Room
    BY DEF Room
  <1>5. MostRight("semaphore", 6) /\ MostRight("table", 9)
    BY <1>1, <1>3, <1>4 DEF MostRight
  <1>6. SemaphoreRight /\ TableRight
    BY <1>1, <1>2, <1>3, <1>4 DEF SemaphoreRight, TableRight
  <1> QED
    BY <1>5, <1>6 DEF RoomInv
VisitStep(t) == Enter(t) \/ CountIn(t) \/ Look(t) \/ Raise(t) \/ CountOut(t) \/ Leave(t)
TableStep(t) == StartLine(t) \/ WriteLock(t) \/ Write(t) \/ WriteUnlock(t)

\* Threads move outside of the counted section.
LEMMA MovesOutside ==
    ASSUME NEW r, NEW n \in {6, 9}, MostRight(r, n), step' = step,
           UNCHANGED <<inside, most, peak, mine, loaded>>,
           \A u \in Thread : \/ pc'[u] = pc[u]
                             \/ {pc[u], pc'[u]} \cap Seen = {}
    PROVE  MostRight(r, n)'
  <1>1. Within' = Within
    BY DEF Within
  <1>2. \A u \in Thread : pc'[u] \in {"look", "raise"} => pc'[u] = pc[u]
    BY DEF Seen
  <1>3. \A u \in Thread : pc[u] \in {"look", "raise"} => pc'[u] = pc[u]
    BY DEF Seen
  <1>4. part' = part
    BY DEF part
  <1>5. ASSUME step = n
        PROVE  \/ most[r] = peak[r]
               \/ \E t \in 1 .. Size(part) : pc'[t] \in {"look", "raise"} /\ mine[t] = peak[r]
    <2>1. CASE most[r] = peak[r]
      BY <2>1
    <2>2. ASSUME NEW t \in 1 .. Size(part), pc[t] \in {"look", "raise"}, mine[t] = peak[r]
          PROVE  \E u \in 1 .. Size(part) : pc'[u] \in {"look", "raise"} /\ mine[u] = peak[r]
      <3>1. t \in Thread
        BY <1>5, <2>2, PartRuns, TourFacts DEF part
      <3> QED
        BY <1>3, <2>2, <3>1
    <2> QED
      BY <1>5, <2>1, <2>2 DEF MostRight
  <1> QED
    BY <1>1, <1>2, <1>4, <1>5 DEF MostRight
LEMMA MostRun ==
    ASSUME ThreadInv, NEW r \in Room, NEW n \in {6, 9}, MostRight(r, n), step = n, part = r,
           NEW t \in Thread, t \in 1 .. Size(part), VisitStep(t)
    PROVE  MostRight(r, n)'
  <1>1. /\ inside \in [Room -> Int] /\ most \in [Room -> Nat] /\ peak \in [Room -> Int]
        /\ mine \in [Thread -> Int] /\ loaded \in [Thread -> Nat]
        /\ pc \in [Thread -> Places(step)]
    BY DEF ThreadInv, Memory, Control
  <1>2. /\ inside[r] = Cardinality(Within) /\ most[r] <= peak[r]
        /\ \A u \in Thread : /\ pc[u] \in {"look", "raise"} => mine[u] <= peak[r]
                             /\ pc[u] = "raise" => loaded[u] <= most[r]
        /\ \/ most[r] = peak[r]
           \/ \E u \in 1 .. Size(part) : pc[u] \in {"look", "raise"} /\ mine[u] = peak[r]
    BY DEF MostRight
  <1>3. step' = step /\ part' = part
    BY DEF VisitStep, Enter, CountIn, Look, Raise, CountOut, Leave, local, part
  <1>4. 1 .. Size(part) \subseteq Thread
    <2>1. step \in DOMAIN Tour
      BY TourFacts
    <2> QED
      BY <2>1, PartRuns DEF part
  <1>5. SUFFICES /\ inside'[r] = Cardinality(Within)' /\ most'[r] <= peak'[r]
                 /\ \A u \in Thread : /\ pc'[u] \in {"look", "raise"} => mine'[u] <= peak'[r]
                                      /\ pc'[u] = "raise" => loaded'[u] <= most'[r]
                 /\ \/ most'[r] = peak'[r]
                    \/ \E u \in 1 .. Size(part) : pc'[u] \in {"look", "raise"} /\ mine'[u] = peak'[r]
    BY <1>3 DEF MostRight
  <1>6. CASE Enter(t) \/ Leave(t)
    <2>1. /\ UNCHANGED <<inside, most, peak, mine, loaded>>
          /\ \/ pc[t] = "enter" /\ pc' = [pc EXCEPT ![t] = "count"]
             \/ pc[t] = "leave" /\ pc' = [pc EXCEPT ![t] = "done"]
      BY <1>6 DEF Enter, Leave, At, Goto, local
    <2>2. \A u \in Thread : \/ pc'[u] = pc[u]
                            \/ {pc[u], pc'[u]} \cap Seen = {}
      BY <1>1, <2>1 DEF Seen
    <2>3. MostRight(r, n)'
      BY <1>3, <2>1, <2>2, MovesOutside
    <2> QED
      BY <1>3, <2>3 DEF MostRight
  <1>7. CASE CountIn(t)
    <2>1. /\ pc[t] = "count" /\ pc' = [pc EXCEPT ![t] = "look"]
          /\ inside' = [inside EXCEPT ![r] = @ + 1]
          /\ mine' = [mine EXCEPT ![t] = inside'[r]]
          /\ peak' = [peak EXCEPT ![r] = IF @ < inside'[r] THEN inside'[r] ELSE @]
          /\ UNCHANGED <<most, loaded>>
      BY <1>7 DEF CountIn, At, Goto, local
    <2>2. Cardinality(Within)' = Cardinality(Within) + 1
      BY <2>1, Passes DEF Seen
    <2>3. inside'[r] = inside[r] + 1 /\ inside[r] \in Int /\ Cardinality(Within) \in Nat
      BY <1>1, <2>1, RoomSets DEF RoomSizes
    <2>4. /\ mine'[t] = inside'[r] /\ pc'[t] = "look"
          /\ \A u \in Thread : u # t => mine'[u] = mine[u] /\ pc'[u] = pc[u]
          /\ peak'[r] = IF peak[r] < inside'[r] THEN inside'[r] ELSE peak[r]
      BY <1>1, <2>1
    <2>5. peak[r] \in Int /\ most[r] \in Nat /\ \A u \in Thread : mine[u] \in Int
      BY <1>1
    <2>6. peak'[r] >= peak[r] /\ peak'[r] >= inside'[r] /\ peak'[r] \in Int
      BY <2>3, <2>4, <2>5
    <2>7. ASSUME NEW u \in Thread
          PROVE  /\ pc'[u] \in {"look", "raise"} => mine'[u] <= peak'[r]
                 /\ pc'[u] = "raise" => loaded'[u] <= most'[r]
      <3>1. CASE u = t
        BY <2>3, <2>4, <2>6, <3>1
      <3>2. CASE u # t
        BY <1>2, <2>1, <2>4, <2>5, <2>6, <3>2
      <3> QED
        BY <3>1, <3>2
    <2>8. \/ most'[r] = peak'[r]
          \/ \E u \in 1 .. Size(part) : pc'[u] \in {"look", "raise"} /\ mine'[u] = peak'[r]
      <3>1. CASE peak[r] < inside'[r]
        BY <2>4, <3>1
      <3>2. CASE ~(peak[r] < inside'[r])
        <4>1. peak'[r] = peak[r]
          BY <2>4, <3>2
        <4>2. \A u \in 1 .. Size(part) : pc[u] \in {"look", "raise"} => u \in Thread /\ u # t
          BY <1>4, <2>1
        <4> QED
          BY <1>2, <2>1, <2>4, <4>1, <4>2
      <3> QED
        BY <3>1, <3>2
    <2>9. inside'[r] = Cardinality(Within)' /\ most'[r] <= peak'[r]
      BY <1>2, <2>1, <2>2, <2>3, <2>5, <2>6
    <2> QED
      BY <2>7, <2>8, <2>9
  <1>8. CASE Look(t)
    <2>1. /\ pc[t] = "look" /\ pc' = [pc EXCEPT ![t] = "raise"]
          /\ loaded' = [loaded EXCEPT ![t] = most[r]]
          /\ UNCHANGED <<inside, most, peak, mine>>
      BY <1>8 DEF Look, At, Goto, rooms
    <2>2. Cardinality(Within)' = Cardinality(Within) /\ Cardinality(Within) \in Nat
      BY <2>1, Passes, RoomSets DEF RoomSizes, Seen
    <2>3. /\ loaded'[t] = most[r] /\ pc'[t] = "raise" /\ most[r] \in Nat
          /\ \A u \in Thread : u # t => loaded'[u] = loaded[u] /\ pc'[u] = pc[u]
      BY <1>1, <2>1
    <2>4. \A u \in Thread : /\ pc'[u] \in {"look", "raise"} => mine'[u] <= peak'[r]
                            /\ pc'[u] = "raise" => loaded'[u] <= most'[r]
      BY <1>2, <2>1, <2>3
    <2>5. \A u \in 1 .. Size(part) : pc[u] \in {"look", "raise"} => pc'[u] \in {"look", "raise"}
      BY <1>4, <2>3
    <2> QED
      BY <1>2, <2>1, <2>2, <2>4, <2>5
  <1>9. CASE CountOut(t)
    <2>1. /\ pc[t] = "inside" /\ pc' = [pc EXCEPT ![t] = "leave"]
          /\ inside' = [inside EXCEPT ![r] = @ - 1]
          /\ UNCHANGED <<most, peak, mine, loaded>>
      BY <1>9 DEF CountOut, At, Goto, local
    <2>0. "leave" \notin Seen /\ pc[t] \in Seen
      BY <2>1 DEF Seen
    <2>2. Cardinality(Within)' = Cardinality(Within) - 1 /\ Cardinality(Within) \in Nat
      <3>1. Cardinality(Within)' = Cardinality(Within) - 1
        BY <2>0, <2>1, Passes
      <3> QED
        BY <3>1, RoomSets DEF RoomSizes
    <2>3. inside'[r] = inside[r] - 1 /\ pc'[t] = "leave"
          /\ \A u \in Thread : u # t => pc'[u] = pc[u]
      BY <1>1, <2>1
    <2>4. \A u \in Thread : /\ pc'[u] \in {"look", "raise"} => mine'[u] <= peak'[r]
                            /\ pc'[u] = "raise" => loaded'[u] <= most'[r]
      BY <1>2, <2>1, <2>3
    <2>5. \A u \in 1 .. Size(part) : pc[u] \in {"look", "raise"} => pc'[u] \in {"look", "raise"}
      BY <1>4, <2>1, <2>3
    <2> QED
      BY <1>2, <2>1, <2>2, <2>3, <2>4, <2>5
  <1>10. CASE Raise(t) /\ mine[t] > loaded[t] /\ most[r] # loaded[t]
    <2>1. /\ pc' = pc /\ loaded' = [loaded EXCEPT ![t] = most[r]]
          /\ UNCHANGED <<inside, most, peak, mine>>
      BY <1>10 DEF Raise
    <2>2. \A u \in Thread : pc[u] = "raise" => loaded'[u] <= most[r]
      BY <1>1, <1>2, <2>1
    <2>3. Within' = Within
      BY <2>1 DEF Within
    <2> QED
      BY <1>2, <2>1, <2>2, <2>3
  <1>11. CASE Raise(t) /\ ~(mine[t] > loaded[t] /\ most[r] # loaded[t])
    <2>1. /\ pc[t] = "raise" /\ pc' = [pc EXCEPT ![t] = "inside"]
          /\ most' = [most EXCEPT ![r] = IF mine[t] > loaded[t] THEN mine[t] ELSE @]
          /\ UNCHANGED <<inside, peak, mine, loaded>>
      BY <1>11 DEF Raise, At, Goto
    <2>2. Cardinality(Within)' = Cardinality(Within) /\ Cardinality(Within) \in Nat
      BY <2>1, Passes, RoomSets DEF RoomSizes, Seen
    <2>3. /\ most[r] \in Nat /\ mine[t] \in Int /\ loaded[t] \in Nat /\ peak[r] \in Int
          /\ \A u \in Thread : loaded[u] \in Nat
      BY <1>1
    <2>4. most'[r] = IF mine[t] > loaded[t] THEN mine[t] ELSE most[r]
      BY <1>1, <2>1
    <2>5. mine[t] <= peak[r] /\ loaded[t] <= most[r] /\ most[r] <= peak[r]
      BY <1>2, <2>1
    \* The maximum does not fall, and is at least what t saw.
    <2>6. /\ most'[r] >= most[r] /\ most'[r] >= mine[t] /\ most'[r] <= peak[r] /\ most'[r] \in Int
      BY <1>11, <2>3, <2>4, <2>5
    <2>7. pc'[t] = "inside" /\ \A u \in Thread : u # t => pc'[u] = pc[u]
      BY <1>1, <2>1
    <2>8. \A u \in Thread : /\ pc'[u] \in {"look", "raise"} => mine'[u] <= peak'[r]
                            /\ pc'[u] = "raise" => loaded'[u] <= most'[r]
      BY <1>2, <2>1, <2>3, <2>6, <2>7
    <2>9. \/ most'[r] = peak[r]
          \/ \E u \in 1 .. Size(part) : pc'[u] \in {"look", "raise"} /\ mine[u] = peak[r]
      <3>1. CASE most[r] = peak[r]
        BY <2>3, <2>6, <3>1
      <3>2. ASSUME NEW u \in 1 .. Size(part), pc[u] \in {"look", "raise"}, mine[u] = peak[r]
            PROVE  \/ most'[r] = peak[r]
                   \/ pc'[u] \in {"look", "raise"}
        <4>1. CASE u = t
          BY <2>3, <2>6, <3>2, <4>1
        <4>2. CASE u # t
          BY <1>4, <2>7, <3>2, <4>2
        <4> QED
          BY <4>1, <4>2
      <3> QED
        BY <1>2, <3>1, <3>2
    <2> QED
      BY <1>2, <2>1, <2>2, <2>6, <2>8, <2>9
  <1> QED
    BY <1>6, <1>7, <1>8, <1>9, <1>10, <1>11 DEF VisitStep
LEMMA SemaphoreRun ==
    ASSUME ThreadInv, RoomInv, MostRight("semaphore", 6)', step = 6, part = "semaphore", step' = step,
           NEW t \in Thread, VisitStep(t)
    PROVE  SemaphoreRight'
  <1>1. /\ g_room \in Nat /\ g_room + Cardinality(Visiting) = Permits
        /\ peak["semaphore"] <= Permits
        /\ inside["semaphore"] = Cardinality(Within)
    BY DEF RoomInv, SemaphoreRight, MostRight
  <1>2. /\ inside \in [Room -> Int] /\ peak \in [Room -> Int] /\ "semaphore" \in Room
        /\ Permits \in Nat /\ Cardinality(Visiting) \in Nat
    BY TourAssumption, RoomSets DEF ThreadInv, Memory, Room, RoomSizes
  <1>3. g_room' \in Nat /\ g_room' + Cardinality(Visiting)' = Permits
    <2>1. CASE Enter(t)
      <3>1. pc[t] = "enter" /\ pc' = [pc EXCEPT ![t] = "count"] /\ g_room > 0 /\ g_room' = g_room - 1
        BY <2>1 DEF Enter, At, Goto
      <3>2. "count" \in Visit /\ pc[t] \notin Visit
        BY <3>1 DEF Visit
      <3>3. Cardinality(Visiting)' = Cardinality(Visiting) + 1
        BY <3>1, <3>2, Passes
      <3> QED
        BY <1>1, <1>2, <3>1, <3>3
    <2>2. CASE Leave(t)
      <3>1. pc[t] = "leave" /\ pc' = [pc EXCEPT ![t] = "done"] /\ g_room' = g_room + 1
        BY <2>2 DEF Leave, At, Goto
      <3>2. "done" \notin Visit /\ pc[t] \in Visit
        BY <3>1 DEF Visit
      <3>3. Cardinality(Visiting)' = Cardinality(Visiting) - 1
        BY <3>1, <3>2, Passes
      <3> QED
        BY <1>1, <1>2, <3>1, <3>3
    <2>3. CASE CountIn(t) \/ Look(t) \/ Raise(t) \/ CountOut(t)
      <3>1. /\ g_room' = g_room
            /\ pc' = pc \/ \E l \in Visit : pc[t] \in Visit /\ pc' = [pc EXCEPT ![t] = l]
        BY <2>3 DEF CountIn, Look, Raise, CountOut, At, Goto, access, rooms, Visit
      <3>2. Visiting' = Visiting
        <4>1. CASE pc' = pc
          BY <4>1 DEF Visiting
        <4>2. ASSUME NEW l \in Visit, pc[t] \in Visit, pc' = [pc EXCEPT ![t] = l]
              PROVE  Visiting' = Visiting
          BY <4>2, Passes
        <4> QED
          BY <3>1, <4>1, <4>2
      <3> QED
        BY <1>1, <3>1, <3>2
    <2> QED
      BY <2>1, <2>2, <2>3 DEF VisitStep
  <1>4. peak'["semaphore"] <= Permits
    <2>1. CASE CountIn(t)
      <3>1. peak'["semaphore"] = IF peak["semaphore"] < inside'["semaphore"]
                                 THEN inside'["semaphore"] ELSE peak["semaphore"]
        BY <1>2, <2>1 DEF CountIn
      <3>2. inside'["semaphore"] = Cardinality(Within)'
        BY DEF MostRight
      <3>3. Cardinality(Within)' <= Cardinality(Visiting)' /\ Cardinality(Visiting)' \in Nat
            /\ Cardinality(Within)' \in Nat
        BY RoomSetsNext DEF RoomSizes
      <3>4. Cardinality(Within)' <= Permits
        BY <1>2, <1>3, <3>3
      <3> QED
        BY <1>1, <3>1, <3>2, <3>4
    <2>2. CASE ~CountIn(t)
      BY <1>1, <2>2 DEF VisitStep, Enter, Look, Raise, CountOut, Leave, rooms
    <2> QED
      BY <2>1, <2>2
  <1> QED
    BY <1>3, <1>4 DEF SemaphoreRight

LEMMA TableRun ==
    ASSUME ThreadInv, RoomInv, MostRight("table", 9)', step = 9, part = "table", step' = step,
           NEW t \in Thread, VisitStep(t) \/ TableStep(t)
    PROVE  TableRight'
  <1>1. /\ read_locked = Cardinality(Visiting)
        /\ write_locked => Visiting = {}
        /\ \A u \in Thread : pc[u] \in {"write", "unlock table"} => u = Readers + 1 /\ write_locked
        /\ g_readers_during_write \in {-1, 0}
        /\ inside["table"] = Cardinality(Within)
    BY DEF RoomInv, TableRight, MostRight
  <1>2. Cardinality(Visiting) \in Nat /\ pc \in [Thread -> Places(step)]
    BY RoomSets DEF RoomSizes, ThreadInv, Control
  <1>3. /\ read_locked' = Cardinality(Visiting)'
        /\ write_locked' => Visiting' = {}
        /\ \A u \in Thread : pc'[u] \in {"write", "unlock table"} => u = Readers + 1 /\ write_locked'
    <2>1. CASE Enter(t)
      <3>1. /\ pc[t] = "enter" /\ pc' = [pc EXCEPT ![t] = "count"] /\ ~write_locked
            /\ read_locked' = read_locked + 1 /\ write_locked' = write_locked
        BY <2>1 DEF Enter, At, Goto
      <3>2. "count" \in Visit /\ pc[t] \notin Visit
        BY <3>1 DEF Visit
      <3>3. Cardinality(Visiting)' = Cardinality(Visiting) + 1
        BY <3>1, <3>2, Passes
      <3>4. \A u \in Thread : pc'[u] = IF u = t THEN "count" ELSE pc[u]
        BY <1>2, <3>1
      <3>5. read_locked' = Cardinality(Visiting)'
        BY <1>1, <1>2, <3>1, <3>3
      <3>6. \A u \in Thread : pc'[u] \notin {"write", "unlock table"}
        <4>1. \A u \in Thread : pc[u] \notin {"write", "unlock table"}
          BY <1>1, <3>1
        <4> QED
          BY <3>4, <4>1
      <3> QED
        BY <3>1, <3>5, <3>6
    <2>2. CASE Leave(t)
      <3>1. /\ pc[t] = "leave" /\ pc' = [pc EXCEPT ![t] = "done"]
            /\ read_locked' = read_locked - 1 /\ write_locked' = write_locked
        BY <2>2 DEF Leave, At, Goto
      <3>2. "done" \notin Visit /\ pc[t] \in Visit
        BY <3>1 DEF Visit
      <3>3. Cardinality(Visiting)' = Cardinality(Visiting) - 1
        BY <3>1, <3>2, Passes
      <3>4. \A u \in Thread : pc'[u] = IF u = t THEN "done" ELSE pc[u]
        BY <1>2, <3>1
      <3>5. t \in Visiting
        BY <3>2 DEF Visiting
      <3>6. ~write_locked
        BY <1>1, <3>5
      <3>7. read_locked' = Cardinality(Visiting)'
        BY <1>1, <1>2, <3>1, <3>3
      <3>8. \A u \in Thread : pc'[u] \notin {"write", "unlock table"}
        BY <1>1, <3>4, <3>6
      <3> QED
        BY <3>1, <3>6, <3>7, <3>8
    <2>3. CASE CountIn(t) \/ Look(t) \/ Raise(t) \/ CountOut(t)
      <3>1. /\ UNCHANGED <<read_locked, write_locked>>
            /\ pc' = pc \/ \E l \in Visit : pc[t] \in Visit /\ pc' = [pc EXCEPT ![t] = l]
        BY <2>3 DEF CountIn, Look, Raise, CountOut, At, Goto, access, rooms, Visit
      <3>2. Visiting' = Visiting /\ \A u \in Thread : pc'[u] = pc[u] \/ pc'[u] \in Visit
        <4>1. CASE pc' = pc
          BY <4>1 DEF Visiting
        <4>2. ASSUME NEW l \in Visit, pc[t] \in Visit, pc' = [pc EXCEPT ![t] = l]
              PROVE  Visiting' = Visiting /\ \A u \in Thread : pc'[u] = pc[u] \/ pc'[u] \in Visit
          <5>1. (l \in Visit <=> pc[t] \in Visit) => Visiting' = Visiting
            BY <4>2, Passes
          <5>2. \A u \in Thread : pc'[u] = IF u = t THEN l ELSE pc[u]
            BY <1>2, <4>2
          <5> QED
            BY <4>2, <5>1, <5>2
        <4> QED
          BY <3>1, <4>1, <4>2
      <3> QED
        BY <1>1, <3>1, <3>2 DEF Visit
    <2>4. CASE StartLine(t)
      <3>1. /\ UNCHANGED <<read_locked, write_locked>> /\ pc[t] = "line"
            /\ pc' = IF \A u \in 1 .. Size(part) \ {t} : pc[u] = "waiting"
                     THEN [u \in Thread |-> IF u <= Size(part) THEN "enter" ELSE pc[u]]
                     ELSE [pc EXCEPT ![t] = "waiting"]
        BY <2>4 DEF StartLine, Barrier, At, rooms
      <3>2. \A u \in Thread : pc'[u] = pc[u] \/ pc'[u] \in {"enter", "waiting"}
        BY <1>2, <3>1
      <3>3. \A u \in Thread : pc[u] \in Visit => pc'[u] = pc[u]
        <4>1. \A u \in Thread : u <= Size(part) => u = t \/ u \in 1 .. Size(part) \ {t}
          <5>1. Size(part) \in Nat
            BY SizeIs, TourAssumption
          <5> QED
            BY <5>1 DEF Thread
        <4>2. "line" \notin Visit /\ "waiting" \notin Visit
          BY DEF Visit
        <4>3. CASE \A u \in 1 .. Size(part) \ {t} : pc[u] = "waiting"
          BY <3>1, <4>1, <4>2, <4>3
        <4>4. CASE ~ \A u \in 1 .. Size(part) \ {t} : pc[u] = "waiting"
          BY <1>2, <3>1, <4>2, <4>4
        <4> QED
          BY <4>3, <4>4
      <3>4. Visiting' = Visiting
        BY <3>2, <3>3 DEF Visiting, Visit
      <3> QED
        BY <1>1, <3>1, <3>2, <3>4
    <2>5. CASE WriteLock(t)
      <3>1. /\ pc[t] = "enter" /\ pc' = [pc EXCEPT ![t] = "write"] /\ t = Readers + 1
            /\ read_locked = 0 /\ write_locked' = TRUE /\ read_locked' = read_locked
        BY <2>5 DEF WriteLock, IsWriter, At, Goto
      <3>2. "write" \notin Visit /\ pc[t] \notin Visit
        BY <3>1 DEF Visit
      <3>3. Visiting' = Visiting /\ \A u \in Thread : pc'[u] = IF u = t THEN "write" ELSE pc[u]
        BY <3>1, <3>2, Passes
      <3>4. Visiting = {}
        BY <1>1, <3>1, RoomSets DEF RoomSizes
      <3> QED
        BY <1>1, <3>1, <3>3, <3>4
    <2>6. CASE Write(t)
      <3>1. /\ pc[t] = "write" /\ pc' = [pc EXCEPT ![t] = "unlock table"]
            /\ UNCHANGED <<read_locked, write_locked>>
        BY <2>6 DEF Write, At, Goto, access
      <3>2. "unlock table" \notin Visit /\ pc[t] \notin Visit
        BY <3>1 DEF Visit
      <3>3. Visiting' = Visiting /\ \A u \in Thread : pc'[u] = IF u = t THEN "unlock table" ELSE pc[u]
        BY <3>1, <3>2, Passes
      <3> QED
        BY <1>1, <3>1, <3>3
    <2>7. CASE WriteUnlock(t)
      <3>1. /\ pc[t] = "unlock table" /\ pc' = [pc EXCEPT ![t] = "done"]
            /\ write_locked' = FALSE /\ read_locked' = read_locked
        BY <2>7 DEF WriteUnlock, At, Goto
      <3>2. "done" \notin Visit /\ pc[t] \notin Visit
        BY <3>1 DEF Visit
      <3>3. Visiting' = Visiting /\ \A u \in Thread : pc'[u] = IF u = t THEN "done" ELSE pc[u]
        BY <3>1, <3>2, Passes
      <3>4. t = Readers + 1 /\ \A u \in Thread : pc[u] \in {"write", "unlock table"} => u = t
        BY <1>1, <3>1
      <3>5. \A u \in Thread : pc'[u] \notin {"write", "unlock table"}
        BY <3>3, <3>4
      <3> QED
        BY <1>1, <3>1, <3>3, <3>5
    <2> QED
      BY <2>1, <2>2, <2>3, <2>4, <2>5, <2>6, <2>7 DEF VisitStep, TableStep
  <1>4. write_locked' => inside'["table"] = 0
    <2>1. inside'["table"] = Cardinality(Within)'
      BY DEF MostRight
    <2>2. Visiting' = {} => Within' = {}
      BY RoomSetsNext DEF RoomSizes
    <2>3. Within' = {} => Cardinality(Within)' = 0
      BY FS_EmptySet
    <2> QED
      BY <1>3, <2>1, <2>2, <2>3
  <1>5. g_readers_during_write' \in {-1, 0}
    <2>1. CASE Write(t)
      <3>1. g_readers_during_write' = inside["table"] /\ write_locked
        BY <1>1, <2>1 DEF Write, At
      <3>2. inside["table"] = 0
        BY <3>1 DEF RoomInv, TableRight
      <3> QED
        BY <3>1, <3>2
    <2>2. CASE ~Write(t)
      BY <1>1, <2>2
         DEF VisitStep, TableStep, Enter, CountIn, Look, Raise, CountOut, Leave, StartLine, WriteLock,
             WriteUnlock, Barrier, rooms
    <2> QED
      BY <2>1, <2>2
  <1>6. step' = 9 /\ step' \notin 1 .. 8
    OBVIOUS
  <1> QED
    BY <1>3, <1>4, <1>5, <1>6 DEF TableRight
\* A step in another part, or one that main() takes.
LEMMA RoomStays ==
    ASSUME RoomInv, step' = step \/ step' = 0, UNCHANGED rooms,
           step \in {0, 1, 2, 3, 4, 5, 7, 8, 10} \/ UNCHANGED <<pc, loaded>>
    PROVE  RoomInv'
  <1>1. UNCHANGED <<inside, most, peak, mine, g_room, read_locked, write_locked, g_readers_during_write>>
    BY DEF rooms
  <1>2. CASE step' = 0
    <2>1. step' \notin 1 .. 6 - 1 /\ step' \notin 1 .. 9 - 1 /\ ~(step' > 6) /\ ~(step' > 9)
      BY <1>2
    <2>2. MostRight("semaphore", 6)' /\ MostRight("table", 9)'
      BY <1>2, <2>1 DEF MostRight
    <2>3. SemaphoreRight'
      BY <1>1, <1>2 DEF RoomInv, SemaphoreRight
    <2>4. TableRight'
      <3>1. g_readers_during_write' \in {-1, 0} /\ (write_locked' => inside'["table"] = 0)
        BY <1>1 DEF RoomInv, TableRight
      <3>2. step' # 9 /\ step' \notin 1 .. 8
        BY <1>2
      <3> QED
        BY <3>1, <3>2 DEF TableRight
    <2> QED
      BY <2>2, <2>3, <2>4 DEF RoomInv
  <1>3. CASE step' = step /\ UNCHANGED <<pc, loaded>>
    BY <1>1, <1>3, ZenonT(30) DEF RoomInv, MostRight, SemaphoreRight, TableRight, Within, Visiting, part
  <1>4. CASE step' = step /\ step \in {0, 1, 2, 3, 4, 5, 7, 8, 10}
    <2>1. MostRight("semaphore", 6)' /\ MostRight("table", 9)'
      BY <1>1, <1>4 DEF RoomInv, MostRight
    <2>2. SemaphoreRight'
      BY <1>1, <1>4 DEF RoomInv, SemaphoreRight
    <2>3. TableRight'
      <3>1. g_readers_during_write' \in {-1, 0} /\ (write_locked' => inside'["table"] = 0)
        BY <1>1 DEF RoomInv, TableRight
      <3>2. step' # 9
        BY <1>4
      <3>3. step' \in 1 .. 8 => read_locked' = 0 /\ ~write_locked'
        BY <1>1, <1>4 DEF RoomInv, TableRight
      <3> QED
        BY <3>1, <3>2, <3>3 DEF TableRight
    <2> QED
      BY <2>1, <2>2, <2>3 DEF RoomInv
  <1> QED
    BY <1>2, <1>3, <1>4

LEMMA RoomJoin == ASSUME ThreadInv, RoomInv, Join PROVE RoomInv'
  <1>1. /\ step' = step + 1 /\ step \in 1 .. 9
        /\ UNCHANGED <<inside, most, peak, g_room, read_locked, write_locked, g_readers_during_write>>
        /\ pc' = [t \in Thread |-> IF step' \in DOMAIN Tour THEN Entry(Tour[step']) ELSE "done"]
        /\ \A t \in 1 .. Size(part) : Ended(t)
    BY TourFacts DEF Join, Touring
  <1>2. ASSUME step' \in {6, 9} PROVE Visiting' = {} /\ Within' = {}
    <2>1. Entry("semaphore") = "enter" /\ Entry("table") = "line"
      BY DEF Entry
    <2>2. \A t \in Thread : pc'[t] \in {"enter", "line"}
      BY <1>1, <1>2, <2>1, TourFacts
    <2> QED
      BY <2>2 DEF Visiting, Within, Visit, Seen
  <1>3. step' \in {6, 9} => Cardinality(Visiting)' = 0 /\ Cardinality(Within)' = 0
    BY <1>2, FS_EmptySet
  <1>4. ASSUME step \in {6, 9} PROVE most[part] = peak[part]
    <2>1. \A t \in 1 .. Size(part) : pc[t] = "done"
      BY <1>1, <1>4, PartIs DEF Ended
    <2>2. CASE step = 6
      BY <2>1, <2>2, PartIs DEF RoomInv, MostRight
    <2>3. CASE step = 9
      BY <2>1, <2>3, PartIs DEF RoomInv, MostRight
    <2> QED
      BY <1>4, <2>2, <2>3
  <1>5. ASSUME step' \in {6, 9}
        PROVE  \A t \in Thread : pc'[t] \notin {"look", "raise", "write", "unlock table"}
    <2>1. Entry("semaphore") = "enter" /\ Entry("table") = "line"
      BY DEF Entry
    <2> QED
      BY <1>1, <1>5, <2>1, TourFacts
  <1>6. MostRight("semaphore", 6)'
    <2>1. CASE step \in 1 .. 4
      BY <1>1, <2>1 DEF RoomInv, MostRight
    <2>2. CASE step = 5
      <3>1. step \in 1 .. 6 - 1 /\ step' = 6
        BY <1>1, <2>2
      <3>2. inside["semaphore"] = 0 /\ most["semaphore"] = 0 /\ peak["semaphore"] = 0
        BY <3>1 DEF RoomInv, MostRight
      <3> QED
        <4>1. Cardinality(Within)' = 0 /\ \A t \in Thread : pc'[t] \notin {"look", "raise"}
          BY <1>3, <1>5, <3>1
        <4>2. ~(step' > 6) /\ step' \notin 1 .. 6 - 1
          BY <3>1
        <4> QED
          BY <1>1, <3>1, <3>2, <4>1, <4>2 DEF MostRight
    <2>3. CASE step = 6
      BY <1>1, <1>4, <2>3, PartIs DEF MostRight
    <2>4. CASE step \in 7 .. 9
      BY <1>1, <2>4 DEF RoomInv, MostRight
    <2> QED
      BY <1>1, <2>1, <2>2, <2>3, <2>4
  <1>7. MostRight("table", 9)'
    <2>1. CASE step \in 1 .. 7
      BY <1>1, <2>1 DEF RoomInv, MostRight
    <2>2. CASE step = 8
      <3>1. step \in 1 .. 9 - 1 /\ step' = 9
        BY <1>1, <2>2
      <3>2. inside["table"] = 0 /\ most["table"] = 0 /\ peak["table"] = 0
        BY <3>1 DEF RoomInv, MostRight
      <3> QED
        <4>1. Cardinality(Within)' = 0 /\ \A t \in Thread : pc'[t] \notin {"look", "raise"}
          BY <1>3, <1>5, <3>1
        <4>2. ~(step' > 9) /\ step' \notin 1 .. 9 - 1
          BY <3>1
        <4> QED
          BY <1>1, <3>1, <3>2, <4>1, <4>2 DEF MostRight
    <2>3. CASE step = 9
      BY <1>1, <1>4, <2>3, PartIs DEF MostRight
    <2> QED
      BY <1>1, <2>1, <2>2, <2>3
  <1>8. SemaphoreRight'
    <2>1. CASE step \in 1 .. 4
      BY <1>1, <2>1 DEF RoomInv, SemaphoreRight
    <2>2. CASE step = 5
      BY <1>1, <1>3, <2>2, TourAssumption DEF RoomInv, SemaphoreRight
    <2>3. CASE step \in 6 .. 9
      BY <1>1, <2>3 DEF RoomInv, SemaphoreRight
    <2> QED
      BY <1>1, <2>1, <2>2, <2>3
  <1>9. TableRight'
    <2>0. /\ g_readers_during_write' \in {-1, 0}
          /\ write_locked' => inside'["table"] = 0
      BY <1>1 DEF RoomInv, TableRight
    <2>1. CASE step \in 1 .. 7
      <3>1. step \in 1 .. 8 /\ step' # 9
        BY <1>1, <2>1
      <3>2. read_locked = 0 /\ ~write_locked
        BY <3>1 DEF RoomInv, TableRight
      <3> QED
        BY <1>1, <2>0, <3>1, <3>2 DEF TableRight
    <2>2. CASE step = 8
      <3>1. step \in 1 .. 8 /\ step' = 9 /\ step' \notin 1 .. 8
        BY <1>1, <2>2
      <3>2. read_locked = 0 /\ ~write_locked
        BY <3>1 DEF RoomInv, TableRight
      <3> QED
        BY <1>1, <1>3, <1>5, <2>0, <3>1, <3>2 DEF TableRight
    <2>3. CASE step = 9
      <3>1. step' # 9 /\ step' \notin 1 .. 8
        BY <1>1, <2>3
      <3> QED
        BY <2>0, <3>1 DEF TableRight
    <2> QED
      BY <1>1, <2>1, <2>2, <2>3
  <1> QED
    BY <1>6, <1>7, <1>8, <1>9 DEF RoomInv

LEMMA RoomNext == ASSUME ThreadInv, RoomInv, [Next]_vars PROVE RoomInv'
  <1>1. CASE Create \/ CreateFails \/ SpuriousWakeup \/ UNCHANGED vars
    BY <1>1, RoomStays DEF Create, CreateFails, SpuriousWakeup, vars, local
  <1>2. ASSUME NEW t \in Thread, Run(t) PROVE RoomInv'
    <2>1. step' = step /\ step \in 1 .. 9 /\ t \in 1 .. Size(part)
      BY <1>2, WhoRuns
    <2>2. CASE step \in {1, 2, 3, 4, 5, 7, 8}
      <3>1. CASE step \in {1, 2, 3, 4, 5}
        BY <1>2, <2>1, <3>1, WhoRuns, RoomStays
           DEF SetShared, LockCounter, Load, Store, UnlockCounter, AtomicAdd, BufferStep
      <3>2. CASE step \in {7, 8}
        <4>1. Transfers(t)
          BY <1>2, <3>2, WhoRuns
        <4>2. UNCHANGED rooms
          BY <4>1 DEF Transfers, LockFirst, BothHoldOne, LockSecond, GiveUp, UnlockSecond,
                      BothAreThrough, UnlockFirst, Barrier
        <4> QED
          BY <2>1, <3>2, <4>2, RoomStays
      <3> QED
        BY <2>2, <3>1, <3>2
    <2>3. CASE step = 6
      <3>1. VisitStep(t) /\ part = "semaphore"
        BY <1>2, <2>3, WhoRuns, PartIs DEF VisitStep
      <3>2. MostRight("semaphore", 6)'
        BY <2>1, <2>3, <3>1, MostRun DEF RoomInv, Room
      <3>3. SemaphoreRight'
        BY <2>1, <2>3, <3>1, <3>2, SemaphoreRun
      <3>4. /\ UNCHANGED <<read_locked, write_locked, g_readers_during_write>>
            /\ inside'["table"] = inside["table"] /\ most'["table"] = most["table"]
            /\ peak'["table"] = peak["table"]
        <4>1. inside \in [Room -> Int] /\ most \in [Room -> Nat] /\ peak \in [Room -> Int] /\ "table" \in Room
          BY DEF ThreadInv, Memory, Room
        <4> QED
          BY <3>1, <4>1 DEF VisitStep, Enter, CountIn, Look, Raise, CountOut, Leave, access, rooms
      <3>5. MostRight("table", 9)' /\ TableRight'
        BY <2>1, <2>3, <3>4 DEF RoomInv, MostRight, TableRight
      <3> QED
        BY <3>2, <3>3, <3>5 DEF RoomInv
    <2>4. CASE step = 9
      <3>1. (VisitStep(t) \/ TableStep(t)) /\ part = "table"
        BY <1>2, <2>4, WhoRuns, PartIs DEF VisitStep, TableStep
      <3>2. MostRight("table", 9)'
        <4>1. CASE VisitStep(t)
          BY <2>1, <2>4, <3>1, <4>1, MostRun DEF RoomInv, Room
        <4>2. CASE TableStep(t)
          <5>1. UNCHANGED <<inside, most, peak, mine, loaded>>
            BY <4>2 DEF TableStep, StartLine, WriteLock, Write, WriteUnlock, Barrier, rooms, local
          <5>2. pc \in [Thread -> Places(step)] /\ Size(part) \in Nat
            BY <3>1, SizeIs, TourAssumption DEF ThreadInv, Control
          <5>3. \A u \in Thread : \/ pc'[u] = pc[u]
                                  \/ {pc[u], pc'[u]} \cap Seen = {}
            <6>1. CASE StartLine(t)
              <7>1. /\ pc[t] = "line"
                    /\ pc' = IF \A u \in 1 .. Size(part) \ {t} : pc[u] = "waiting"
                             THEN [u \in Thread |-> IF u <= Size(part) THEN "enter" ELSE pc[u]]
                             ELSE [pc EXCEPT ![t] = "waiting"]
                BY <6>1 DEF StartLine, Barrier, At
              <7>2. \A u \in Thread : u <= Size(part) => u = t \/ u \in 1 .. Size(part) \ {t}
                BY <5>2 DEF Thread
              <7>3. CASE \A u \in 1 .. Size(part) \ {t} : pc[u] = "waiting"
                BY <7>1, <7>2, <7>3 DEF Seen
              <7>4. CASE ~ \A u \in 1 .. Size(part) \ {t} : pc[u] = "waiting"
                BY <5>2, <7>1, <7>4 DEF Seen
              <7> QED
                BY <7>3, <7>4
            <6>2. CASE ~StartLine(t)
              <7>1. \E l \in {"write", "unlock table", "done"} :
                       pc[t] \in {"enter", "write", "unlock table"} /\ pc' = [pc EXCEPT ![t] = l]
                BY <4>2, <6>2 DEF TableStep, WriteLock, Write, WriteUnlock, At, Goto
              <7> QED
                BY <5>2, <7>1 DEF Seen
            <6> QED
              BY <6>1, <6>2
          <5> QED
            BY <2>1, <5>1, <5>3, MovesOutside DEF RoomInv
        <4> QED
          BY <3>1, <4>1, <4>2
      <3>3. TableRight'
        BY <2>1, <2>4, <3>1, <3>2, TableRun
      <3>4. g_room' = g_room \/ step = 9
        BY <2>4
      <3>5. /\ inside'["semaphore"] = inside["semaphore"] /\ most'["semaphore"] = most["semaphore"]
            /\ peak'["semaphore"] = peak["semaphore"]
        <4>1. inside \in [Room -> Int] /\ most \in [Room -> Nat] /\ peak \in [Room -> Int]
              /\ "semaphore" \in Room
          BY DEF ThreadInv, Memory, Room
        <4> QED
          BY <3>1, <4>1
             DEF VisitStep, TableStep, Enter, CountIn, Look, Raise, CountOut, Leave, StartLine, WriteLock,
                 Write, WriteUnlock, Barrier, access, rooms
      <3>6. MostRight("semaphore", 6)' /\ SemaphoreRight'
        BY <2>1, <2>4, <3>5 DEF RoomInv, MostRight, SemaphoreRight
      <3> QED
        BY <3>2, <3>3, <3>6 DEF RoomInv
    <2> QED
      BY <2>1, <2>2, <2>3, <2>4
  <1> QED
    BY <1>1, <1>2, RoomJoin DEF Next, main, Finished
LEMMA RoomAlways == Spec => []RoomInv
  BY RoomInit, RoomNext, ThreadsAlways, PTL DEF Spec

----------------------------------------------------------------------------
(* What the tour prints.                                                   *)

\* The thread of part 1 has written to the memory of the process.
SharedRight ==
    /\ step = 1 /\ pc[1] = "done" => g_shared = 1
    /\ step > 1 => g_shared = 1

LEMMA SharedInit == Init => SharedRight
  <1>1. 1 \in Thread
    BY PairRuns DEF Pair
  <1> QED
    BY <1>1 DEF Init, SharedRight, Entry

LEMMA SharedNext == ASSUME ThreadInv, SharedRight, [Next]_vars PROVE SharedRight'
  <1>1. 1 \in Thread /\ step \in 0 .. 10
    BY PairRuns DEF Pair, ThreadInv, Created
  <1>2. CASE Create \/ SpuriousWakeup \/ UNCHANGED vars
    BY <1>2 DEF Create, SpuriousWakeup, vars, local, counting, SharedRight
  <1>3. CASE CreateFails
    BY <1>3 DEF CreateFails, SharedRight
  <1>4. CASE Join
    <2>1. step' = step + 1 /\ g_shared' = g_shared /\ step \in 1 .. 9
      BY <1>4, TourFacts DEF Join, Touring
    <2>2. step = 1 => pc[1] = "done"
      <3>1. step = 1 => part = "share" /\ 1 \in 1 .. Size(part)
        BY PartIs, SizeIs
      <3>2. step = 1 => Ended(1)
        BY <1>4, <3>1 DEF Join
      <3> QED
        BY <3>1, <3>2 DEF Ended
    <2> QED
      BY <2>1, <2>2 DEF SharedRight
  <1>5. ASSUME NEW t \in Thread, Run(t) PROVE SharedRight'
    <2>1. step' = step
      BY <1>5, WhoRuns
    <2>2. CASE SetShared(t)
      BY <2>1, <2>2 DEF SetShared, SharedRight
    <2>3. CASE ~SetShared(t)
      <3>1. step # 1
        BY <1>5, <2>3, WhoRuns
      <3>2. g_shared' = g_shared
        BY <1>5, <2>3
           DEF Run, LockCounter, Load, Store, UnlockCounter, AtomicAdd, BufferStep, Enter, CountIn,
               Look, Raise, CountOut, Leave, StartLine, WriteLock, Write, WriteUnlock, LockFirst,
               BothHoldOne, LockSecond, GiveUp, UnlockSecond, BothAreThrough, UnlockFirst, Barrier, counting
      <3> QED
        BY <2>1, <3>1, <3>2 DEF SharedRight
    <2> QED
      BY <2>2, <2>3
  <1> QED
    BY <1>2, <1>3, <1>4, <1>5 DEF Next, main, Finished

(* What the parts print is true for any number of threads, increments,     *)
(* visitors, permits and readers: no update of the locked and the atomic   *)
(* counter is lost, the plain one keeps at least two, the printed maximum  *)
(* is the real one, no more visitors are inside than there are permits,    *)
(* and no reader is inside with the writer.                                *)
THEOREM ToldTheTruth == Spec => []ReportsAreTrue
  <1>1. Spec => []SharedRight
    BY SharedInit, SharedNext, ThreadsAlways, PTL DEF Spec
  <1>2. ASSUME ThreadInv, SharedRight, CountInv, RoomInv PROVE ReportsAreTrue
    <2>1. step \in 0 .. 10
      BY <1>2 DEF ThreadInv, Created
    <2>2. /\ Over("share") => step > 1
          /\ Over("unsafe") => step > 2
          /\ Over("locked") => step > 3
          /\ Over("atomic") => step > 4
          /\ Over("semaphore") => step > 6
          /\ Over("table") => step > 9
      BY <2>1, TourFacts DEF Over, opposite, same
    <2>3. Over("share") => g_shared = 1
      BY <1>2, <2>2 DEF SharedRight
    <2>4. Over("unsafe") => g_counter["unsafe"] \in Fewest .. Expected
      BY <1>2, <2>2 DEF CountInv, UnsafeRight
    <2>5. \A k \in {"locked", "atomic"} : Over(k) => g_counter[k] = Expected
      BY <1>2, <2>2 DEF CountInv, LockedRight, AtomicRight
    <2>6. \A r \in Room : Over(r) => most[r] = peak[r]
      BY <1>2, <2>2 DEF RoomInv, MostRight, Room
    <2>7. /\ peak["semaphore"] <= Permits
          /\ g_readers_during_write \in {-1, 0} /\ (write_locked => inside["table"] = 0)
      BY <1>2 DEF RoomInv, SemaphoreRight, TableRight
    <2> QED
      BY <2>3, <2>4, <2>5, <2>6, <2>7 DEF ReportsAreTrue
  <1> QED
    BY <1>1, <1>2, ThreadsAlways, CountAlways, RoomAlways, PTL
=============================================================================
