----------------------------- MODULE ThreadSync -----------------------------
(***************************************************************************)
(* demo/threadsync.c: main() takes a tour through parts that each create   *)
(* some threads, let them run and join them.  A step of a thread is one    *)
(* access to memory that others use, one call that can block, or a         *)
(* critical section; what a thread only computes or prints has no step.    *)
(* The threads of a part are numbered as they are created.                 *)
(***************************************************************************)
EXTENDS Integers, Sequences, FiniteSets

CONSTANTS Threads, Increments,                   \* THREADS 4, INCREMENTS 1000000
          Slots, Items, Consumers, MaxSpurious,  \* of the buffer
          Visitors, Permits,                     \* VISITORS 6, and 2
          Readers                                \* READERS 3

ASSUME TourAssumption ==
    /\ {Threads, Increments, Slots, Consumers, Visitors, Permits, Readers} \subseteq Nat \ {0}
    /\ Items \in Nat /\ MaxSpurious \in Nat

VARIABLES
    step,          \* where main() is in the tour; 0: it has called exit(1)
    created,       \* how many threads of the part exist
    pc,
    g_shared,
    g_counter,     \* g_unsafe, g_locked, g_atomic
    loaded,        \* what a thread has last loaded from memory
    rounds,        \* how often a thread has incremented
    g_buffer, g_count, g_head, g_tail, holder, buffer_pc, put, taken, spurious,
    g_room,        \* the permits of the semaphore
    read_locked, write_locked,             \* the state of g_table_lock
    inside,        \* g_inside, g_readers_now
    mine,          \* the number of threads inside, as one of them counted it
    most,          \* g_most_inside, g_readers_most
    peak,          \* ghost: the greatest value that inside has had
    g_readers_during_write,
    owner,         \* of g_counter_lock, g_lock_a and g_lock_b
    outcome        \* what do_transfer() reports

ring     == <<g_buffer, g_count, g_head, g_tail, holder, buffer_pc, put, taken, spurious>>
counting == <<g_shared, g_counter, rounds>>
rooms    == <<g_room, read_locked, write_locked, inside, mine, most, peak, g_readers_during_write>>
locks    == <<owner, outcome>>
local    == <<step, created, loaded>>
vars     == <<local, pc, counting, ring, rooms, locks>>

Buffer == INSTANCE BoundedBuffer WITH pc <- buffer_pc

----------------------------------------------------------------------------
(* The tour.                                                               *)

Tour == <<"share", "unsafe", "locked", "atomic", "buffer",
          "semaphore", "opposite", "same", "table">>

part    == Tour[step]
Touring == step \in DOMAIN Tour
Over(p) == \E i \in DOMAIN Tour : Tour[i] = p /\ step > i

Size(p) ==
    CASE p = "share"                           -> 1
      [] p \in {"unsafe", "locked", "atomic"}  -> Threads
      [] p = "buffer"                          -> Consumers + 1
      [] p = "semaphore"                       -> Visitors
      [] p \in {"opposite", "same"}            -> 2
      [] p = "table"                           -> Readers + 1

\* start_all() creates these; it calls exit(1) when it cannot create one.
\* The others, created one by one, are taken to be created.
Checked(p) ==
    CASE p \in {"share", "opposite", "same"} -> 0
      [] p \in {"buffer", "table"}           -> Size(p) - 1
      [] OTHER                               -> Size(p)

Entry(p) ==
    CASE p = "share"               -> "set"
      [] p = "unsafe"              -> "load"
      [] p = "locked"              -> "lock"
      [] p = "atomic"              -> "add"
      [] p = "semaphore"           -> "enter"
      [] p \in {"opposite", "same"} -> "first"
      [] p = "table"               -> "line"
      [] OTHER                     -> "done"

Thread == 1 .. (CHOOSE n \in {Size(Tour[i]) : i \in DOMAIN Tour} :
                    \A i \in DOMAIN Tour : Size(Tour[i]) <= n)
Room   == {"semaphore", "table"}
Lock   == {"counter", "A", "B"}
Nobody == 0

Init ==
    /\ step = 1 /\ created = 0 /\ pc = [t \in Thread |-> Entry("share")]
    /\ g_shared = 0 /\ g_counter = [k \in {"unsafe", "locked", "atomic"} |-> 0]
    /\ loaded = [t \in Thread |-> 0] /\ rounds = [t \in Thread |-> 0]
    /\ Buffer!Init
    /\ g_room = Permits /\ read_locked = 0 /\ write_locked = FALSE
    /\ inside = [r \in Room |-> 0] /\ most = [r \in Room |-> 0] /\ peak = [r \in Room |-> 0]
    /\ mine = [t \in Thread |-> 0] /\ g_readers_during_write = -1
    /\ owner = [l \in Lock |-> Nobody]
    /\ outcome = [p \in {"opposite", "same"} |-> [t \in 1 .. 2 |-> "none"]]

\* Thread t of the part exists and is at the label.
At(t, label) == Touring /\ t <= created /\ pc[t] = label

Goto(t, label) == pc' = [pc EXCEPT ![t] = label]

Ended(t) ==
    IF part = "buffer" THEN buffer_pc[t % (Consumers + 1)] = "done" ELSE pc[t] = "done"

Create ==
    /\ Touring /\ created < Size(part)
    /\ created' = created + 1
    /\ UNCHANGED <<step, loaded, pc, counting, ring, rooms, locks>>

CreateFails ==
    /\ Touring /\ created < Checked(part)
    /\ step' = 0
    /\ UNCHANGED <<created, loaded, pc, counting, ring, rooms, locks>>

\* All threads have been joined.  At the end of the first part main() also
\* forks a child, which writes to its own copy of g_shared only.
Join ==
    /\ Touring /\ created = Size(part) /\ \A t \in 1 .. Size(part) : Ended(t)
    /\ step' = step + 1 /\ created' = 0
    /\ pc' = [t \in Thread |-> IF step' \in DOMAIN Tour THEN Entry(Tour[step']) ELSE "done"]
    /\ loaded' = [t \in Thread |-> 0] /\ rounds' = [t \in Thread |-> 0]
    /\ mine' = [t \in Thread |-> 0]
    /\ UNCHANGED <<g_shared, g_counter, ring, g_room, read_locked, write_locked, inside,
                   most, peak, g_readers_during_write, locks>>

----------------------------------------------------------------------------
(* Part 1 and part 2: memory that is shared, and a counter.                *)

SetShared(t) ==
    /\ At(t, "set") /\ Goto(t, "done") /\ g_shared' = 1
    /\ UNCHANGED <<local, g_counter, rounds, ring, rooms, locks>>

\* One increment is done; the loop comes back to the label or ends.
Counted(t, label) ==
    /\ rounds' = [rounds EXCEPT ![t] = @ + 1]
    /\ Goto(t, IF rounds'[t] = Increments THEN "done" ELSE label)

LockCounter(t) ==
    /\ At(t, "lock") /\ owner["counter"] = Nobody
    /\ owner' = [owner EXCEPT !["counter"] = t] /\ Goto(t, "load")
    /\ UNCHANGED <<local, counting, ring, rooms, outcome>>

\* ++ is a load, an addition in a register and a store.
Load(t) ==
    /\ At(t, "load") /\ Goto(t, "store")
    /\ loaded' = [loaded EXCEPT ![t] = g_counter[part]]
    /\ UNCHANGED <<step, created, counting, ring, rooms, locks>>

Store(t) ==
    /\ At(t, "store")
    /\ g_counter' = [g_counter EXCEPT ![part] = loaded[t] + 1]
    /\ IF part = "locked" THEN Goto(t, "unlock") /\ UNCHANGED rounds ELSE Counted(t, "load")
    /\ UNCHANGED <<local, g_shared, ring, rooms, locks>>

UnlockCounter(t) ==
    /\ At(t, "unlock")
    /\ owner' = [owner EXCEPT !["counter"] = Nobody] /\ Counted(t, "lock")
    /\ UNCHANGED <<local, g_shared, g_counter, ring, rooms, outcome>>

AtomicAdd(t) ==
    /\ At(t, "add")
    /\ g_counter' = [g_counter EXCEPT !["atomic"] = @ + 1] /\ Counted(t, "add")
    /\ UNCHANGED <<local, g_shared, ring, rooms, locks>>

----------------------------------------------------------------------------
(* Part 3: the threads of BoundedBuffer.                                   *)

BufferStep(t) ==
    /\ Touring /\ part = "buffer" /\ t <= created
    /\ IF t = Consumers + 1 THEN Buffer!Produce ELSE Buffer!Consume(t)
    /\ UNCHANGED <<local, pc, counting, rooms, locks>>

SpuriousWakeup ==
    /\ Touring /\ part = "buffer"
    /\ \E t \in Buffer!Thread : Buffer!SpuriousWakeup(t)
    /\ UNCHANGED <<local, pc, counting, rooms, locks>>

----------------------------------------------------------------------------
(* Part 4 and the readers of part 6: threads in a room, which keep the     *)
(* maximum of their number with a compare and swap.                        *)

access   == <<g_room, read_locked, write_locked>>
IsWriter(t) == part = "table" /\ t = Readers + 1

\* sem_wait(), pthread_rwlock_rdlock()
Enter(t) ==
    /\ At(t, "enter") /\ ~IsWriter(t) /\ Goto(t, "count")
    /\ IF part = "semaphore"
       THEN g_room > 0 /\ g_room' = g_room - 1 /\ UNCHANGED read_locked
       ELSE ~write_locked /\ read_locked' = read_locked + 1 /\ UNCHANGED g_room
    /\ UNCHANGED <<local, counting, ring, locks>>
    /\ UNCHANGED <<write_locked, inside, mine, most, peak, g_readers_during_write>>

CountIn(t) ==
    /\ At(t, "count") /\ Goto(t, "look")
    /\ inside' = [inside EXCEPT ![part] = @ + 1]
    /\ mine' = [mine EXCEPT ![t] = inside'[part]]
    /\ peak' = [peak EXCEPT ![part] = IF @ < inside'[part] THEN inside'[part] ELSE @]
    /\ UNCHANGED <<local, counting, ring, locks, access, most, g_readers_during_write>>

Look(t) ==
    /\ At(t, "look") /\ Goto(t, "raise")
    /\ loaded' = [loaded EXCEPT ![t] = most[part]]
    /\ UNCHANGED <<step, created, counting, ring, rooms, locks>>

\* Faulty: a plain store in place of the compare and swap.
Raise_Store(t) ==
    /\ At(t, "raise") /\ Goto(t, "inside")
    /\ most' = [most EXCEPT ![part] = IF mine[t] > loaded[t] THEN mine[t] ELSE @]
    /\ UNCHANGED <<local, counting, ring, locks, access, inside, mine, peak, g_readers_during_write>>

\* A compare and swap that fails loads the maximum anew.  The weak one can
\* also fail although nothing has changed, and changes nothing then.
Raise(t) ==
    /\ At(t, "raise")
    /\ IF mine[t] > loaded[t] /\ most[part] # loaded[t]
       THEN loaded' = [loaded EXCEPT ![t] = most[part]] /\ UNCHANGED <<pc, most>>
       ELSE /\ most' = [most EXCEPT ![part] = IF mine[t] > loaded[t] THEN mine[t] ELSE @]
            /\ Goto(t, "inside") /\ UNCHANGED loaded
    /\ UNCHANGED <<step, created, counting, ring, locks, access, inside, mine, peak>>
    /\ UNCHANGED g_readers_during_write

CountOut(t) ==
    /\ At(t, "inside") /\ Goto(t, "leave")
    /\ inside' = [inside EXCEPT ![part] = @ - 1]
    /\ UNCHANGED <<local, counting, ring, locks, access, mine, most, peak, g_readers_during_write>>

\* sem_post(), pthread_rwlock_unlock()
Leave(t) ==
    /\ At(t, "leave") /\ Goto(t, "done")
    /\ IF part = "semaphore" THEN g_room' = g_room + 1 /\ UNCHANGED read_locked
       ELSE read_locked' = read_locked - 1 /\ UNCHANGED g_room
    /\ UNCHANGED <<local, counting, ring, locks>>
    /\ UNCHANGED <<write_locked, inside, mine, most, peak, g_readers_during_write>>

WriteLock(t) ==
    /\ At(t, "enter") /\ IsWriter(t) /\ Goto(t, "write")
    /\ read_locked = 0 /\ ~write_locked /\ write_locked' = TRUE
    /\ UNCHANGED <<local, counting, ring, locks>>
    /\ UNCHANGED <<g_room, read_locked, inside, mine, most, peak, g_readers_during_write>>

Write(t) ==
    /\ At(t, "write") /\ Goto(t, "unlock table")
    /\ g_readers_during_write' = inside["table"]
    /\ UNCHANGED <<local, counting, ring, locks, access, inside, mine, most, peak>>

WriteUnlock(t) ==
    /\ At(t, "unlock table") /\ Goto(t, "done") /\ write_locked' = FALSE
    /\ UNCHANGED <<local, counting, ring, locks>>
    /\ UNCHANGED <<g_room, read_locked, inside, mine, most, peak, g_readers_during_write>>

----------------------------------------------------------------------------
(* Part 5, two transfers, and the barriers of parts 5 and 6.               *)

\* pthread_barrier_wait() at a label: the last to arrive lets all go on.
Barrier(t, label, next) ==
    /\ At(t, label)
    /\ pc' = IF \A u \in 1 .. Size(part) \ {t} : pc[u] = "waiting"
             THEN [u \in Thread |-> IF u <= Size(part) THEN next ELSE pc[u]]
             ELSE [pc EXCEPT ![t] = "waiting"]
    /\ UNCHANGED <<local, counting, ring, rooms, locks>>

StartLine(t) == Barrier(t, "line", "enter")
BothHoldOne(t) == Barrier(t, "meet", "second")

\* Faulty: no second barrier.
BothAreThrough_NoWait(t) == At(t, "meet again") /\ Goto(t, "release")
                            /\ UNCHANGED <<local, counting, ring, rooms, locks>>

BothAreThrough(t) == Barrier(t, "meet again", "release")

First(t)  == IF part = "opposite" /\ t = 2 THEN "B" ELSE "A"
Second(t) == IF First(t) = "A" THEN "B" ELSE "A"
WithBarrier(yes, no) == IF part = "opposite" THEN yes ELSE no

LockFirst(t) ==
    /\ At(t, "first") /\ owner[First(t)] = Nobody
    /\ owner' = [owner EXCEPT ![First(t)] = t] /\ Goto(t, WithBarrier("meet", "second"))
    /\ UNCHANGED <<local, counting, ring, rooms, outcome>>

\* pthread_mutex_timedlock() succeeds ...
LockSecond(t) ==
    /\ At(t, "second") /\ owner[Second(t)] = Nobody
    /\ owner' = [owner EXCEPT ![Second(t)] = t]
    /\ outcome' = [outcome EXCEPT ![part][t] = "got"]
    /\ Goto(t, "both")
    /\ UNCHANGED <<local, counting, ring, rooms>>

\* ... or times out, but only while another thread holds the lock.
GiveUp(t) ==
    /\ At(t, "second") /\ owner[Second(t)] # Nobody
    /\ outcome' = [outcome EXCEPT ![part][t] = "gave up"]
    /\ Goto(t, WithBarrier("meet again", "release"))
    /\ UNCHANGED <<local, counting, ring, rooms, owner>>

UnlockSecond(t) ==
    /\ At(t, "both")
    /\ owner' = [owner EXCEPT ![Second(t)] = Nobody]
    /\ Goto(t, WithBarrier("meet again", "release"))
    /\ UNCHANGED <<local, counting, ring, rooms, outcome>>

UnlockFirst(t) ==
    /\ At(t, "release")
    /\ owner' = [owner EXCEPT ![First(t)] = Nobody] /\ Goto(t, "done")
    /\ UNCHANGED <<local, counting, ring, rooms, outcome>>

----------------------------------------------------------------------------

main == Create \/ CreateFails \/ Join

Run(t) ==
    \/ SetShared(t) \/ LockCounter(t) \/ Load(t) \/ Store(t) \/ UnlockCounter(t) \/ AtomicAdd(t)
    \/ BufferStep(t)
    \/ Enter(t) \/ CountIn(t) \/ Look(t) \/ Raise(t) \/ CountOut(t) \/ Leave(t)
    \/ StartLine(t) \/ WriteLock(t) \/ Write(t) \/ WriteUnlock(t)
    \/ LockFirst(t) \/ BothHoldOne(t) \/ LockSecond(t) \/ GiveUp(t) \/ UnlockSecond(t)
    \/ BothAreThrough(t) \/ UnlockFirst(t)

\* main() has returned or exited, and the threads with it.
Finished == ~Touring /\ UNCHANGED vars

Next == main \/ (\E t \in Thread : Run(t)) \/ SpuriousWakeup \/ Finished

Spec == Init /\ [][Next]_vars

\* A thread that can run for good does run, and main() too.
FairSpec == Spec /\ WF_vars(Create \/ Join) /\ \A t \in Thread : WF_vars(Run(t))

----------------------------------------------------------------------------
(* Properties.                                                             *)

(* Nothing is lost, doubled or overtaken on the way through the ring, and  *)
(* a thread of the buffer that sleeps has no reason to be awake.           *)
InOrder == Buffer!InOrder
NobodyForgotten == Buffer!NobodyForgotten

Expected == Threads * Increments

\* The fewest increments that can survive: a thread can store what it loaded
\* at the very start, and another what it loaded just after that.
Fewest == IF Threads = 1 THEN Increments ELSE IF Increments = 1 THEN 1 ELSE 2

(* What the parts print is true: the mutex and the atomic addition lose no *)
(* update, the plain counter can lose all but two and never counts too     *)
(* much; the printed maximum of threads inside is the real one, although   *)
(* several raise it at once; there are never more visitors than permits,   *)
(* and no reader is inside while the writer is.                            *)
ReportsAreTrue ==
    /\ Over("share") => g_shared = 1
    /\ Over("unsafe") => g_counter["unsafe"] \in Fewest .. Expected
    /\ \A k \in {"locked", "atomic"} : Over(k) => g_counter[k] = Expected
    /\ \A r \in Room : Over(r) => most[r] = peak[r]
    /\ peak["semaphore"] <= Permits
    /\ g_readers_during_write \in {-1, 0} /\ (write_locked => inside["table"] = 0)

(* The order of locking decides: with opposite orders both transfers give  *)
(* up every time, neither gets through by the other's release; with the    *)
(* same order neither ever gives up.                                       *)
OrderDecides ==
    \A t \in 1 .. 2 :
        /\ outcome["opposite"][t] # "got" /\ (Over("opposite") => outcome["opposite"][t] = "gave up")
        /\ outcome["same"][t] # "gave up" /\ (Over("same") => outcome["same"][t] = "got")

(* The joins return: the tour comes to its end, unless a thread could not  *)
(* be created, with everything taken from the buffer, every permit         *)
(* returned and every lock free.                                           *)
AllStop ==
    <>(/\ ~Touring
       /\ step # 0 => /\ taken = Buffer!Feed /\ g_room = Permits
                      /\ read_locked = 0 /\ ~write_locked
                      /\ \A l \in Lock : owner[l] = Nobody)
=============================================================================
