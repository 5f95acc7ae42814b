---------------------------- MODULE BoundedBuffer ----------------------------
(***************************************************************************)
(* The bounded buffer of demo/threadsync.c, part 3: one producer and some  *)
(* consumers around a ring of slots, a mutex and two condition variables.  *)
(* A thread's critical section is one step, from the test of the condition *)
(* to the unlock or the wait; which thread gets the lock next, which       *)
(* waiter a signal wakes and whether one wakes without a signal is open.   *)
(* ThreadSync creates the threads, lets them run and joins them.           *)
(***************************************************************************)
EXTENDS Integers, Sequences, SequencesExt, FiniteSetsExt

CONSTANTS Slots,         \* SLOTS, 4
          Items,         \* ITEMS, 10
          Consumers,     \* CONSUMERS, 2
          MaxSpurious    \* bound: how many waits end without a signal

VARIABLES
    g_buffer, g_count, g_head, g_tail,
    holder,        \* who holds g_buffer_lock
    pc,
    put,           \* how many items the producer has put
    taken,         \* every item taken so far, in the order of taking
    spurious       \* what is left of MaxSpurious

ring == <<g_buffer, g_count, g_head, g_tail>>
vars == <<ring, holder, pc, put, taken, spurious>>

producer  == 0
Consumer  == 1 .. Consumers
Thread    == {producer} \cup Consumer
Nobody    == -1
StopMarker == -1

\* What the producer puts: the items, then one stop marker per consumer.
Feed == [i \in 1 .. Items + Consumers |-> IF i <= Items THEN i ELSE StopMarker]

Init ==
    /\ g_buffer = [s \in 0 .. Slots - 1 |-> 0]
    /\ g_count = 0 /\ g_head = 0 /\ g_tail = 0
    /\ holder = Nobody /\ pc = [t \in Thread |-> "lock"]
    /\ put = 0 /\ taken = <<>> /\ spurious = MaxSpurious

\* pthread_mutex_lock(), also the one at the end of pthread_cond_wait().
Acquire(t) ==
    /\ pc[t] \in {"lock", "woken"} /\ holder = Nobody
    /\ holder' = t /\ pc' = [pc EXCEPT ![t] = "test"]
    /\ UNCHANGED <<ring, put, taken, spurious>>

\* Faulty: the waiter spins with the lock held.
Sleep_Spins(t) == UNCHANGED vars /\ pc[t] = "test"

\* pthread_cond_wait()
Sleep(t) ==
    /\ holder' = Nobody /\ pc' = [pc EXCEPT ![t] = "asleep"]
    /\ UNCHANGED <<ring, put, taken, spurious>>

\* Faulty: nobody is told.
Signal_Nobody(waiters, t, next) == pc' = [pc EXCEPT ![t] = next]

\* pthread_cond_signal() wakes one of the waiters, if there are any.
\* Then t unlocks and goes on.
Signal(waiters, t, next) ==
    LET asleep == {w \in waiters : pc[w] = "asleep"}
    IN  IF asleep = {} THEN pc' = [pc EXCEPT ![t] = next]
        ELSE \E w \in asleep : pc' = [pc EXCEPT ![t] = next, ![w] = "woken"]

Full == g_count = Slots

PutWaits == pc[producer] = "test" /\ Full /\ Sleep(producer)

\* buffer_put()
Put ==
    /\ pc[producer] = "test" /\ ~Full
    /\ g_buffer' = [g_buffer EXCEPT ![g_tail] = Feed[put + 1]]
    /\ g_tail' = (g_tail + 1) % Slots /\ g_count' = g_count + 1
    /\ put' = put + 1
    /\ Signal(Consumer, producer, IF put' = Len(Feed) THEN "done" ELSE "lock")
    /\ holder' = Nobody
    /\ UNCHANGED <<g_head, taken, spurious>>

TakeWaits(c) == pc[c] = "test" /\ g_count = 0 /\ Sleep(c)

\* Faulty: the waiter does not look again when it wakes.
Take_IfForWhile(c) ==
    /\ \/ pc[c] = "test" /\ g_count > 0
       \/ pc[c] = "woken" /\ holder = Nobody
    /\ taken' = Append(taken, g_buffer[g_head])
    /\ g_head' = (g_head + 1) % Slots /\ g_count' = g_count - 1
    /\ Signal({producer}, c, IF g_buffer[g_head] = StopMarker THEN "done" ELSE "lock")
    /\ holder' = Nobody
    /\ UNCHANGED <<g_buffer, g_tail, put, spurious>>

\* buffer_take(), and consumer() until it calls again or stops.
Take(c) ==
    /\ pc[c] = "test" /\ g_count > 0
    /\ taken' = Append(taken, g_buffer[g_head])
    /\ g_head' = (g_head + 1) % Slots /\ g_count' = g_count - 1
    /\ Signal({producer}, c, IF g_buffer[g_head] = StopMarker THEN "done" ELSE "lock")
    /\ holder' = Nobody
    /\ UNCHANGED <<g_buffer, g_tail, put, spurious>>

SpuriousWakeup(t) ==
    /\ pc[t] = "asleep" /\ spurious > 0
    /\ pc' = [pc EXCEPT ![t] = "woken"] /\ spurious' = spurious - 1
    /\ UNCHANGED <<ring, holder, put, taken>>

Produce    == Acquire(producer) \/ PutWaits \/ Put
Consume(c) == Acquire(c) \/ TakeWaits(c) \/ Take(c)

----------------------------------------------------------------------------
(* Properties.                                                             *)

(* Nothing is lost, doubled or overtaken on the way through the ring: what *)
(* has been taken, followed by what is in the ring from g_head on, is what *)
(* the producer has put, in the order of putting.                          *)
InOrder ==
    taken \o [i \in 1 .. g_count |-> g_buffer[(g_head + i - 1) % Slots]] = SubSeq(Feed, 1, put)

(* One signal for each slot that is freed and for each item is enough:     *)
(* the producer only sleeps while the ring is full, and there are always   *)
(* as many consumers awake as there are items for them, or all that have   *)
(* not stopped, although a waiter may wake for nothing or be overtaken.    *)
NobodyForgotten ==
    LET running == {c \in Consumer : pc[c] # "done"}
        awake   == {c \in running : pc[c] # "asleep"}
    IN  /\ pc[producer] = "asleep" => Full
        /\ Cardinality(awake) >= g_count \/ awake = running
=============================================================================
