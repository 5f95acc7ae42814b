----------------------------- MODULE Collector -----------------------------
(***************************************************************************)
(* The two threads of Kernel Monitor and the lock between them:            *)
(* collector/collector.c, the loop of main() in main.c, and the buffers of *)
(* process/process_monitor.c that one thread fills and the other draws.    *)
(*                                                                         *)
(* Data is abstracted to the number of the sample it belongs to: sample 0  *)
(* is taken before the thread exists, and the sweep that leads to          *)
(* generation g + 1 yields sample g + 1.  Time is counted in steps of 500  *)
(* ms, the step of the + and - keys.                                       *)
(***************************************************************************)
EXTENDS Integers

CONSTANTS MinInterval,   \* min_interval, 500 ms: 1
          MaxInterval,   \* max_interval, 10000 ms: 20
          InitInterval,  \* refresh_interval at start, 2000 ms: 4
          MaxTicks,      \* bound: how many times the clock advances
          MaxKeys        \* bound: how many keys the user presses

ASSUME IntervalAssumption ==
    /\ MinInterval \in Nat \ {0}
    /\ MaxInterval \in Nat
    /\ InitInterval \in MinInterval .. MaxInterval

ASSUME BoundAssumption == MaxTicks \in Nat /\ MaxKeys \in Nat

VARIABLES
    lock,               \* who holds c->lock: "none", "main" or "collector"
    \* the rest of km_collector
    interval_ms, refresh_requested, stopping, generation, running,
    \* the monitors, as sample numbers
    processes, count, incoming, sys, last_scan_ms,
    freed,              \* the monitors have been destroyed
    \* the collector thread
    cpc, elapsed,       \* time since the sweep that `last` records
    armed,              \* the interval the current wait's deadline was made from
    \* the main thread
    mpc, op, g_running, refresh_interval, drawn_generation, needs_redraw, frame,
    \* what is left of the environment's budget
    ticks, keys

shared    == <<interval_ms, refresh_requested, stopping, generation, running>>
monitors  == <<processes, count, incoming, sys, last_scan_ms, freed>>
collector == <<cpc, elapsed, armed>>
settings  == <<g_running, refresh_interval, drawn_generation, needs_redraw, frame>>
main      == <<mpc, op, settings>>
budget    == <<ticks, keys>>
vars      == <<lock, shared, monitors, collector, main, budget>>

Partial  == -1                    \* a buffer that a sweep is still filling
Whole(n) == [items |-> n, count |-> n, sys |-> n]
Blank    == Whole(-1)             \* no frame has been drawn

Init ==
    /\ lock = "none"
    /\ interval_ms = InitInterval /\ refresh_requested = FALSE
    /\ stopping = FALSE /\ generation = 0 /\ running = FALSE
    /\ processes = 0 /\ count = 0 /\ incoming = Partial /\ sys = 0 /\ last_scan_ms = 0
    /\ freed = FALSE
    /\ cpc = "none" /\ elapsed = 0 /\ armed = InitInterval
    /\ mpc = "startup" /\ op = "none"
    /\ g_running = TRUE /\ refresh_interval = InitInterval
    /\ drawn_generation = 0 /\ needs_redraw = TRUE /\ frame = Blank
    /\ ticks = MaxTicks /\ keys = MaxKeys

----------------------------------------------------------------------------
(* The collector thread: collector_main().                                 *)

\* The thread reads the clock into `last` and asks for the lock.
ThreadStart ==
    /\ cpc = "start"
    /\ cpc' = "acquire" /\ elapsed' = 0
    /\ UNCHANGED <<lock, shared, monitors, armed, main, budget>>

\* pthread_mutex_lock() returns: on entry, at the end of a wait (a wakeup
\* goes back to the predicate, a timeout leaves the loop), after a sweep.
CollectorLocks ==
    /\ lock = "none" /\ lock' = "collector"
    /\ \/ cpc \in {"acquire", "woken"} /\ cpc' = "test"
       \/ cpc = "expired" /\ cpc' = "leave"
       \/ cpc = "swept" /\ cpc' = "update"
    /\ UNCHANGED <<shared, monitors, elapsed, armed, main, budget>>

\* The predicate is false: pthread_cond_timedwait() computes its deadline from
\* the interval of this moment and sleeps, without the lock.
Wait ==
    /\ cpc = "test" /\ ~stopping /\ ~refresh_requested
    /\ cpc' = "waiting" /\ armed' = interval_ms /\ lock' = "none"
    /\ UNCHANGED <<shared, monitors, elapsed, main, budget>>

Leave ==
    /\ cpc = "test" /\ (stopping \/ refresh_requested)
    /\ cpc' = "leave"
    /\ UNCHANGED <<lock, shared, monitors, elapsed, armed, main, budget>>

SpuriousWakeup ==
    /\ cpc = "waiting" /\ cpc' = "woken"
    /\ UNCHANGED <<lock, shared, monitors, elapsed, armed, main, budget>>

\* The deadline has passed: the wait will return ETIMEDOUT.
Expire ==
    /\ cpc = "waiting" /\ elapsed >= armed
    /\ cpc' = "expired"
    /\ UNCHANGED <<lock, shared, monitors, elapsed, armed, main, budget>>

Finish ==
    /\ cpc = "leave" /\ stopping
    /\ cpc' = "done" /\ lock' = "none"
    /\ UNCHANGED <<shared, monitors, elapsed, armed, main, budget>>

\* Faulty: `stopping` is not looked at again after the wait.
Accept_IgnoreStop ==
    /\ cpc = "leave"
    /\ cpc' = "begin" /\ refresh_requested' = FALSE /\ lock' = "none"
    /\ UNCHANGED <<interval_ms, stopping, generation, running, monitors, elapsed, armed,
                   main, budget>>

Accept ==
    /\ cpc = "leave" /\ ~stopping
    /\ cpc' = "begin" /\ refresh_requested' = FALSE /\ lock' = "none"
    /\ UNCHANGED <<interval_ms, stopping, generation, running, monitors, elapsed, armed,
                   main, budget>>

\* km_process_monitor_collect() runs unlocked, in three steps: the clock is
\* read and the buffer restarted, the buffer is filled, the duration is stored.
BeginSweep ==
    /\ cpc = "begin"
    /\ cpc' = "sweep" /\ elapsed' = 0 /\ incoming' = Partial
    /\ UNCHANGED <<lock, shared, processes, count, sys, last_scan_ms, freed, armed, main, budget>>

EndSweep ==
    /\ cpc = "sweep"
    /\ cpc' = "measure" /\ incoming' = generation + 1
    /\ UNCHANGED <<lock, shared, processes, count, sys, last_scan_ms, freed, elapsed, armed,
                   main, budget>>

StoreScanTime ==
    /\ cpc = "measure"
    /\ cpc' = "swept" /\ last_scan_ms' = generation + 1
    /\ UNCHANGED <<lock, shared, processes, count, incoming, sys, freed, elapsed, armed,
                   main, budget>>

\* Faulty: the lock is released between the system figures and the swap.
UpdateSystem_Unlocks ==
    /\ cpc = "update"
    /\ cpc' = "swap" /\ sys' = generation + 1 /\ lock' = "none"
    /\ UNCHANGED <<shared, processes, count, incoming, last_scan_ms, freed, elapsed,
                   armed, main, budget>>

\* The critical section after the sweep: km_system_monitor_update(), then
\* km_process_monitor_publish(), which assigns field after field.
UpdateSystem ==
    /\ cpc = "update"
    /\ cpc' = "swap" /\ sys' = generation + 1
    /\ UNCHANGED <<lock, shared, processes, count, incoming, last_scan_ms, freed, elapsed,
                   armed, main, budget>>

SwapItems ==
    /\ cpc = "swap"
    /\ cpc' = "resize" /\ processes' = incoming /\ incoming' = processes
    /\ UNCHANGED <<lock, shared, count, sys, last_scan_ms, freed, elapsed, armed, main, budget>>

SwapCount ==
    /\ cpc = "resize"
    /\ cpc' = "bump" /\ count' = processes
    /\ UNCHANGED <<lock, shared, processes, incoming, sys, last_scan_ms, freed, elapsed,
                   armed, main, budget>>

\* Faulty: the request is cleared when the sweep ends, not when it begins.
Bump_ClearsRequest ==
    /\ cpc = "bump"
    /\ cpc' = "test" /\ generation' = generation + 1 /\ refresh_requested' = FALSE
    /\ UNCHANGED <<lock, interval_ms, stopping, running, monitors, elapsed, armed, main, budget>>

Bump ==
    /\ cpc = "bump"
    /\ cpc' = "test" /\ generation' = generation + 1
    /\ UNCHANGED <<lock, interval_ms, refresh_requested, stopping, running, monitors,
                   elapsed, armed, main, budget>>

CollectorStep ==
    \/ ThreadStart \/ CollectorLocks \/ Wait \/ Leave \/ Expire \/ Finish \/ Accept
    \/ BeginSweep \/ EndSweep \/ StoreScanTime \/ UpdateSystem \/ SwapItems \/ SwapCount
    \/ Bump

----------------------------------------------------------------------------
(* The main thread: main() and signal_selected().                          *)

\* km_collector_start() creates the thread,
Start ==
    /\ mpc = "startup"
    /\ mpc' = "head" /\ cpc' = "start" /\ running' = TRUE
    /\ UNCHANGED <<lock, interval_ms, refresh_requested, stopping, generation, monitors,
                   elapsed, armed, op, settings, budget>>

\* or the terminal, the condition variable or the thread cannot be had: the
\* monitors are destroyed and the program ends.
StartFails ==
    /\ mpc = "startup"
    /\ mpc' = "exited" /\ freed' = TRUE
    /\ UNCHANGED <<lock, shared, processes, count, incoming, sys, last_scan_ms, collector,
                   op, settings, budget>>

\* while (g_running); km_collector_stop() returns at once if nothing runs.
LoopHead ==
    /\ mpc = "head"
    /\ mpc' = IF g_running THEN "input" ELSE IF running THEN "stop" ELSE "cleanup"
    /\ UNCHANGED <<lock, shared, monitors, collector, op, settings, budget>>

\* Faulty: the idle pass looks at the sample without the lock.
NoKey_NoLock ==
    /\ mpc = "input" /\ mpc' = "check"
    /\ UNCHANGED <<lock, shared, monitors, collector, op, settings, budget>>

\* km_ui_get_input() gives up after 120 ms, or returns a key nobody handles.
NoKey ==
    /\ mpc = "input" /\ mpc' = "lock_draw"
    /\ UNCHANGED <<lock, shared, monitors, collector, op, settings, budget>>

\* A handled key always leads to a redraw, on whichever path it gets there.
Key ==
    /\ mpc = "input" /\ keys > 0
    /\ keys' = keys - 1 /\ needs_redraw' = TRUE
    /\ UNCHANGED <<lock, shared, monitors, collector, drawn_generation, frame, ticks>>

QuitKey ==
    /\ Key
    /\ g_running' = FALSE /\ mpc' = "lock_draw"
    /\ UNCHANGED <<op, refresh_interval>>

\* Resize, navigation, the views, SIGCONT: nothing the collector knows of.
LocalKey ==
    /\ Key
    /\ mpc' = "lock_draw"
    /\ UNCHANGED <<op, g_running, refresh_interval>>

RefreshKey ==
    /\ Key
    /\ mpc' = "lock_op" /\ op' = "refresh"
    /\ UNCHANGED <<g_running, refresh_interval>>

SlowerKey ==
    /\ Key
    /\ refresh_interval' = IF refresh_interval + 1 > MaxInterval THEN MaxInterval
                                                                ELSE refresh_interval + 1
    /\ mpc' = "lock_op" /\ op' = "interval"
    /\ UNCHANGED g_running

\* Faulty: the interval is not clamped from below.
FasterKey_NoClamp ==
    /\ Key
    /\ refresh_interval' = refresh_interval - 1
    /\ mpc' = "lock_op" /\ op' = "interval"
    /\ UNCHANGED g_running

FasterKey ==
    /\ Key
    /\ refresh_interval' = IF refresh_interval - 1 < MinInterval THEN MinInterval
                                                                ELSE refresh_interval - 1
    /\ mpc' = "lock_op" /\ op' = "interval"
    /\ UNCHANGED g_running

\* K, X or S with a process selected.
SignalKey ==
    /\ Key
    /\ mpc' = "lock_op" /\ op' = "find"
    /\ UNCHANGED <<g_running, refresh_interval>>

\* pthread_mutex_lock(): for an operation on the collector, for the frame, to stop.
MainLocks ==
    /\ lock = "none" /\ lock' = "main"
    /\ \/ mpc = "lock_op" /\ mpc' = "op"
       \/ mpc = "lock_draw" /\ mpc' = "check"
       \/ mpc = "lock_stop" /\ mpc' = "halt"
    /\ UNCHANGED <<shared, monitors, collector, op, settings, budget>>

\* pthread_cond_signal() reaches a thread that waits and is lost otherwise.
Signalled == IF cpc = "waiting" THEN "woken" ELSE cpc

\* Faulty: the sleeping collector is not signalled.
RequestRefresh_NoSignal ==
    /\ mpc = "op" /\ op = "refresh"
    /\ refresh_requested' = TRUE /\ lock' = "none"
    /\ mpc' = "lock_draw" /\ op' = "none"
    /\ UNCHANGED <<interval_ms, stopping, generation, running, monitors, collector,
                   settings, budget>>

RequestRefresh ==
    /\ mpc = "op" /\ op = "refresh"
    /\ refresh_requested' = TRUE /\ cpc' = Signalled /\ lock' = "none"
    /\ mpc' = "lock_draw" /\ op' = "none"
    /\ UNCHANGED <<interval_ms, stopping, generation, running, monitors, elapsed, armed,
                   settings, budget>>

SetInterval ==
    /\ mpc = "op" /\ op = "interval"
    /\ interval_ms' = refresh_interval /\ cpc' = Signalled /\ lock' = "none"
    /\ mpc' = "lock_draw" /\ op' = "none"
    /\ UNCHANGED <<refresh_requested, stopping, generation, running, monitors, elapsed, armed,
                   settings, budget>>

\* The name is copied under the lock; the question is asked without it, and
\* not at all when the process has left the sample.
FindSelected ==
    /\ mpc = "op" /\ op = "find"
    /\ lock' = "none" /\ op' = "none" /\ mpc' \in {"prompt", "lock_draw"}
    /\ UNCHANGED <<shared, monitors, collector, settings, budget>>

\* km_ui_confirm() waits for a key with no timeout.
Answer ==
    /\ mpc = "prompt" /\ mpc' = "lock_draw"
    /\ UNCHANGED <<lock, shared, monitors, collector, op, settings, budget>>

\* Faulty: the new generation is noted but no redraw is asked for.
CheckGeneration_NoRedraw ==
    /\ mpc = "check" /\ mpc' = "draw"
    /\ drawn_generation' = generation
    /\ UNCHANGED <<lock, shared, monitors, collector, op, g_running, refresh_interval,
                   needs_redraw, frame, budget>>

CheckGeneration ==
    /\ mpc = "check" /\ mpc' = "draw"
    /\ drawn_generation' = generation
    /\ needs_redraw' = (needs_redraw \/ generation # drawn_generation)
    /\ UNCHANGED <<lock, shared, monitors, collector, op, g_running, refresh_interval, frame,
                   budget>>

Draw ==
    /\ mpc = "draw" /\ mpc' = "head" /\ lock' = "none"
    /\ frame' = IF needs_redraw THEN [items |-> processes, count |-> count, sys |-> sys]
                                ELSE frame
    /\ needs_redraw' = FALSE
    /\ UNCHANGED <<shared, monitors, collector, op, g_running, refresh_interval,
                   drawn_generation, budget>>

\* km_collector_stop(), in three parts.
Stop ==
    /\ mpc = "stop" /\ mpc' = "lock_stop"
    /\ UNCHANGED <<lock, shared, monitors, collector, op, settings, budget>>

\* Faulty: the sleeping collector is not signalled.
Halt_NoSignal ==
    /\ mpc = "halt"
    /\ stopping' = TRUE /\ lock' = "none" /\ mpc' = "join"
    /\ UNCHANGED <<interval_ms, refresh_requested, generation, running, monitors, collector,
                   op, settings, budget>>

Halt ==
    /\ mpc = "halt"
    /\ stopping' = TRUE /\ cpc' = Signalled /\ lock' = "none" /\ mpc' = "join"
    /\ UNCHANGED <<interval_ms, refresh_requested, generation, running, monitors, elapsed,
                   armed, op, settings, budget>>

\* Faulty: the main thread does not wait for the collector.
Join_NoWait ==
    /\ mpc = "join"
    /\ running' = FALSE /\ mpc' = "cleanup"
    /\ UNCHANGED <<lock, interval_ms, refresh_requested, stopping, generation, monitors,
                   collector, op, settings, budget>>

Join ==
    /\ mpc = "join" /\ cpc = "done"
    /\ running' = FALSE /\ mpc' = "cleanup"
    /\ UNCHANGED <<lock, interval_ms, refresh_requested, stopping, generation, monitors,
                   collector, op, settings, budget>>

Cleanup ==
    /\ mpc = "cleanup"
    /\ freed' = TRUE /\ mpc' = "exited"
    /\ UNCHANGED <<lock, shared, processes, count, incoming, sys, last_scan_ms, collector,
                   op, settings, budget>>

MainStep ==
    \/ Start \/ StartFails \/ LoopHead \/ NoKey \/ MainLocks \/ RequestRefresh \/ SetInterval
    \/ FindSelected \/ CheckGeneration \/ Draw \/ Stop \/ Halt \/ Join \/ Cleanup

UserStep ==
    \/ QuitKey \/ LocalKey \/ RefreshKey \/ SlowerKey \/ FasterKey \/ SignalKey \/ Answer

----------------------------------------------------------------------------
(* The environment.                                                        *)

\* SIGINT or SIGTERM: the handler runs on the main thread, between two steps.
SigInt ==
    /\ mpc # "exited" /\ g_running
    /\ g_running' = FALSE
    /\ UNCHANGED <<lock, shared, monitors, collector, mpc, op, refresh_interval,
                   drawn_generation, needs_redraw, frame, budget>>

\* The clock only matters up to the longest interval.
Tick ==
    /\ ticks > 0 /\ elapsed < MaxInterval
    /\ ticks' = ticks - 1 /\ elapsed' = elapsed + 1
    /\ UNCHANGED <<lock, shared, monitors, cpc, armed, main, keys>>

Exited == mpc = "exited" /\ UNCHANGED vars

Next == CollectorStep \/ MainStep \/ UserStep \/ SpuriousWakeup \/ SigInt \/ Tick \/ Exited

Spec == Init /\ [][Next]_vars

\* Both threads keep running; the lock is never denied for ever, since either
\* thread spends most of its time asleep without it; and a wait whose deadline
\* has passed times out in the end, however often it wakes up for nothing.
\* Nothing is promised of the user, of signals or of the clock.
Fairness ==
    /\ WF_vars(CollectorStep) /\ SF_vars(CollectorLocks) /\ SF_vars(Expire)
    /\ WF_vars(MainStep) /\ SF_vars(MainLocks)

FairSpec == Spec /\ Fairness

----------------------------------------------------------------------------
(* Properties.                                                             *)

Sample  == Nat \cup {Partial}
Frame   == [items : Sample, count : Sample, sys : Sample]
CpcSet  == {"none", "start", "acquire", "test", "waiting", "woken", "expired", "leave", "begin",
            "sweep", "measure", "swept", "update", "swap", "resize", "bump", "done"}
MpcSet  == {"startup", "head", "input", "lock_op", "op", "prompt", "lock_draw", "check", "draw",
            "stop", "lock_stop", "halt", "join", "cleanup", "exited"}

(* The type of every variable; the interval stays within its limits.       *)
TypeOK ==
    /\ lock \in {"none", "main", "collector"}
    /\ interval_ms \in MinInterval .. MaxInterval
    /\ refresh_requested \in BOOLEAN /\ stopping \in BOOLEAN
    /\ generation \in Nat /\ running \in BOOLEAN
    /\ processes \in Sample /\ count \in Sample /\ incoming \in Sample
    /\ sys \in Sample /\ last_scan_ms \in Sample /\ freed \in BOOLEAN
    /\ cpc \in CpcSet /\ elapsed \in Nat /\ armed \in MinInterval .. MaxInterval
    /\ mpc \in MpcSet /\ op \in {"none", "refresh", "interval", "find"}
    /\ g_running \in BOOLEAN /\ refresh_interval \in MinInterval .. MaxInterval
    /\ drawn_generation \in Nat /\ needs_redraw \in BOOLEAN /\ frame \in Frame
    /\ ticks \in Nat /\ keys \in Nat

\* What a thread is about to read and write when it stands at a given place.
CollectorReads ==
    CASE cpc = "test"   -> {"stopping", "refresh_requested", "interval_ms"}
      [] cpc = "leave"  -> {"stopping"}
      [] cpc = "sweep"  -> {"processes", "count"}
      [] cpc = "bump"   -> {"generation"}
      [] cpc \in {"swap", "resize"} -> {"processes", "count", "incoming"}
      [] OTHER          -> {}

CollectorWrites ==
    CASE cpc = "leave"   -> IF stopping THEN {} ELSE {"refresh_requested"}
      [] cpc \in {"begin", "sweep"} -> {"incoming"}
      [] cpc = "measure" -> {"last_scan_ms"}
      [] cpc = "update"  -> {"sys"}
      [] cpc = "swap"    -> {"processes", "incoming"}
      [] cpc = "resize"  -> {"count"}
      [] cpc = "bump"    -> {"generation"}
      [] OTHER           -> {}

MainReads ==
    CASE mpc = "op" /\ op = "find" -> {"processes", "count"}
      [] mpc = "check" -> {"generation"}
      [] mpc = "draw" /\ needs_redraw -> {"processes", "count", "sys", "last_scan_ms"}
      [] OTHER -> {}

MainWrites ==
    CASE mpc = "op" /\ op = "refresh"  -> {"refresh_requested"}
      [] mpc = "op" /\ op = "interval" -> {"interval_ms"}
      [] mpc = "halt"    -> {"stopping"}
      [] mpc = "cleanup" -> {"processes", "count", "incoming", "sys"}
      [] OTHER -> {}

\* The data on which the two threads can collide at this moment.
DataRaces ==
    (MainReads \cap CollectorWrites) \cup (MainWrites \cap (CollectorReads \cup CollectorWrites))

(* Apart from last_scan_ms, no datum is written by one thread while the    *)
(* other may touch it: the rule collector.h states for everything below    *)
(* the lock, and for the buffers that are freed at the end.                *)
RaceFree == DataRaces \subseteq {"last_scan_ms"}

(* "Every such read or write happens with the lock held" (collector.h):    *)
(* without the exception above this is not so.                             *)
EveryAccessLocked == DataRaces = {}

(* What is on the screen comes from one sample: items, count and system    *)
(* figures together, never "a count from the new sample and a pointer from *)
(* the old one" (collector.c).                                             *)
FrameWhole == frame.count = frame.items /\ frame.sys = frame.items

(* When main() returns to the head of its loop, the screen shows exactly   *)
(* the sample whose generation it remembers as drawn: nothing that was     *)
(* published is marked as drawn without being drawn.                       *)
ScreenIsDrawnGeneration ==
    mpc \in {"input", "lock_op", "op", "prompt"} /\ frame # Blank => frame = Whole(drawn_generation)

(* No request is slept through: while the collector sleeps neither a       *)
(* refresh nor a stop is pending, and its deadline was made from the       *)
(* interval now in force: a press of + or - "takes effect at once rather   *)
(* than after the old interval runs out" (collector.c), whatever the       *)
(* threads were doing when it came.                                        *)
NoLostWakeup ==
    cpc = "waiting" => ~stopping /\ ~refresh_requested /\ armed = interval_ms

(* The monitors and the mutex are destroyed only when no thread is left to *)
(* use them ("join the collector before freeing", main.c).                 *)
NoUseAfterFree == freed => cpc \in {"none", "done"}

(* A sweep begins only when it is due.  The deadline is counted from the   *)
(* start of the last sweep, so an idle collector that is not asked never   *)
(* sweeps before the interval has passed, spurious wakeups or not; and     *)
(* after km_collector_stop() has set the flag no further sweep begins, so  *)
(* the join waits "for at most one sweep in progress" (collector.c).       *)
SweepsWhenDue ==
    [][cpc # "begin" /\ cpc' = "begin"
       => /\ ~stopping
          /\ refresh_requested \/ elapsed >= armed]_vars

(* The inductive invariant behind the safety properties, in five parts.    *)

\* The lock is held exactly by the thread that stands in a critical section.
LockInv ==
    /\ lock = "collector" <=> cpc \in {"test", "leave", "update", "swap", "resize", "bump"}
    /\ lock = "main" <=> mpc \in {"op", "check", "draw", "halt"}

\* When the collector thread exists, and when it has ended.
ThreadInv ==
    /\ mpc = "startup" => cpc = "none"
    /\ mpc \in {"cleanup", "exited"} => cpc \in {"none", "done"}
    /\ running <=> mpc \notin {"startup", "cleanup", "exited"}
    /\ freed => mpc = "exited"

\* How far publication has got: outside it, all parts are of one sample.
DataInv ==
    /\ cpc \notin {"swap", "resize", "bump"}
          => processes = generation /\ count = generation /\ sys = generation
    /\ cpc = "swap"   => processes = generation /\ count = generation /\ sys = generation + 1
    /\ cpc = "resize" => processes = generation + 1 /\ count = generation /\ sys = generation + 1
    /\ cpc = "bump"   => processes = generation + 1 /\ count = generation + 1
                         /\ sys = generation + 1
    /\ cpc \in {"measure", "swept", "update", "swap"} => incoming = generation + 1

\* What the frame shows, and what the pending draw will make of it.
ScreenInv ==
    /\ mpc # "draw" /\ frame # Blank => frame = Whole(drawn_generation)
    /\ mpc = "draw" => drawn_generation = generation
    /\ mpc = "draw" /\ ~needs_redraw /\ frame # Blank => frame = Whole(drawn_generation)

\* What a sleeping or waking collector may rely on.
WaitInv ==
    /\ cpc = "waiting" => armed = interval_ms /\ ~stopping /\ ~refresh_requested
    /\ cpc = "expired" => elapsed >= armed
    /\ cpc = "leave"   => stopping \/ refresh_requested \/ elapsed >= armed

Inv == LockInv /\ ThreadInv /\ DataInv /\ ScreenInv /\ WaitInv

Samples == 0 .. MaxTicks + MaxKeys

(* Every refresh is answered by a sweep that starts after the key: if one  *)
(* was already under way, by the one after it.  Once the longest interval  *)
(* has passed, a sleeping collector sweeps, with whatever interval the     *)
(* user has set meanwhile.                                                 *)
SweepsInTime ==
    /\ \A g \in Samples :
          /\ (refresh_requested /\ generation = g) ~> (generation > g \/ stopping)
          /\ (refresh_requested /\ generation = g /\ cpc \in {"sweep", "measure", "swept"})
                ~> (generation > g + 1 \/ stopping)
    /\ (cpc = "waiting" /\ elapsed >= MaxInterval) ~> (cpc \in {"begin", "done"})

(* The first pass of SIGINT, SIGTERM or q through the loop ends the        *)
(* program: the threads never wait on each other at shutdown.              *)
QuitExits == ~g_running ~> (mpc = "exited")

\* The user answers every question.
Answered == []<>(mpc # "prompt")

(* With a user who answers, the program ends whatever ended it.            *)
QuitExitsIfAnswered == Answered => QuitExits

\* The abstract specification: a sample is published when its generation is.
Session == IF mpc = "startup" THEN "starting"
           ELSE IF ~g_running \/ mpc \in {"cleanup", "exited"} THEN "closed" ELSE "open"

Feed == INSTANCE SampleFeed WITH latest <- generation, shown <- frame, session <- Session

(* The two threads implement the feed: samples are published in order, the *)
(* screen goes from one whole sample to the latest one, and with a user    *)
(* who answers it gets there.                                              *)
RefinesFeed == Feed!Safe /\ (Answered => Feed!Progress)
=============================================================================
