# Kernel Monitor in TLA+

Kernel Monitor is an ncurses program in C that shows the processes of a Linux
machine and sends them signals. This directory holds its specifications: TLA+
modules translated from the source, the TLC configurations that check them on
small instances, and proofs that TLAPS checks for all instances. `PROJECT.json`
says for every definition which lines of the source it models, and for every
property which bug in that code would break it. Paths below are relative to
the repository, so `src/main.c` is the main program and `demo/threadsync.c` one
of the demonstrations.

    tlc -config Collector.cfg MCCollector   # one run
    tlapm CollectorProofs.tla                 # one set of proofs

## 1. Inventory

| Component | State | Operations | Hard behaviour |
|---|---|---|---|
| Collector thread, `src/collector` | lock, condition, interval, request and stop flags, generation | start, sweep and publish, set interval, request refresh, stop | two threads, a timed wait with spurious wakeups, shutdown |
| Main loop, `src/main.c` | `g_running`, interval, drawn generation, redraw flag | keys, questions, frames, SIGINT, cleanup | a person who may not answer, a signal handler |
| Process monitor, `src/process` | two buffers of entries with their capacities, 100 events, time of the last sample | collect, publish, find, tree build | /proc changes during the sweep, PIDs are used again, reads and allocations fail |
| Proc reader, `src/proc` | a list of PIDs | list, read one file | order of `readdir`, processes that vanish |
| System monitor, `src/system` | previous counters, percentages, memory and swap | update, part by part | unsigned differences, failed reads |
| User interface, `src/ui` | view, selection, scroll offset, displayed PIDs, status, size | draw, select, page, change view, confirm | the list changes between frames, resizing, recursion with a bounded buffer |
| Process control, `src/signals` | none | kill with a result | the target may be gone |
| Parser, `src/utils` | none | lines of /proc to numbers and names, monotonic clock | names that look like fields |
| `demo/threadsync.c` | counters, a ring, a semaphore, locks, barriers | six parts, each with its own threads | lost updates, lost wakeups, compare and swap, timed locks, circular wait |
| `demo/pipeline.c`, `fifo.c`, `jobctl.c` | descriptors, children, a process group | fork, connect, group, signal, wait | ends left open, the order of opening, signals before a group exists, failed forks |
| `demo/busy.c`, `zombie.c`, `orphan.c`, `vmem.c`, `fileio.c` | none to speak of | one topic each | none beyond their topics |

How they interact. `main()` takes one sample, starts the collector thread and
then loops: wait 120 ms for a key, handle it, take the lock, draw if something
changed, release the lock. The collector sleeps on a condition variable until
its interval is over, a refresh is requested or it is to stop; it sweeps /proc
without the lock into a private buffer, takes the lock, updates the system
figures, swaps the buffers and bumps the generation. The user interface draws
from the published buffer under the lock, and the selection it keeps from frame
to frame is a PID found again in the next sample. A question ("Send SIGTERM
to PID ...?") is asked without the lock while samples go on being published.

What makes each component correct:

- *Collector and main loop*: a frame is one sample and the latest one; nothing
  is slept through or begun too early; quitting ends the program; memory is
  freed last; the lock protects everything shared.
- *Process monitor*: a sample is sorted, misses nobody who stayed and fits its
  buffer; the events agree with the samples; CPU% is bounded by the time there
  was.
- *Tree*: the relation of the PPIDs and nothing else, each process once, inside
  the window and the prefix buffer.
- *User interface*: the highlight follows its process, and only the selected
  process is signalled, after a yes; wherever the list has a row on the screen,
  that is the highlighted one.
- *System monitor*: a percentage is the share of the time between the last two
  readings that succeeded, or of the memory in the last one, and it is known
  exactly when a difference wraps and the share leaves 0 to 100%.
- *Parser*: a process cannot be hidden, or shown as another's child, by a name.
- *threadsync.c*: what the parts report is true: no update is lost where the
  program says so, nothing is lost or reordered in the ring, no wakeup is lost,
  opposite orders of locking end in two timeouts and equal orders in none; every
  thread stops and every lock is free.
- *pipeline.c, fifo.c, jobctl.c*: the stream arrives and ends, a signal to the
  job reaches all of it and only it, every child is reaped, nobody stays behind
  (but for one case of `fifo.c`, see section 6).

The hazards behind these properties are listed, each at its line, under
`hazards` in `PROJECT.json`.

## 2. Modules

| Module | Models | Role |
|---|---|---|
| `SampleFeed` | the promise of the two threads | abstract specification |
| `Collector` | `collector.c`, the loop of `main.c`, the buffers between them | detailed specification |
| `CollectorProofs` | | theorems about `Collector` |
| `FindIn` | `find_in()` | algorithm with size_t arithmetic |
| `FindInProofs` | | theorems about `FindIn` |
| `ProcessMonitor` | `collect()` and `publish()` with a changing process table | specification |
| `ProcessMonitorProofs` | | theorems about `ProcessMonitor` |
| `ProcessTree` | `km_process_tree_build()` and the drawing of the tree | specification |
| `ProcessTreeProofs` | | theorems about `ProcessTree` |
| `Ui` | selection, views, keys, questions, the process list | specification |
| `UiProofs` | | theorems about `Ui` |
| `SystemMonitor` | CPU usage, memory and swap of the system | specification |
| `SystemMonitorProofs` | | theorems about `SystemMonitor` |
| `Parser` | the line of /proc/&lt;pid&gt;/stat and its parser | operators, used by `ProcessTree` |
| `ThreadSync` | `demo/threadsync.c` | specification |
| `BoundedBuffer` | its part 3 | specification, instantiated by `ThreadSync` |
| `ThreadSyncProofs` | | theorems about `ThreadSync` and `BoundedBuffer` |
| `Unix` | processes, groups, signals, pipes and FIFOs, as the demonstrations use them | the kernel's part |
| `Pipeline`, `Fifo`, `JobControl` | `demo/pipeline.c`, `demo/fifo.c`, `demo/jobctl.c` | the programs' actions on `Unix` |
| `Ipc` | | the three programs composed, with signals and failures |
| `IpcProofs` | | theorems about `Ipc` |
| `MC...` | | instances for TLC, with the reasons for their bounds |
| `MCTree`, `MCScreen` | | two instances checked in one run each: the tree with the lookups it makes, the views with the header above them |

### Collector and SampleFeed

`lock`, `interval_ms`, `refresh_requested`, `stopping`, `generation` and
`running` are the fields of `km_collector`. `processes`, `count`, `incoming`,
`sys` and `last_scan_ms` stand for the data of the monitors; each holds the
number of the sample it comes from, because the properties only ask whether
parts of different samples meet. `cpc` is the place of the collector thread in
`collector_main()`, `mpc` that of the main thread. A step is what happens
between two points where the other thread can interfere: getting the lock,
going to sleep, each assignment of the swap, each part of the sweep. A timed
wait is `Wait`, then `Expire` (the deadline is over), a signal or
`SpuriousWakeup`, then `CollectorLocks`. `elapsed` is the time since `last`,
`armed` the interval from which the current deadline was made. SIGINT is
delivered to the main thread, which is the only one that does not block it, and
sets `g_running` between any two of its steps.

`SampleFeed` says what all this is for, without threads: samples are published
one after the other, the screen shows one whole sample, and as long as the
session is open the latest sample gets to the screen. `Collector` implements it
with `latest <- generation`, `shown <- frame`, `session <- Session`.

### FindIn

One action for each outcome of a comparison in the loop of `find_in()`; `Plus`
wraps at `SizeLimit`, the size of size_t. The other modules use "the entry with
this PID", which is what the theorems about `FindIn` allow for sorted arrays;
that the arrays are sorted is `SamplesSorted` of `ProcessMonitor`.

### ProcessMonitor

The kernel forks, exits and runs processes between any two steps of a sweep.
`alive` numbers processes by birth, so two processes that had the same PID can
be told apart although the program cannot. A sweep is `ListPids`, `Stamp`, one
`Read` or `Skip` for each PID, `EndSweep` or `GiveUp`; `Publish` is
`detect_changes()` with `push_event()` and the swap. Faults are a listing that
lacks processes, a process that cannot be read, and an allocation that fails.
The listing of /proc is one step: processes born during it may or may not be
in it, which comes to the same as being born after it. `readdir()` returns them
in any order; `Sorted` is what `qsort()` leaves of that. `room` and
`incoming_room` are what `malloc` really gave, which the program does not know.

### ProcessTree

The sample comes from a sweep over a small kernel with forks, exits, children
given to init and PIDs used again, so that every sample is one that a sweep can
return, and no other. What the kernel does after the sweep is invisible and
left out. A step of a pass of `km_process_tree_build()` is one turn of its loop,
with the index `at`; the passes count the children, turn the counts into offsets,
put the children into their slices and, last, add processes without a parent
that are not among the roots yet. The recursion of `draw_tree_recursive()` is a stack of frames. A prefix
is a sequence of bars and blanks, and `Bytes` knows that a bar takes five bytes
and blanks take three.

### Ui

A sample is a function from PIDs to CPU%, and a new one can appear between any
two steps, also while a question is open. One action for each group of keys,
for the look at the sample in `signal_selected()`, for the answer and for the
frame. A frame is one step because it is drawn under the lock. `screen` is what
the user sees: the rows of the list and the highlighted one.

### SystemMonitor and Parser

The counters of /proc/stat, with the five kinds of time in use added up, grow by
any amount between two reads, except that iowait may also fall, as the kernel
documents it. /proc/meminfo reports any figures, whether or not the parts fit
their totals. `Minus` is unsigned subtraction. The readings of
/proc/stat and /proc/meminfo are steps of their own, so that either can fail; a
read that fails changes nothing, as each early return of the code does. A kernel
without swap does not report its fields (`Layouts`); a field that is not found
counts as 0. What the properties compare with is remembered beside the program's
variables: the counters at the last two reads that succeeded (`last`, `before`)
and whether the last report of memory added up (`adds_up`).

`Parser` takes a line as a sequence of words, so that a name can contain
parentheses, blanks and numbers that look like the fields after it.
`ProcessTree` reads its processes through it.

### ThreadSync and BoundedBuffer

`main()` tours the parts (`step`), creates the threads of a part one by one,
which run meanwhile, and joins them. The threads of all parts share one
`pc[t]`; each action is one access to shared memory, one call that can block, or
one critical section. `++` on a plain counter is a load and a store.
`compare_exchange_weak` can fail for no reason. A timed lock gives up only while
somebody else holds the lock, at any time: a second is long, but no longer than
a thread may be held up. `CreateFails` is `start_all()`; the threads that are
created outside of it are taken to be created.

`BoundedBuffer` is the ring with its indices, the mutex, and a critical section
from the test of the condition to the unlock or the wait as one step. A signal
wakes one waiter of its condition, whichever; a waiter has to get the lock again
and looks again. Spurious wakeups come on top.

### Unix, Pipeline, Fifo, JobControl and Ipc

`Unix` has what the programs ask of the kernel: `Fork` copies the descriptors
and the group, `Wait` reaps a child that has ended, `Write` blocks on a full
pipe and ends the writer on one without a reader, `Read` blocks on an empty
pipe as long as somebody can write to it, `SetPgid` fails when nobody of the
group is left, an orphaned group with stopped members is sent SIGHUP and
SIGCONT. The initial state of `Ipc` chooses the program. `Step(p)` is a step of process `p`
that will be taken if nothing goes wrong; `Fault` is a call that fails or
Ctrl+C, which may come at any step and never has to. On a FIFO these calls are
`mkfifo()` and `stat()`, or a file there that is no FIFO (`NoFifo`), `open()`
on either side for any reason (`OpenFails`) and `fdopen()` (`FdopenFails`).
Ctrl+C reaches the foreground group of the terminal, which is the program's own:
no demonstration gives the terminal to the group it makes. A message is the pair of its writer
and its number.

## 3. Runs

Runs that are to pass:

| Run | Configuration | Question | Distinct states |
|---|---|---|---|
| `collector` | `Collector` | lock, frames, wait, requests and shutdown in every interleaving; `SampleFeed` implemented | 29 thousand |
| `monitor` | `Monitor` | sorting, memory, completeness, events, CPU%, with failures or the passing of time; every sweep ends | 1.2 million |
| `tree` | `Tree` | entries, the tree and its drawing; the search on all sorted arrays | 380 thousand |
| `screen` | `Screen` | selection, scrolling, questions and signals; the percentages of the header | 544 thousand |
| `thread_sync` | `ThreadSync` | reports, order, wakeups, lock order, end | 228 thousand |
| `ipc` | `Ipc` | streams, groups, reaping, end, with failures and Ctrl+C | 31 thousand |

The six runs that show a disagreement are in section 6. `Tree` and `Screen` check
two instances each (`MCTree`, `MCScreen`): a behaviour is one of the first or one
of the second, and the other's variables stay as they were.

Bounds, and why they are enough:

- *Collector*: two intervals reach both clamps and a change in either direction;
  two keys put one key into every phase of a sweep and of the wait, and a second
  one (a further request, another interval) after it; with two ticks the timeout
  is over for either interval, beside a request or a stop. SIGINT and spurious
  wakeups are not bounded. `MaxKeys` and `MaxTicks` bound the user and the
  clock, nothing else; `elapsed` stops at the longest interval, beyond which
  the code makes no difference. The proofs of section 5 hold without these
  bounds.
- *FindIn*: all strictly increasing arrays of up to six PIDs out of eight, with
  `SizeLimit` 7, so that adding two indices would wrap.
- *ProcessMonitor*: a behaviour has one of two budgets (`Budgets`), because both
  at once are too many states. With three PIDs, one fork and one failure, of any
  kind and at any place, a PID changes hands inside a sweep or between two, and
  any process exits at any step. With two PIDs, one fork and two ticks the gap
  between two sweeps and the length of a sweep can each be one or more. A first
  capacity of one makes the buffers grow apart; a window of three events
  overflows with the second sample. `MonitorCpu100` has four ticks.
- *ProcessTree*: four PIDs and four forks yield circles of PPIDs, siblings on
  two levels and several roots. Heights 12, 14 and 17 give no row, two rows
  and enough rows; a prefix buffer of six bytes has room for one bar or one
  blank only, so that on the third level it is full. Three names look like the
  end of a name and what follows it; `NameSize` 3 cuts one of them.
- *Ui*: three processes with two values of CPU% can overtake each other, leave
  and return; on 11 lines the list has two rows, on 8 none, and no room for a
  question. `UiBlind` has 9 lines, without a row but with room for a question.
- *SystemMonitor*: words of four bits, totals of CPU time up to four, with
  iowait that falls, figures of memory up to one, with and without swap, adding
  up or not; the theorems have words and figures of any size.
- *ThreadSync*: three threads with two increments end at every total from two
  to six; two slots for four items and three markers wrap the ring; three
  consumers are more than the slots, one spurious wakeup comes beside any
  signal; three visitors compete for two permits, and they and three readers for
  the maximum, so that a compare and swap fails twice.
- *Ipc*: a pipe for two of three messages makes writers wait; three workers are
  a leader, a second and one that joins a group of two; two calls fail, fork(),
  pipe(), exec() or one on the FIFO, and two Ctrl+C come at any steps.

Deadlock is checked everywhere except in `Tree`, whose model ends with the
frame ("done") or with a failed allocation ("failed"). `Collector`, `ThreadSync`
and `Ipc` end in an explicit final step, as does a search of `FindIn`. In `Ipc`
it includes processes that wait for somebody to open the other end of a FIFO:
`ProgramsEnd` allows that to programs that are run in several terminals, and to
`fifo.c` in one terminal only after an `open()` that failed (`LeftAlone`). `Ui`,
`ProcessMonitor` and `SystemMonitor` never end.

Fairness. A thread that can run for good does run: `WF_vars(CollectorStep)`,
`WF_vars(MainStep)`, `WF_vars(Collect \/ Publish)`, `WF_vars(Build \/ Draw)`,
`WF_vars(Create \/ Join)` for the main thread of `ThreadSync` and
`WF_vars(Run(t))` for each of its threads, `WF_vars(Step(p))` for each process
of `Ipc`. A mutex promises no order, but both threads of the monitor spend
nearly all their time asleep without the lock, so a thread that waits for it
meets it free again and again and gets it in the end: `SF_vars(CollectorLocks)`
and `SF_vars(MainLocks)`. A timed wait whose deadline is over can be interrupted
by a spurious wakeup, but not every time: `SF_vars(Expire)`. `ThreadSync` needs
no strong fairness since the work of every part is finite. Nothing is assumed of
the clock, of signals, of failures or of the user. The two properties that need
a user who answers questions say so themselves: `Answered => ...` in
`QuitExitsIfAnswered` and in the progress part of `RefinesFeed`. All other
progress holds however long a question stays open.

## 4. Properties worth knowing

- `RefinesFeed`: the two threads do what one would do, only sooner: the screen
  goes from one whole sample to the latest one.
- `NoLostWakeup`: requests, stops and changes of the interval reach a sleeping,
  waking or sweeping collector.
- `SweepsWhenDue`, `SweepsInTime`: a sweep begins only when the interval in
  force is over or somebody asked for it, and then it does begin: the recomputed
  deadline neither drifts nor jumps, and a request that comes during a sweep is
  served by a sweep that begins after it, also while a question is open.
- `RaceFree`: the lock discipline, computed from what each thread reads and
  writes at its place. `last_scan_ms` is the exception, see section 6.
- `EventsTellMembership`: the log and the sample agree, even when the window
  has overflowed within one publication: the last event of a PID says whether
  the sample has it, and nobody is in the sample without an event unless the
  window is full.
- `NobodyMissed`, `EventsAreReal`: what a sample and its events say about the
  real process table, as long as nothing fails. A process born during a sweep,
  which that sweep may not see, may be reported as created by the next one.
- `CpuBounded`: the bound that holds, next to the documented one that does not.
  It also bounds what a PID that was used again is charged with; the code leaves
  it at 0 only if the counters are lower than those of the former process.
- `HighlightIsSelected`, `SelectionFollows`, `SignalsSelected`, `OnlyConfirmed`:
  a signal goes to the process that was selected in the list drawn last, however
  the list has changed since. As long as the screen has a row of the list, that
  is the highlighted process; without one, nobody is highlighted and the
  selected process is signalled all the same, which `SignalsAreShown` of
  section 6 shows.
- `EntriesAreTrue`: names do not disturb the reading of the fields after them.
- `TreeIsRight`, `HierarchyShown`, `RootedAreDrawn`: what is drawn can be read
  back as the relation of the PPIDs, from the order, depth and bars of the rows.
- `NothingOverrun` (of the tree), `NoOverrun` (of the samples): no array, buffer
  or window is overrun, with sizes that were computed in an earlier pass or
  sweep.
- `UsageIsShare`: percentages are those of the last two readings of the CPU and
  of the last one of memory that succeeded, whichever reads fail between them.
- `UsageInRange`: when a percentage exceeds 100%, or an amount is the remnant of
  a difference that wrapped. It is an equivalence: exactly when the idle time
  fell while all time grew, or when the last report of memory did not add up;
  the next sound reading puts it right.
- `InOrder`, `NobodyForgotten`: the counting arguments behind a bounded buffer
  with `pthread_cond_signal()`.
- `ReportsAreTrue`: among other things, the plain counter can lose all but two
  increments and never counts too much, and the maximum of threads inside is
  the real one although several threads raise it.
- `OrderDecides`: with opposite orders *both* transfers give up, which is what
  the second barrier is for: without it one could get through by the other's
  release.
- `StreamArrives`, `ProgramsEnd`: the end of the file comes, and only after
  everything; a single copy of a pipe end that stays open would prevent it. The
  one exception to `ProgramsEnd` is `LeftAlone`, in section 6.
- `GroupHoldsAll`: setting the group in both parent and child makes the order
  of the two irrelevant; every signal finds the whole job.

## 5. Proofs

Every safety property that a run checks, invariant or action property, is proved
for every value of the constants, from the assumptions that the modules name
(`IntervalAssumption`, `BoundAssumption`, `SizeAssumption`, `PidAssumption`,
`MonitorAssumption`, `TreeAssumption`, `UiAssumption`, `WordAssumption`,
`TourAssumption`, `UnixAssumption`); TLC evaluates these in every run. None of
the properties is inductive as it stands, so each module of proofs begins with
the invariant that is.

`CollectorProofs`. `TypeCorrect` first. That a frame is whole depends on who
holds the lock and how far the swap has got. The invariant `Inv` has five parts:
`LockInv` (the lock is held exactly in the critical sections), `ThreadInv` (when
the thread exists), `DataInv` (which fields already belong to the next sample,
for each place in the critical section), `ScreenInv` (what is on the screen and
what a pending draw will make of it) and `WaitInv` (what a sleeper may rely on).
`Invariance` proves it, one step for each action. From it follow `RaceFreedom`,
`WholeFrames`, `NothingSleptThrough`, `FreedLast`, `FramesAreWhole`, the action
property `TimerIsPatient`, and `ImplementsFeed`: every step is a step of
`SampleFeed` or leaves its variables unchanged.

`FindInProofs`. The invariant says that the PID, if the array has it, is
between `low` and `high`, and that these stay within the array. `Middle` shows
that `low + (high - low) / 2` does not wrap; then `Correctness`, and `Halving`,
which bounds the number of steps by the logarithm of the count.

`ProcessMonitorProofs`. `Inv` has, besides `Types`, the parts `Buffers` (the
program knows the real room of each buffer, also after they change places),
`Order` (both samples are sorted, and what has been read is before what is still
to be read), `Clock` (since an entry was read its process has run for no longer
than time has passed, which is what bounds the difference of the next sweep),
`Births` (processes are numbered by birth, so one that was listed and is gone
does not return under its PID) and `Accounted` (whoever was listed has gone, has
been read or is still to be read). From it `SamplesAreSorted`, `BuffersHold`,
`ChargesAreBounded` and the action property `EveryoneIsFound`. Sorting is stated
as its result, the list in order, not as an algorithm. The events of one
publication are those of `OnlyIn(new, old)` and `OnlyIn(old, new)`, in this
order. Since a sample has a PID at most once (`Order`), a publication logs at
most one event of each (`OnlyInOne`), the right one (`Recorded`), and dropping
the oldest entries of the log does not change which is the last. A PID that
stays in the sample keeps its event, and one that is new gets one, unless the
window was full and is full again; so `LastEventTells`. `Told` adds to `Inv` that without failures every process which
runs and was born before the listing of the published sample is in that sample,
and so is whoever is read in the present sweep and was born by then. `LogIsTrue`
follows from it: with `Accounted`, a PID that is missing from the new sample
belongs to nobody who lived on, and one that is missing from the old sample to
somebody born later.

`ProcessTreeProofs`, along the stages of the program. `SweepInv`: the kernel's
parents are a PID or none and the sample is sorted; `EntriesTrue` follows through
the parser (the last closing parenthesis of a line ends the name, whatever the
name contains). `BuildInv` is a loop invariant for each pass, about the first
`at - 1` processes: what has been counted, that the slices are adjacent and end
within the array, how far each slice has been filled. That a slice never
overflows is a counting argument: it is as long as the number of children, and
it has been filled with those among the first `at - 1`. `TreeRight` follows.
`WindowInv` bounds rows, levels and the bytes of the prefix, and with it
`NothingIsOverrun`. `DrawInv` says who is on the screen and who is still ahead of
the loops on the stack, so that nobody is drawn twice even if PPIDs go in a
circle; `RowsInv` and `PrefixRight` relate the prefix to the stack and the stack
to the rows above, which gives `HierarchyIsShown`. `CompleteInv` is its
counterpart, who has been drawn already, and at the end it gives `RootedDrawn`.
`DrawingAdvances` is what `DrawingEnds` rests on, without the fairness: `Work`
bounds the steps that are left, every step of building and drawing decreases it,
and it begins at 10 (n + 1) for n processes. While the tree is drawn it counts
the roots that are ahead, the open calls, and `Left`, the processes that some
loop over children can still come to. A call adds its own loop to the stack but
nobody to `Left`, because its process was not drawn before and so its children
were in `Left` already; this is where `DrawInv` is needed, and why PPIDs in a
circle do not make the recursion endless.

`UiProofs`. The properties `IndexInRange`, `HighlightIsSelected` and
`OnlyConfirmed` are inductive together with `Types`, `Settled` (between two
frames the screen shows the present view) and `Question` (an open question is
about the process selected in the list). `Follows`, `Clamps`, `Scrolls` and
`Frame` follow one frame: the selected PID is found in the new list or the index
is clamped to it, and the offset moves until the row is inside the window. The
action properties `HighlightFollows` and `SelectedIsSignalled` follow; the
latter has the highlight only for frames with rows, since the other half
(`SignalsAreShown`) is false. The
ranking by CPU% is stated as "the list that is in this order".

`SystemMonitorProofs` assumes nothing of the kernel but that iowait is the only
counter that falls. `Behind` says that the stored counters are those of the last
read that succeeded and that the time in use has not fallen since, `Remembered`
what the stored figures are figures of. The key is that `total_diff - idle_diff`,
computed modulo the word, is always the growth of the time in use (`Remainder`,
`Computed`), whether or not `idle_diff` itself has wrapped: it is a sound
numerator, and exceeds the denominator exactly when the idle time fell while all
time grew. With the corresponding facts about the differences of memory
(`MemoryShare`, `SwapsShare`) this gives `UsageIsInRange` and `UsageIsThatShare`.

`ThreadSyncProofs`. Four invariants, each about some parts of the tour.

- `Inv`, the two transfers between their barriers: with opposite orders both are
  taking their first lock, or each holds its first lock while both try the
  second, or both are releasing (`Opposite`). The barriers are passed by both at
  once, so no other combination arises, and in the middle phase either second
  lock is the other's first, so both time out. With the same order the first
  lock protects the second (`Same`). `Elsewhere` is the frame: no other part
  touches the two locks. `Reports` carries the outcomes to the end of the tour,
  where they are `OrderDecides` (`LockOrderDecides`).
- `BufferInv`: from the head on, the ring holds the items that were put and not
  yet taken (`RingHolds`), hence `BufferInOrder`. For the wakeups `SleepsWell`:
  the producer sleeps only on a full ring, and either all consumers that are
  left are awake, or at least as many as there are items in the ring. A signal
  wakes one consumer for one item, so both sides of this grow together; hence
  `SignalsSuffice`.
- `CountInv`: the number of increments done is the size of a set of pairs
  (`Sum`), one pair for each thread and round. The locked counter is `Sum`, or
  one ahead between store and unlock; the atomic one is `Sum`; the plain one is
  at most `Sum`, and at least two in the end, since a thread that stores after
  its first round has loaded at least one.
- `RoomInv`: permits and threads inside add up, the real maximum has been stored
  or somebody who saw it is about to store it (`MostRight`), and no reader is
  inside while the writer holds the lock.

`ToldTheTruth` puts the last two and the memory of part 1 together.

`IpcProofs`. `FamilyInv` says which children each program has forked and waited
for at each of its labels (`Forked`, `Waited`), that exactly these exist, and
whom it has put into the group (`Groups`); signals, failed calls and orphans
leave this alone as long as the program itself runs. From it `AllAreReaped` and
`GroupsHold`. `StreamInv` is about the pipes. `Flow`, for every program: what has
been read of a writer is `1 .. n`, what is left in the pipes is `n + 1 .. sent`,
in order, and a writer uses one pipe all its life. For the pipeline `LeftInv`:
the left command keeps its copy of the write end until it ends, so the end of
the file means that it has ended. For the FIFO without an interrupt `Meeting`:
who has opened what when the reader and its writer wait for each other, also
when an `open()` has failed, so that while the reader reads the writer never
finds the pipe broken, and the end of the file means that it has written
everything. From both invariants `StreamsArrive`.

Only model-checked: liveness, which the prover does not reason about. These are
`SweepsInTime`, `QuitExitsIfAnswered` and the progress part of `RefinesFeed`,
`SweepEnds`, `DrawingEnds`, `AllStop` and `ProgramsEnd`. Of `DrawingEnds` only
the step from "some `Build` or `Draw` is possible, and each one decreases `Work`"
to "it ends" is left, which needs `ENABLED` and the fairness.

## 6. Where the code and its documents disagree

Each of these runs checks one property and finds it violated.

| Run | Configuration | Property | What happens |
|---|---|---|---|
| `collector_race` | `CollectorRace` | `EveryAccessLocked` | `last_scan_ms` is written without the lock; `collector.h` says that every access holds it. It is the only such datum (`RaceFree`). |
| `collector_quit_in_dialog` | `CollectorQuit` | `QuitExits` | SIGINT during a question waits for a key: `getch()` of ncurses is not interrupted by handled signals. |
| `monitor_cpu100` | `MonitorCpu100` | `SingleThreadedAtMost100` | A process read early in one sweep and late in the next reads more than 100%. |
| `monitor_lost` | `MonitorLost` | `TerminatedIsGone` | One failed read logs a termination of a process that runs. |
| `ui_blind` | `UiBlind` | `SignalsAreShown` | On a terminal of 9 lines no row fits, and the key `c` signals the selected process although nothing is highlighted; `ui.c:242-243` says that the keys "always signal the process that is highlighted". |
| `system_iowait` | `SystemIowait` | `UsageAtMost100` | `system_monitor.c:104-105` relies on counters that "only ever climb"; iowait falls by more than idle climbs, the difference wraps, and the header shows more than 100%. |

Other places, met while the modules were written, at which a comment or a test
says something else than the code. They follow from a few lines each and have
no run of their own.

- `process_monitor.c:157-158` computes the start time as boot time plus the CPU
  time used, so it moves while the process runs; the comment at 32-33 says that
  boot time anchors a start time "which /proc reports as an offset from boot".
- `process_monitor.c:246-261` logs every process as created with the first
  sample, whose predecessor is empty; the comment at 240-242 says "a PID present
  now but not before was created".
- `ui.c:266-271` moves the scroll offset only as far as the selection demands, so
  a terminal that has grown keeps empty rows under the list;
  `tests/TEST_CASES.md:214-220` expects that the "display adjusts correctly".
- `main.c:80-82` returns without a word when the selected process has left the
  sample; `tests/TEST_CASES.md:169-177` expects "Process does not exist".
- `ui.c:614` offers "Scroll" with the arrows in the tree view, whereas
  `main.c:222-228` moves the selection of the list, which the tree does not draw.
- `process_monitor.c:381-392` makes nobody the root of processes whose PPIDs go in
  a circle, so they are not drawn; 352-354 says that "the whole hierarchy can be
  rebuilt from PPID links alone". `RootedAreDrawn` states what does hold.
- `docs/PROJECT_DOCUMENTATION.md:100` lists "Displaying per-core CPU usage" and
  457 says "Per-core stats follow same pattern"; `system_monitor.c:135-140`
  computes averages since boot, and nothing displays them.
- `fifo.c:123-127, 182-186`, in one terminal: if the reader's `open()` fails, for
  want of descriptors or because another `fifo read` removed the name, main waits
  for its child, and the child waits in its own `open()` for a reader that will
  never come. The other way round, a writer whose `open()` fails leaves main in
  its `open()`. Either waits until Ctrl+C. No comment promises otherwise;
  `ProgramsEnd` names these states (`LeftAlone`) and holds for all others.

## 7. Not modelled

- The per-core averages of `system_monitor.c`, load, uptime and kernel version:
  each is a quotient or copy of one reading, and the averages are read nowhere.
- The other functions of `src/utils/parser.c` (splitting into lines and numbers)
  and buffers that are too short for a file: text without state.
- Fields of an entry that are only shown (memory, priority, terminals), the
  format of headings and bars, colours, the number of events shown.
- A PID that changes hands between the files of one `read_process_info()`; the
  reading of a process is one step.
- `busy.c`, `zombie.c`, `orphan.c`, `vmem.c` and `fileio.c`: straight-line
  programs that show or measure what the kernel does.
- In `threadsync.c`: what is printed and how long threads sleep; a failure to
  create a thread outside of `start_all()`, whose result the program ignores.
- In `pipeline.c`, `fifo.c` and `jobctl.c`: commands are programs that read or
  write until they have done or stop early, whatever they compute; a `write()` of
  `fifo.c` that fails for another reason than a reader that has gone; a stage in
  the background that is stopped because it reads from the terminal; what
  `jobctl.c` reads and prints about terminals and states; a worker's PID used
  again between the last `waitpid()` and `g_group = 0`.
- Scripts, tests and the Makefile.
- Weak memory: a step sees the latest write. The one datum of the monitor that
  is accessed without the lock is reported as such, and its value is used for
  display only; the plain counter of `threadsync.c` is modelled as load and
  store.

## 8. Plan

Done, in this order: `Collector` with `SampleFeed` and proofs, `FindIn` with
proofs, `ProcessMonitor`, `Ui`, `ProcessTree`, `BoundedBuffer`, `SystemMonitor`
with a proof; then `ThreadSync`, the family of `Ipc`, `Parser`, memory and swap,
and the proofs about `Ui`, `ProcessMonitor` and `ThreadSync`; then proofs of all
safety properties that were only checked before, with `ProcessTreeProofs` and
`IpcProofs`.

`ProcessTreeProofs` also has the measure that bounds the drawing.

Next, proofs: such measures for the sweep of `ProcessMonitor`, whose list of PIDs
is fixed when it begins, for the tour (wakeups in vain count, which only a bound
of the model limits) and for the programs of `Ipc`.

Next, modelling: `KernelMonitor`, that is `Collector` and `ProcessMonitor` in one
module. `Collector` has the lookups in the published buffer during a sweep as a
read of shared fields (`CollectorReads`, checked by `RaceFree`), and
`ProcessMonitor` has what is looked up; what the composition would add is that
the buffers which change places in the one are those that the lock protects in
the other.
