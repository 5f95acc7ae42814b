-------------------------- MODULE CollectorProofs --------------------------
(***************************************************************************)
(* Proofs about Collector for all intervals, all bounds on the clock and   *)
(* the keys, and any number of sweeps.                                     *)
(***************************************************************************)
EXTENDS Collector, TLAPS

(* Every reachable state is well typed; the interval the collector uses    *)
(* and the one main() remembers never leave min_interval .. max_interval.  *)
THEOREM TypeCorrect == Spec => []TypeOK
<1>1. Init => TypeOK
  <2> SUFFICES ASSUME Init PROVE TypeOK
    OBVIOUS
  <2>1. /\ refresh_requested \in BOOLEAN /\ stopping \in BOOLEAN /\ running \in BOOLEAN
        /\ freed \in BOOLEAN
    BY Zenon DEF Init
  <2> QED
    BY <2>1, IntervalAssumption, BoundAssumption
    DEF Init, TypeOK, Sample, Frame, Partial, Blank, Whole, CpcSet, MpcSet
<1>2. TypeOK /\ [Next]_vars => TypeOK'
  <2> SUFFICES ASSUME TypeOK, [Next]_vars PROVE TypeOK'
    OBVIOUS
  <2> USE IntervalAssumption
      DEF TypeOK, Sample, Frame, Partial, CpcSet, MpcSet,
          vars, shared, monitors, collector, settings, main, budget
  <2>1. CASE ThreadStart
    BY <2>1 DEF ThreadStart
  <2>2. CASE CollectorLocks
    BY <2>2 DEF CollectorLocks
  <2>3. CASE Wait
    BY <2>3 DEF Wait
  <2>4. CASE Leave
    BY <2>4 DEF Leave
  <2>5. CASE Expire
    BY <2>5 DEF Expire
  <2>6. CASE Finish
    BY <2>6 DEF Finish
  <2>7. CASE Accept
    <3>1. refresh_requested' \in BOOLEAN
      BY <2>7, Zenon DEF Accept
    <3> QED
      BY <2>7, <3>1 DEF Accept
  <2>8. CASE BeginSweep
    BY <2>8 DEF BeginSweep
  <2>9. CASE EndSweep
    BY <2>9 DEF EndSweep
  <2>10. CASE StoreScanTime
    BY <2>10 DEF StoreScanTime
  <2>11. CASE UpdateSystem
    BY <2>11 DEF UpdateSystem
  <2>12. CASE SwapItems
    BY <2>12 DEF SwapItems
  <2>13. CASE SwapCount
    BY <2>13 DEF SwapCount
  <2>14. CASE Bump
    BY <2>14 DEF Bump
  <2>15. CASE Start
    BY <2>15 DEF Start
  <2>16. CASE StartFails
    BY <2>16 DEF StartFails
  <2>17. CASE LoopHead
    BY <2>17 DEF LoopHead
  <2>18. CASE NoKey
    BY <2>18 DEF NoKey
  <2>19. CASE MainLocks
    BY <2>19 DEF MainLocks
  <2>20. CASE RequestRefresh
    BY <2>20 DEF RequestRefresh, Signalled
  <2>21. CASE SetInterval
    BY <2>21 DEF SetInterval, Signalled
  <2>22. CASE FindSelected
    BY <2>22 DEF FindSelected
  <2>23. CASE CheckGeneration
    BY <2>23 DEF CheckGeneration
  <2>24. CASE Draw
    <3>1. needs_redraw' \in BOOLEAN
      BY <2>24, Zenon DEF Draw
    <3> QED
      BY <2>24, <3>1 DEF Draw
  <2>25. CASE Stop
    BY <2>25 DEF Stop
  <2>26. CASE Halt
    BY <2>26 DEF Halt, Signalled
  <2>27. CASE Join
    <3>1. running' \in BOOLEAN
      BY <2>27, Zenon DEF Join
    <3> QED
      BY <2>27, <3>1 DEF Join
  <2>28. CASE Cleanup
    BY <2>28 DEF Cleanup
  <2>29. CASE QuitKey
    <3>1. g_running' \in BOOLEAN
      BY <2>29, Zenon DEF QuitKey, Key
    <3> QED
      BY <2>29, <3>1 DEF QuitKey, Key
  <2>30. CASE LocalKey
    BY <2>30 DEF LocalKey, Key
  <2>31. CASE RefreshKey
    BY <2>31 DEF RefreshKey, Key
  <2>32. CASE SlowerKey
    BY <2>32 DEF SlowerKey, Key
  <2>33. CASE FasterKey
    BY <2>33 DEF FasterKey, Key
  <2>34. CASE SignalKey
    BY <2>34 DEF SignalKey, Key
  <2>35. CASE Answer
    BY <2>35 DEF Answer
  <2>36. CASE SpuriousWakeup
    BY <2>36 DEF SpuriousWakeup
  <2>37. CASE SigInt
    <3>1. g_running' \in BOOLEAN
      BY <2>37, Zenon DEF SigInt
    <3> QED
      BY <2>37, <3>1 DEF SigInt
  <2>38. CASE Tick
    BY <2>38 DEF Tick
  <2>39. CASE Exited
    BY <2>39 DEF Exited
  <2>40. CASE UNCHANGED vars
    BY <2>40
  <2>41. QED
    BY <2>1, <2>2, <2>3, <2>4, <2>5, <2>6, <2>7, <2>8, <2>9, <2>10, <2>11, <2>12, <2>13,
      <2>14, <2>15, <2>16, <2>17, <2>18, <2>19, <2>20, <2>21, <2>22, <2>23, <2>24, <2>25,
      <2>26, <2>27, <2>28, <2>29, <2>30, <2>31, <2>32, <2>33, <2>34, <2>35, <2>36, <2>37,
      <2>38, <2>39, <2>40
     DEF Next, CollectorStep, MainStep, UserStep
<1>3. QED
  BY <1>1, <1>2, PTL DEF Spec

(* The lock protocol, the life of the collector thread, the progress of a  *)
(* publication, the frame and the wait, as one inductive invariant.        *)
THEOREM Invariance == Spec => []Inv
<1>1. Init => Inv
  BY Zenon
  DEF Init, Inv, LockInv, ThreadInv, DataInv, ScreenInv, WaitInv
<1>2. TypeOK /\ Inv /\ [Next]_vars => Inv'
  <2> SUFFICES ASSUME TypeOK, Inv, [Next]_vars PROVE Inv'
    OBVIOUS
  <2> USE DEF Inv, LockInv, ThreadInv, DataInv, ScreenInv, WaitInv, Sample, Frame, Partial, Whole,
          Blank, CpcSet, MpcSet, TypeOK,
          vars, shared, monitors, collector, settings, main, budget
  <2>1. CASE ThreadStart
    BY <2>1 DEF ThreadStart
  <2>2. CASE CollectorLocks
    BY <2>2 DEF CollectorLocks
  <2>3. CASE Wait
    BY <2>3 DEF Wait
  <2>4. CASE Leave
    BY <2>4 DEF Leave
  <2>5. CASE Expire
    BY <2>5 DEF Expire
  <2>6. CASE Finish
    BY <2>6 DEF Finish
  <2>7. CASE Accept
    BY <2>7 DEF Accept
  <2>8. CASE BeginSweep
    BY <2>8 DEF BeginSweep
  <2>9. CASE EndSweep
    BY <2>9 DEF EndSweep
  <2>10. CASE StoreScanTime
    BY <2>10 DEF StoreScanTime
  <2>11. CASE UpdateSystem
    BY <2>11 DEF UpdateSystem
  <2>12. CASE SwapItems
    BY <2>12 DEF SwapItems
  <2>13. CASE SwapCount
    BY <2>13 DEF SwapCount
  <2>14. CASE Bump
    BY <2>14 DEF Bump
  <2>15. CASE Start
    BY <2>15 DEF Start
  <2>16. CASE StartFails
    BY <2>16 DEF StartFails
  <2>17. CASE LoopHead
    BY <2>17 DEF LoopHead
  <2>18. CASE NoKey
    BY <2>18 DEF NoKey
  <2>19. CASE MainLocks
    BY <2>19 DEF MainLocks
  <2>20. CASE RequestRefresh
    BY <2>20 DEF RequestRefresh, Signalled
  <2>21. CASE SetInterval
    BY <2>21 DEF SetInterval, Signalled
  <2>22. CASE FindSelected
    BY <2>22 DEF FindSelected
  <2>23. CASE CheckGeneration
    BY <2>23 DEF CheckGeneration
  <2>24. CASE Draw
    BY <2>24 DEF Draw
  <2>25. CASE Stop
    BY <2>25 DEF Stop
  <2>26. CASE Halt
    BY <2>26 DEF Halt, Signalled
  <2>27. CASE Join
    BY <2>27 DEF Join
  <2>28. CASE Cleanup
    BY <2>28 DEF Cleanup
  <2>29. CASE QuitKey
    BY <2>29 DEF QuitKey, Key
  <2>30. CASE LocalKey
    BY <2>30 DEF LocalKey, Key
  <2>31. CASE RefreshKey
    BY <2>31 DEF RefreshKey, Key
  <2>32. CASE SlowerKey
    BY <2>32 DEF SlowerKey, Key
  <2>33. CASE FasterKey
    BY <2>33 DEF FasterKey, Key
  <2>34. CASE SignalKey
    BY <2>34 DEF SignalKey, Key
  <2>35. CASE Answer
    BY <2>35 DEF Answer
  <2>36. CASE SpuriousWakeup
    BY <2>36 DEF SpuriousWakeup
  <2>37. CASE SigInt
    BY <2>37 DEF SigInt
  <2>38. CASE Tick
    BY <2>38 DEF Tick
  <2>39. CASE Exited
    BY <2>39 DEF Exited
  <2>40. CASE UNCHANGED vars
    BY <2>40
  <2>41. QED
    BY <2>1, <2>2, <2>3, <2>4, <2>5, <2>6, <2>7, <2>8, <2>9, <2>10, <2>11, <2>12, <2>13,
      <2>14, <2>15, <2>16, <2>17, <2>18, <2>19, <2>20, <2>21, <2>22, <2>23, <2>24, <2>25,
      <2>26, <2>27, <2>28, <2>29, <2>30, <2>31, <2>32, <2>33, <2>34, <2>35, <2>36, <2>37,
      <2>38, <2>39, <2>40
     DEF Next, CollectorStep, MainStep, UserStep
<1>3. QED
  BY <1>1, <1>2, TypeCorrect, PTL DEF Spec

(* Apart from last_scan_ms no datum of the two monitors or the collector   *)
(* is written by one thread while the other may touch it.                  *)
THEOREM RaceFreedom == Spec => []RaceFree
<1>1. Inv => RaceFree
  <2> SUFFICES ASSUME Inv PROVE RaceFree
    OBVIOUS
  <2> USE DEF Inv, LockInv, ThreadInv
  <2>1. CASE cpc \in {"begin", "sweep", "measure"}
    BY <2>1 DEF RaceFree, DataRaces, MainReads, MainWrites, CollectorReads, CollectorWrites
  <2>2. CASE lock = "collector"
    BY <2>2 DEF RaceFree, DataRaces, MainReads, MainWrites, CollectorReads, CollectorWrites
  <2>3. CASE lock # "collector" /\ cpc \notin {"begin", "sweep", "measure"}
    BY <2>3 DEF RaceFree, DataRaces, MainReads, MainWrites, CollectorReads, CollectorWrites
  <2>4. QED
    BY <2>1, <2>2, <2>3
<1>2. QED
  BY <1>1, Invariance, PTL

(* Between two drawings the screen shows the whole of the sample that      *)
(* main() remembers as drawn.                                              *)
THEOREM WholeFrames == Spec => []ScreenIsDrawnGeneration
<1>1. Inv /\ TypeOK => ScreenIsDrawnGeneration
  BY DEF ScreenIsDrawnGeneration, Inv, ScreenInv
<1>2. QED
  BY <1>1, Invariance, TypeCorrect, PTL

(* A collector that sleeps has nothing to do, and sleeps on the interval   *)
(* now in force: no refresh, stop or new interval is slept through.        *)
THEOREM NothingSleptThrough == Spec => []NoLostWakeup
<1>1. Inv => NoLostWakeup
  BY DEF Inv, WaitInv, NoLostWakeup
<1>2. QED
  BY <1>1, Invariance, PTL

(* The monitors are freed only when no thread is left to use them.         *)
THEOREM FreedLast == Spec => []NoUseAfterFree
<1>1. Inv => NoUseAfterFree
  BY DEF Inv, ThreadInv, NoUseAfterFree
<1>2. QED
  BY <1>1, Invariance, PTL

(* The screen never mixes two samples.                                     *)
THEOREM FramesAreWhole == Spec => []FrameWhole
<1>1. Init => FrameWhole
  BY DEF Init, FrameWhole, Blank, Whole
<1>2. Inv /\ FrameWhole /\ [Next]_vars => FrameWhole'
  <2> SUFFICES ASSUME Inv, FrameWhole, [Next]_vars PROVE FrameWhole'
    OBVIOUS
  <2>1. CASE Draw
    <3>1. processes = generation /\ count = generation /\ sys = generation
      BY <2>1 DEF Draw, Inv, LockInv, DataInv
    <3>2. QED
      BY <2>1, <3>1 DEF Draw, FrameWhole
  <2>2. CASE ~Draw
    <3>1. frame' = frame
      BY <2>2 DEF Next, CollectorStep, MainStep, UserStep, ThreadStart, CollectorLocks,
        Wait, Leave, Expire, Finish, Accept, BeginSweep, EndSweep, StoreScanTime,
        UpdateSystem, SwapItems, SwapCount, Bump, Start, StartFails, LoopHead, NoKey,
        MainLocks, RequestRefresh, SetInterval, FindSelected, CheckGeneration, Stop, Halt,
        Join, Cleanup, QuitKey, LocalKey, RefreshKey, SlowerKey, FasterKey, SignalKey,
        Answer, SpuriousWakeup, SigInt, Tick, Exited,
         Key, vars, shared, monitors, collector, settings, main, budget
    <3>2. QED
      BY <3>1 DEF FrameWhole
  <2>3. QED
    BY <2>1, <2>2
<1>3. QED
  BY <1>1, <1>2, Invariance, PTL DEF Spec

(* A sweep begins no earlier than the interval allows if nobody asked for  *)
(* it, and not at all once the stop flag is set.                           *)
THEOREM TimerIsPatient == Spec => SweepsWhenDue
<1>1. Inv /\ [Next]_vars
        => [cpc # "begin" /\ cpc' = "begin"
            => ~stopping /\ (refresh_requested \/ elapsed >= armed)]_vars
  BY DEF Next, CollectorStep, MainStep, UserStep, ThreadStart, CollectorLocks, Wait, Leave,
    Expire, Finish, Accept, BeginSweep, EndSweep, StoreScanTime, UpdateSystem, SwapItems,
    SwapCount, Bump, Start, StartFails, LoopHead, NoKey, MainLocks, RequestRefresh,
    SetInterval, FindSelected, CheckGeneration, Draw, Stop, Halt, Join, Cleanup, QuitKey,
    LocalKey, RefreshKey, SlowerKey, FasterKey, SignalKey, Answer, SpuriousWakeup, SigInt,
    Tick, Exited,
     Key, Signalled, Inv, WaitInv, vars, shared, monitors, collector, settings, main, budget
<1>2. QED
  BY <1>1, Invariance, PTL DEF Spec, SweepsWhenDue

(* The two threads implement the feed: every step publishes the next       *)
(* sample, shows the whole of the latest one, opens or closes the session, *)
(* or is invisible.                                                        *)
THEOREM ImplementsFeed == Spec => Feed!Safe
<1>1. Init => Feed!Init
  BY DEF Init, Feed!Init, Feed!Blank, Feed!Whole, Blank, Whole, Session
<1>2. Inv /\ [Next]_vars => [Feed!Next]_(Feed!feed)
  <2> SUFFICES ASSUME Inv, [Next]_vars PROVE [Feed!Next]_(Feed!feed)
    OBVIOUS
  <2> USE DEF Feed!Next, Feed!Open, Feed!Close, Feed!Publish, Feed!feed, Session,
          vars, shared, monitors, collector, settings, main, budget
  <2>1. CASE ThreadStart
    BY <2>1 DEF ThreadStart
  <2>2. CASE CollectorLocks
    BY <2>2 DEF CollectorLocks
  <2>3. CASE Wait
    BY <2>3 DEF Wait
  <2>4. CASE Leave
    BY <2>4 DEF Leave
  <2>5. CASE Expire
    BY <2>5 DEF Expire
  <2>6. CASE Finish
    BY <2>6 DEF Finish
  <2>7. CASE Accept
    BY <2>7 DEF Accept
  <2>8. CASE BeginSweep
    BY <2>8 DEF BeginSweep
  <2>9. CASE EndSweep
    BY <2>9 DEF EndSweep
  <2>10. CASE StoreScanTime
    BY <2>10 DEF StoreScanTime
  <2>11. CASE UpdateSystem
    BY <2>11 DEF UpdateSystem
  <2>12. CASE SwapItems
    BY <2>12 DEF SwapItems
  <2>13. CASE SwapCount
    BY <2>13 DEF SwapCount
  <2>14. CASE Bump
    BY <2>14 DEF Bump
  <2>15. CASE Start
    BY <2>15 DEF Start
  <2>16. CASE StartFails
    BY <2>16 DEF StartFails
  <2>17. CASE LoopHead
    BY <2>17 DEF LoopHead
  <2>18. CASE NoKey
    BY <2>18 DEF NoKey
  <2>19. CASE MainLocks
    BY <2>19 DEF MainLocks
  <2>20. CASE RequestRefresh
    BY <2>20 DEF RequestRefresh, Signalled
  <2>21. CASE SetInterval
    BY <2>21 DEF SetInterval, Signalled
  <2>22. CASE FindSelected
    BY <2>22 DEF FindSelected
  <2>23. CASE CheckGeneration
    BY <2>23 DEF CheckGeneration
  <2>24. CASE Draw
    <3>1. processes = generation /\ count = generation /\ sys = generation
      BY <2>24 DEF Draw, Inv, LockInv, DataInv
    <3>2. Feed!Show \/ UNCHANGED Feed!feed
      BY <2>24, <3>1 DEF Draw, Feed!Show, Feed!Whole
    <3>3. QED
      BY <3>2
  <2>25. CASE Stop
    BY <2>25 DEF Stop
  <2>26. CASE Halt
    BY <2>26 DEF Halt, Signalled
  <2>27. CASE Join
    BY <2>27 DEF Join
  <2>28. CASE Cleanup
    BY <2>28 DEF Cleanup
  <2>29. CASE QuitKey
    BY <2>29 DEF QuitKey, Key
  <2>30. CASE LocalKey
    BY <2>30 DEF LocalKey, Key
  <2>31. CASE RefreshKey
    BY <2>31 DEF RefreshKey, Key
  <2>32. CASE SlowerKey
    BY <2>32 DEF SlowerKey, Key
  <2>33. CASE FasterKey
    BY <2>33 DEF FasterKey, Key
  <2>34. CASE SignalKey
    BY <2>34 DEF SignalKey, Key
  <2>35. CASE Answer
    BY <2>35 DEF Answer
  <2>36. CASE SpuriousWakeup
    BY <2>36 DEF SpuriousWakeup
  <2>37. CASE SigInt
    BY <2>37 DEF SigInt
  <2>38. CASE Tick
    BY <2>38 DEF Tick
  <2>39. CASE Exited
    BY <2>39 DEF Exited
  <2>40. CASE UNCHANGED vars
    BY <2>40
  <2>41. QED
    BY <2>1, <2>2, <2>3, <2>4, <2>5, <2>6, <2>7, <2>8, <2>9, <2>10, <2>11, <2>12, <2>13,
      <2>14, <2>15, <2>16, <2>17, <2>18, <2>19, <2>20, <2>21, <2>22, <2>23, <2>24, <2>25,
      <2>26, <2>27, <2>28, <2>29, <2>30, <2>31, <2>32, <2>33, <2>34, <2>35, <2>36, <2>37,
      <2>38, <2>39, <2>40
     DEF Next, CollectorStep, MainStep, UserStep
<1>3. QED
  BY <1>1, <1>2, Invariance, PTL DEF Spec, Feed!Safe
=============================================================================
