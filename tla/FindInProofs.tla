---------------------------- MODULE FindInProofs ----------------------------
(***************************************************************************)
(* find_in() is right for every sorted array, every pid and every width of *)
(* size_t that can hold the length of the array.                           *)
(***************************************************************************)
EXTENDS FindIn, TLAPS

(* The sum that gives the middle does not wrap, and the middle lies inside *)
(* the interval.                                                           *)
LEMMA Middle ==
    ASSUME TypeOK, low < high
    PROVE  /\ Mid = low + (high - low) \div 2
           /\ Mid \in low .. high - 1
           /\ Plus(Mid, 1) = Mid + 1
           /\ 2 * (high - (Mid + 1)) <= high - low
           /\ 2 * (Mid - low) <= high - low
<1> DEFINE half == (high - low) \div 2
<1>1. low \in Nat /\ high \in Nat /\ count \in Nat /\ high <= count /\ count < SizeLimit
      /\ SizeLimit \in Nat
  BY SizeAssumption DEF TypeOK
<1>2. half \in Nat /\ 2 * half <= high - low /\ high - low <= 2 * half + 1 /\ half < high - low
  BY <1>1
<1> HIDE DEF half
<1>3. Mid = (low + half) % SizeLimit
  BY DEF Mid, Plus, half
<1>4. low + half \in 0 .. SizeLimit - 1 /\ low + half + 1 \in 0 .. SizeLimit - 1
  BY <1>1, <1>2
<1>5. Mid = low + half
  BY <1>1, <1>3, <1>4
<1>6. Plus(Mid, 1) = Mid + 1
  BY <1>1, <1>4, <1>5 DEF Plus
<1>7. QED
  BY <1>1, <1>2, <1>5, <1>6 DEF half

LEMMA Initial == CallFindIn => Inv
<1> SUFFICES ASSUME CallFindIn PROVE Inv
  OBVIOUS
<1>1. count \in Nat
  BY SizeAssumption DEF CallFindIn
<1>2. QED
  BY <1>1 DEF CallFindIn, Inv, TypeOK, Outside, Sorted, NotFound, Correct

(* What is known of the array so far is enough for the next probe.         *)
LEMMA Step == Inv /\ [Probe]_search => Inv'
<1> SUFFICES ASSUME Inv, [Probe]_search PROVE Inv'
  OBVIOUS
<1> USE DEF Inv
<1>0. count \in Nat /\ low \in Nat /\ high \in Nat /\ high <= count
      /\ \A i \in 0 .. count - 1 : items[i] \in Int
  BY SizeAssumption, PidAssumption DEF TypeOK, pid_t
<1>1. CASE Hit
  <2>1. Mid \in low .. high - 1
    BY <1>1, Middle DEF Hit
  <2>2. Mid \in 0 .. count - 1
    BY <2>1, <1>0
  <2>3. TypeOK'
    BY <1>1, <2>2 DEF Hit, TypeOK, Sorted
  <2>4. result' # NotFound /\ items[result'] = pid
    BY <1>1, <2>2, <1>0 DEF Hit, NotFound
  <2>5. Outside'
    BY <1>1 DEF Hit, Outside
  <2>6. QED
    BY <1>1, <2>3, <2>4, <2>5 DEF Hit, Correct
<1>2. CASE GoRight
  <2>1. Mid \in low .. high - 1 /\ low' = Mid + 1
    BY <1>2, Middle DEF GoRight
  <2>2. low' \in 0 .. count /\ low' <= high
    BY <2>1, <1>0
  <2>3. TypeOK'
    BY <1>2, <2>2 DEF GoRight, TypeOK, Sorted
  <2>4. ASSUME NEW i \in 0 .. count - 1, i < low' PROVE items[i] < pid
    <3>1. Mid \in 0 .. count - 1 /\ items[Mid] < pid /\ pid \in Int
      BY <1>2, <2>1, <1>0, PidAssumption DEF GoRight, TypeOK, pid_t
    <3>2. i = Mid \/ i < Mid
      BY <2>1, <2>4, <1>0
    <3>3. i < Mid => items[i] < items[Mid]
      BY <3>1 DEF TypeOK, Sorted
    <3>4. QED
      BY <3>1, <3>2, <3>3, <1>0
  <2>5. Outside'
    BY <1>2, <2>4 DEF GoRight, Outside
  <2>6. QED
    BY <1>2, <2>3, <2>5 DEF GoRight
<1>3. CASE GoLeft
  <2>1. Mid \in low .. high - 1 /\ high' = Mid
    BY <1>3, Middle DEF GoLeft
  <2>2. high' \in 0 .. count /\ low <= high'
    BY <2>1, <1>0
  <2>3. TypeOK'
    BY <1>3, <2>2 DEF GoLeft, TypeOK, Sorted
  <2>4. ASSUME NEW i \in 0 .. count - 1, i >= high' PROVE items[i] > pid
    <3>1. Mid \in 0 .. count - 1 /\ items[Mid] > pid /\ pid \in Int
      BY <1>3, <2>1, <1>0, PidAssumption DEF GoLeft, TypeOK, pid_t
    <3>2. i = Mid \/ Mid < i
      BY <2>1, <2>4, <1>0
    <3>3. Mid < i => items[Mid] < items[i]
      BY <3>1 DEF TypeOK, Sorted
    <3>4. QED
      BY <3>1, <3>2, <3>3, <1>0
  <2>5. Outside'
    BY <1>3, <2>4 DEF GoLeft, Outside
  <2>6. QED
    BY <1>3, <2>3, <2>5 DEF GoLeft
<1>4. CASE Miss
  <2>1. low = high
    BY <1>4, <1>0 DEF Miss, TypeOK
  <2>2. ASSUME NEW i \in 0 .. count - 1 PROVE items[i] # pid
    <3>1. i < low \/ i >= high
      BY <2>1, <1>0
    <3>2. items[i] < pid \/ items[i] > pid
      BY <3>1 DEF Outside
    <3>3. QED
      BY <3>2, <1>0, PidAssumption DEF TypeOK, pid_t
  <2>3. TypeOK' /\ Outside'
    BY <1>4 DEF Miss, TypeOK, Outside, Sorted
  <2>4. QED
    BY <1>4, <2>1, <2>2, <2>3 DEF Miss, Correct
<1>5. CASE Done \/ UNCHANGED search
  BY <1>5 DEF Done, search, TypeOK, Outside, Sorted, Correct
<1>6. QED
  BY <1>1, <1>2, <1>3, <1>4, <1>5 DEF Probe

(* The array stays as it was, sorted, and the pid can only be between low  *)
(* and high.                                                               *)
THEOREM Invariance == Search => []Inv
  BY Initial, Step, PTL DEF Search

(* NULL exactly when the pid is absent, its element otherwise.             *)
THEOREM Correctness == Search => []Correct
<1>1. Inv => Correct
  BY DEF Inv, Correct
<1>2. QED
  BY <1>1, Invariance, PTL

(* No probe is outside the interval, in spite of wrapping sums, and the    *)
(* interval is halved by each step, so the number of probes is at most     *)
(* logarithmic in the length of the array.                                 *)
THEOREM Halving == Search => ProbesHalve
<1>1. Inv /\ [Probe]_search
        => [loop = "search" /\ low < high
            => Mid \in low .. high - 1 /\ (loop' = "search" => 2 * (high' - low') <= high - low)]_search
  <2> SUFFICES ASSUME Inv, Probe, loop = "search", low < high
               PROVE  Mid \in low .. high - 1
                      /\ (loop' = "search" => 2 * (high' - low') <= high - low)
    BY DEF search
  <2>0. count \in Nat /\ low \in Nat /\ high \in Nat /\ low <= high
    BY SizeAssumption DEF Inv, TypeOK
  <2>1. Mid \in low .. high - 1
    BY Middle DEF Inv
  <2>2. CASE GoRight
    <3>1. low' = Mid + 1 /\ high' = high /\ Mid \in Int /\ 2 * (high - (Mid + 1)) <= high - low
      BY <2>2, <2>0, Middle DEF GoRight, Inv
    <3>2. QED
      BY <3>1, <2>1
  <2>3. CASE GoLeft
    <3>1. high' = Mid /\ low' = low /\ 2 * (Mid - low) <= high - low
      BY <2>3, Middle DEF GoLeft, Inv
    <3>2. QED
      BY <3>1, <2>1
  <2>4. CASE Hit \/ Miss \/ Done
    BY <2>1, <2>4 DEF Hit, Miss, Done, search
  <2>5. QED
    BY <2>2, <2>3, <2>4 DEF Probe
<1>2. QED
  BY <1>1, Invariance, PTL DEF Search, ProbesHalve
=============================================================================
