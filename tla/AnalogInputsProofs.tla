-------------------------- MODULE AnalogInputsProofs --------------------------
(***************************************************************************)
(* Proofs about AnalogInputs, for any readings and voltages and for         *)
(* anything that may follow the table of thresholds in memory.              *)
(***************************************************************************)
EXTENDS AnalogInputs, TLAPS

Levels == EMPTY..FULL

Starts == EMPTY..MEDIUM

\* What the latest level came from.
LatestOK ==
  /\ latest.v \in Nat
  /\ latest.before \in Levels /\ latest.after \in Levels

\* As long as no interrupt moved the level, the main loop has passed the levels below
\* its target against the level it will be compared with.
Passed ==
  (pc = "loop" /\ ~interrupted) =>
    \A t \in Starts : t < target => ~Stops(t, v, last_level)

\* A level that fell did so below the threshold at its end: the margin delays a rise and
\* no fall.
FallsBelow == FallsUnraced => latest.v < voltage_thresholds[latest.after + 1]

IInv == /\ TypeOK /\ BatteryReadsBattery /\ LatestOK /\ Passed
        /\ RiseTakesMargin /\ FallsBelow

-------------------------------------------------------------------------------
(* What the operators of battery_get_level and analog_strip_read return *)

LEMMA ThresholdNat ==
  ASSUME beyond \in Nat
  PROVE  \A i \in 0..3 : voltage_thresholds[i] \in Nat
<1>1. TAKE i \in 0..3
<1>2. /\ i = 0 => voltage_thresholds[i] = 320
      /\ i = 1 => voltage_thresholds[i] = 360
      /\ i = 2 => voltage_thresholds[i] = 390
      /\ i = 3 => voltage_thresholds[i] = beyond
  BY DEF voltage_thresholds, VOLTAGE_THRESHOLD_LOW, VOLTAGE_THRESHOLD_MEDIUM,
         VOLTAGE_THRESHOLD_FULL
<1>3. i = 0 \/ i = 1 \/ i = 2 \/ i = 3
  OBVIOUS
<1> QED BY <1>2, <1>3

\* A level that does not stop is left with the margin, if the battery was on it.
LEMMA NoStopTakesMargin ==
  ASSUME beyond \in Nat, NEW t \in Starts, NEW x \in Nat, ~Stops(t, x, t)
  PROVE  x >= voltage_thresholds[t + 1] + VOLTAGE_HISTERESIS
<1>1. t + 1 \in 0..3
  BY DEF Starts, EMPTY, MEDIUM
<1>2. voltage_thresholds[t + 1] \in Nat
  BY <1>1, ThresholdNat
<1> QED BY <1>2 DEF Stops, VOLTAGE_HISTERESIS

\* A level the battery was not on is stopped at below its own end only.
LEMMA OtherStopsBelow ==
  ASSUME NEW t, NEW x, NEW last, Stops(t, x, last), last # t
  PROVE  x < voltage_thresholds[t + 1]
BY DEF Stops

\* The level is one of the four, every level below it was passed, and but for the last
\* the loop stops there.
LEMMA LevelIsFirstStop ==
  ASSUME NEW x \in Nat, NEW last \in Levels
  PROVE  /\ LevelFor(x, last) \in Levels
         /\ \A t \in Starts : t < LevelFor(x, last) => ~Stops(t, x, last)
         /\ LevelFor(x, last) < FULL => Stops(LevelFor(x, last), x, last)
<1> DEFINE stops == {t \in EMPTY..MEDIUM : Stops(t, x, last)}
<1>1. CASE stops = {}
  BY <1>1 DEF LevelFor, Levels, Starts, EMPTY, MEDIUM, FULL
<1>2. CASE stops # {}
  <2>1. \E m \in stops : \A y \in stops : m <= y
    <3>1. stops \subseteq {0, 1, 2}
      BY DEF EMPTY, MEDIUM
    <3>2. CASE 0 \in stops
      BY <3>1, <3>2
    <3>3. CASE 0 \notin stops /\ 1 \in stops
      BY <3>1, <3>3
    <3>4. CASE 0 \notin stops /\ 1 \notin stops
      BY <3>1, <3>4, <1>2
    <3> QED BY <3>2, <3>3, <3>4
  <2>2. /\ Min(stops) \in stops
        /\ \A y \in stops : Min(stops) <= y
    BY <2>1 DEF Min
  <2>3. LevelFor(x, last) = Min(stops)
    BY <1>2 DEF LevelFor
  <2> QED BY <2>2, <2>3 DEF Levels, Starts, EMPTY, MEDIUM, FULL
<1> QED BY <1>1, <1>2

\* The levels do not change order with the voltages: from the same level, more voltage
\* never makes less of it.
THEOREM LevelMonotone ==
  ASSUME beyond \in Nat, NEW x \in Nat, NEW y \in Nat, x <= y, NEW last \in Levels
  PROVE  LevelFor(x, last) <= LevelFor(y, last)
<1>1. /\ LevelFor(x, last) \in Levels /\ LevelFor(y, last) \in Levels
      /\ \A t \in Starts : t < LevelFor(x, last) => ~Stops(t, x, last)
      /\ LevelFor(y, last) < FULL => Stops(LevelFor(y, last), y, last)
  BY LevelIsFirstStop
<1> SUFFICES ASSUME LevelFor(y, last) < LevelFor(x, last) PROVE FALSE
  BY <1>1 DEF Levels, EMPTY, FULL
<1> DEFINE t == LevelFor(y, last)
<1>2. t \in Starts /\ t + 1 \in 0..3
  BY <1>1 DEF Levels, Starts, EMPTY, MEDIUM, FULL
<1>3. Stops(t, y, last) /\ ~Stops(t, x, last)
  BY <1>1, <1>2 DEF Levels, Starts, EMPTY, MEDIUM, FULL
<1>4. voltage_thresholds[t + 1] \in Nat
  BY <1>2, ThresholdNat
<1> QED BY <1>3, <1>4 DEF Stops, VOLTAGE_HISTERESIS

\* A voltage that stays settles the level at once: a second reading of it finds the
\* level the first one left.
THEOREM LevelSettles ==
  ASSUME beyond \in Nat, NEW x \in Nat, NEW last \in Levels
  PROVE  LevelFor(x, LevelFor(x, last)) = LevelFor(x, last)
<1> DEFINE l == LevelFor(x, last)
           m == LevelFor(x, l)
<1>1. /\ l \in Levels
      /\ \A t \in Starts : t < l => ~Stops(t, x, last)
      /\ l < FULL => Stops(l, x, last)
  BY LevelIsFirstStop
<1>2. /\ m \in Levels
      /\ \A t \in Starts : t < m => ~Stops(t, x, l)
      /\ m < FULL => Stops(m, x, l)
  BY <1>1, LevelIsFirstStop
<1> SUFFICES m = l
  OBVIOUS
<1> HIDE DEF l, m
<1>3. CASE m < l
  <2>1. m \in Starts /\ Stops(m, x, l) /\ ~Stops(m, x, last)
    BY <1>1, <1>2, <1>3 DEF Levels, Starts, EMPTY, MEDIUM, FULL
  <2>2. l # m
    BY <1>1, <1>2, <1>3 DEF Levels, EMPTY, FULL
  <2> QED BY <2>1, <2>2 DEF Stops
<1>4. CASE l < m
  <2>1. l \in Starts /\ ~Stops(l, x, l) /\ Stops(l, x, last)
    BY <1>1, <1>2, <1>4 DEF Levels, Starts, EMPTY, MEDIUM, FULL
  <2> QED BY <2>1 DEF Stops
<1> QED BY <1>1, <1>2, <1>3, <1>4 DEF Levels, EMPTY, FULL

LEMMA ReadingNat ==
  ASSUME strip \in Nat, volts \in Nat
  PROVE  Reading \in Nat
BY DEF Reading, BatteryReading

LEMMA ConvertedRange ==
  ASSUME NEW adc \in Nat
  PROVE  Converted(adc) \in {Released} \cup 0..127
BY DEF Converted, Released, OFF_THRESHOLD_VALUE, MAX_VALUE, MIN_VALUE

-------------------------------------------------------------------------------
(* The invariant *)

\* The world is of its type, and the loop runs while no level was reached.
LEMMA InitInv == Init => IInv
<1> SUFFICES ASSUME Init PROVE IInv
  OBVIOUS
<1>1. TypeOK
  <2>1. v \in Nat /\ value \in {Released} \cup 0..127
    BY DEF Init, Released
  <2>2. last_level \in EMPTY..FULL /\ target \in EMPTY..FULL
    BY DEF Init, EMPTY, FULL
  <2> QED BY <2>1, <2>2 DEF Init, TypeOK
<1>2. LatestOK /\ RiseTakesMargin /\ FallsBelow
  BY DEF Init, LatestOK, RiseTakesMargin, FallsBelow, FallsUnraced, Levels, EMPTY, FULL
<1>3. BatteryReadsBattery /\ Passed
  BY DEF Init, BatteryReadsBattery, Passed
<1> QED BY <1>1, <1>2, <1>3 DEF IInv

\* What every reading in the model may rely on.
LEMMA WorldNat ==
  ASSUME TypeOK
  PROVE  strip \in Nat /\ volts \in Nat /\ beyond \in Nat
BY InputsAssumption DEF TypeOK

\* The converter is moved to the strip by the step that reads it, and by no other.
LEMMA WorldStep == ASSUME IInv, World PROVE IInv'
<1>1. TypeOK'
  BY DEF World, IInv, TypeOK, level
<1>2. BatteryReadsBattery' /\ LatestOK'
  BY DEF World, IInv, BatteryReadsBattery, LatestOK
<1>3. beyond' = beyond /\ latest' = latest /\ pc' = pc /\ interrupted' = interrupted
        /\ target' = target /\ v' = v /\ last_level' = last_level
  BY DEF World, level
<1>4. voltage_thresholds' = voltage_thresholds
  BY <1>3 DEF voltage_thresholds
<1>5. Passed' /\ RiseTakesMargin' /\ FallsBelow'
  BY <1>3, <1>4 DEF IInv, Passed, RiseTakesMargin, FallsBelow, FallsUnraced, Stops
<1> QED BY <1>1, <1>2, <1>5 DEF IInv

\* An interrupt runs battery_get_level as a whole: it leaves a level with the margin, and
\* the converter on the battery.
LEMMA InterruptStep == ASSUME IInv, RenderInterrupt PROVE IInv'
<1>1. /\ strip \in Nat /\ volts \in Nat /\ beyond \in Nat
      /\ last_level \in Levels
  BY WorldNat DEF IInv, TypeOK, Levels
<1>2. /\ UNCHANGED <<strip, volts, charging, charged, beyond, pc, v, target, value>>
      /\ interrupted' = TRUE
  BY DEF RenderInterrupt, world, level
<1>3. voltage_thresholds' = voltage_thresholds
  BY <1>2 DEF voltage_thresholds
<1>4. CASE charged
  <2>1. last_level' = FULL /\ input' = input /\ latest' = latest
    BY <1>4 DEF RenderInterrupt
  <2> QED BY <1>2, <1>3, <2>1 DEF IInv, TypeOK, BatteryReadsBattery, LatestOK, Passed,
             RiseTakesMargin, FallsBelow, FallsUnraced, EMPTY, FULL
<1>5. CASE ~charged
  <2>1. /\ input' = VOLTAGE_ADC_INPUT
        /\ last_level' = LevelFor(volts, last_level)
        /\ latest' = From(volts, last_level, last_level', FALSE)
    BY <1>5 DEF RenderInterrupt
  <2>2. /\ last_level' \in Levels
        /\ \A t \in Starts : t < last_level' => ~Stops(t, volts, last_level)
        /\ last_level' < FULL => Stops(last_level', volts, last_level)
    BY <1>1, <2>1, LevelIsFirstStop
  <2>3. latest'.v = volts /\ latest'.before = last_level /\ latest'.after = last_level'
    BY <2>1 DEF From
  <2>4. RiseTakesMargin'
    <3> SUFFICES ASSUME last_level' > last_level
                 PROVE  volts >= voltage_thresholds[last_level + 1] + VOLTAGE_HISTERESIS
      BY <1>3, <2>3 DEF RiseTakesMargin
    <3>1. last_level \in Starts /\ last_level < last_level'
      BY <1>1, <2>2 DEF Levels, Starts, EMPTY, MEDIUM, FULL
    <3> QED BY <1>1, <2>2, <3>1, NoStopTakesMargin
  <2>5. TypeOK'
    BY <1>2, <2>1, <2>2 DEF IInv, TypeOK, Levels, VOLTAGE_ADC_INPUT, STRIP_ADC_INPUT
  <2>6. BatteryReadsBattery' /\ LatestOK' /\ Passed'
    BY <1>1, <1>2, <2>1, <2>2, <2>3 DEF BatteryReadsBattery, LatestOK, Passed
  <2>7. FallsBelow'
    <3> SUFFICES ASSUME last_level' < last_level
                 PROVE  volts < voltage_thresholds[last_level' + 1]
      BY <1>3, <2>3 DEF FallsBelow, FallsUnraced
    <3>1. last_level' < FULL /\ last_level # last_level'
      BY <1>1, <2>2 DEF Levels, EMPTY, FULL
    <3> QED BY <2>2, <3>1, OtherStopsBelow
  <2> QED BY <2>4, <2>5, <2>6, <2>7 DEF IInv
<1> QED BY <1>4, <1>5

\* Steps of the main loop other than the turns of the loop over the levels.
LEMMA OtherSteps ==
  ASSUME IInv, KeyboardOnly \/ RenderCharged \/ RenderLevel \/ BatterySelect
               \/ BatteryRead \/ StripSelect \/ StripRead
  PROVE  IInv'
<1>1. strip \in Nat /\ volts \in Nat /\ beyond \in Nat
  BY WorldNat DEF IInv
<1>2. UNCHANGED <<strip, volts, charging, charged, beyond, latest>>
  BY DEF KeyboardOnly, RenderCharged, RenderLevel, BatterySelect, BatteryRead,
         StripSelect, StripRead, world
<1>3. voltage_thresholds' = voltage_thresholds
  BY <1>2 DEF voltage_thresholds
<1>4. LatestOK' /\ RiseTakesMargin' /\ FallsBelow'
  BY <1>2, <1>3 DEF IInv, LatestOK, RiseTakesMargin, FallsBelow, FallsUnraced
<1>5. CASE KeyboardOnly \/ RenderCharged \/ RenderLevel \/ BatterySelect \/ StripSelect
  <2>1. /\ last_level' \in EMPTY..FULL
        /\ input' \in {VOLTAGE_ADC_INPUT, STRIP_ADC_INPUT}
        /\ pc' \in {"strip", "select", "read", "convert"}
        /\ UNCHANGED <<v, target, value>>
    BY <1>5 DEF KeyboardOnly, RenderCharged, RenderLevel, BatterySelect, StripSelect,
       IInv, TypeOK, level, EMPTY, FULL
  <2>2. interrupted' = interrupted \/ interrupted' = FALSE
    BY <1>5 DEF KeyboardOnly, RenderCharged, RenderLevel, BatterySelect, StripSelect
  <2>3. TypeOK'
    BY <1>2, <2>1, <2>2 DEF IInv, TypeOK
  <2>4. BatteryReadsBattery' /\ Passed'
    BY <1>5 DEF KeyboardOnly, RenderCharged, RenderLevel, BatterySelect, StripSelect,
       BatteryReadsBattery, Passed
  <2> QED BY <1>4, <2>3, <2>4 DEF IInv
<1>6. CASE BatteryRead
  <2>1. target' = EMPTY /\ v' \in Nat /\ pc' = "loop"
    BY <1>1, <1>6 DEF BatteryRead
  <2>2. TypeOK'
    BY <1>2, <1>6, <2>1 DEF BatteryRead, IInv, TypeOK, EMPTY, FULL
  <2>3. BatteryReadsBattery' /\ Passed'
    BY <2>1 DEF BatteryReadsBattery, Passed, Starts, EMPTY, MEDIUM
  <2> QED BY <1>4, <2>2, <2>3 DEF IInv
<1>7. CASE StripRead
  <2>1. value' \in {Released} \cup 0..127 /\ pc' = "keyboard"
    BY <1>1, <1>7, ReadingNat, ConvertedRange DEF StripRead
  <2>2. TypeOK'
    BY <1>2, <1>7, <2>1 DEF StripRead, IInv, TypeOK, level
  <2>3. BatteryReadsBattery' /\ Passed'
    BY <2>1 DEF BatteryReadsBattery, Passed
  <2> QED BY <1>4, <2>2, <2>3 DEF IInv
<1> QED BY <1>5, <1>6, <1>7

\* A turn of the loop passes the target it leaves.
LEMMA NextLevelStep == ASSUME IInv, NextLevel PROVE IInv'
<1>1. /\ UNCHANGED <<world, input, last_level, pc, v, value, interrupted, latest>>
      /\ target' = target + 1
      /\ target < FULL /\ ~Stops(target, v, last_level)
      /\ target \in Levels
  BY DEF NextLevel, Rises, IInv, TypeOK, Levels
<1>2. voltage_thresholds' = voltage_thresholds
  BY <1>1 DEF voltage_thresholds, world
<1>3. TypeOK'
  BY <1>1 DEF IInv, TypeOK, Levels, EMPTY, FULL, world
<1>4. Passed'
  <2>1. \A t \in Starts : t < target' => (t < target \/ t = target)
    BY <1>1 DEF Starts, Levels, EMPTY, MEDIUM, FULL
  <2> QED BY <1>1, <1>2, <2>1 DEF IInv, Passed, Stops
<1>5. BatteryReadsBattery' /\ LatestOK' /\ RiseTakesMargin' /\ FallsBelow'
  BY <1>1, <1>2 DEF IInv, BatteryReadsBattery, LatestOK, RiseTakesMargin, FallsBelow,
     FallsUnraced
<1> QED BY <1>3, <1>4, <1>5 DEF IInv

\* The level the main loop stores passed the one before, unless an interrupt moved it.
LEMMA StoreLevelStep == ASSUME IInv, StoreLevel PROVE IInv'
<1>1. /\ UNCHANGED <<world, input, value, interrupted>>
      /\ pc = "loop" /\ pc' = "strip" /\ ~Rises
      /\ last_level' = target /\ v' = 0 /\ target' = EMPTY
      /\ latest'.v = v /\ latest'.before = last_level /\ latest'.after = target
      /\ latest'.raced = interrupted
  BY DEF StoreLevel, From
<1>2. v \in Nat /\ target \in Levels /\ last_level \in Levels /\ beyond \in Nat
  BY WorldNat DEF IInv, TypeOK, Levels
<1>3. voltage_thresholds' = voltage_thresholds
  BY <1>1 DEF voltage_thresholds, world
<1>4. TypeOK'
  BY <1>1 DEF IInv, TypeOK, EMPTY, FULL, world
<1>5. RiseTakesMargin'
  <2> SUFFICES ASSUME ~interrupted, target > last_level
               PROVE  v >= voltage_thresholds[last_level + 1] + VOLTAGE_HISTERESIS
    BY <1>1, <1>3 DEF RiseTakesMargin
  <2>1. last_level \in Starts /\ last_level < target
    BY <1>2 DEF Levels, Starts, EMPTY, MEDIUM, FULL
  <2>2. ~Stops(last_level, v, last_level)
    BY <1>1, <2>1 DEF IInv, Passed
  <2> QED BY <1>2, <2>1, <2>2, NoStopTakesMargin
<1>6. BatteryReadsBattery' /\ LatestOK' /\ Passed'
  BY <1>1, <1>2 DEF BatteryReadsBattery, LatestOK, Passed
<1>7. FallsBelow'
  <2> SUFFICES ASSUME target < last_level
               PROVE  v < voltage_thresholds[target + 1]
    BY <1>1, <1>3 DEF FallsBelow, FallsUnraced
  <2>1. target < FULL /\ last_level # target
    BY <1>2 DEF Levels, EMPTY, FULL
  <2> QED BY <1>1, <2>1, OtherStopsBelow DEF Rises
<1> QED BY <1>4, <1>5, <1>6, <1>7 DEF IInv

\* IInv holds in every reachable state: nothing but the main loop moves the converter
\* away from the battery, no level is left upwards without the margin, and none is
\* reached downwards but below its end.
THEOREM Invariance == Spec => []IInv
<1>1. IInv /\ [Next]_vars => IInv'
  <2> SUFFICES ASSUME IInv, [Next]_vars PROVE IInv'
    OBVIOUS
  <2>1. CASE World
    BY <2>1, WorldStep
  <2>2. CASE RenderInterrupt
    BY <2>2, InterruptStep
  <2>3. CASE MainLoop
    BY <2>3, OtherSteps, NextLevelStep, StoreLevelStep DEF MainLoop
  <2>4. CASE UNCHANGED vars
    <3>1. UNCHANGED <<strip, volts, charging, charged, beyond, input, last_level, pc, v,
                      target, value, interrupted, latest>>
      BY <2>4 DEF vars, world, level
    <3>2. voltage_thresholds' = voltage_thresholds
      BY <3>1 DEF voltage_thresholds
    <3> QED BY <3>1, <3>2 DEF IInv, TypeOK, BatteryReadsBattery, LatestOK, Passed,
                RiseTakesMargin, FallsBelow, FallsUnraced, Stops
  <2> QED BY <2>1, <2>2, <2>3, <2>4 DEF Next
<1> QED BY InitInv, <1>1, PTL DEF Spec

\* The level, the locals of battery_get_level and the strip's value keep to their
\* ranges, whatever the converter reads and whatever follows the table in memory.
THEOREM TypeCorrect == Spec => []TypeOK
<1>1. IInv => TypeOK
  BY DEF IInv
<1> QED BY <1>1, Invariance, PTL

\* The battery's reading is of the battery, though interrupts use the converter as well
\* (battery.c 37-40).
THEOREM BatteryIsRead == Spec => []BatteryReadsBattery
<1>1. IInv => BatteryReadsBattery
  BY DEF IInv
<1> QED BY <1>1, Invariance, PTL

\* A level is left upwards with the full margin only (battery.c 62-74).
THEOREM MarginIsTaken == Spec => []RiseTakesMargin
<1>1. IInv => RiseTakesMargin
  BY DEF IInv
<1> QED BY <1>1, Invariance, PTL

\* The level does not flicker: what one reading took away the next gives back for a higher
\* voltage only, by the margin at least (battery.c 62-74).
THEOREM FallIsKept == Spec => NoFlicker
<1>1. IInv /\ IInv' /\ [Next]_vars
        => [(FallsUnraced /\ RisesUnraced' /\ latest'.before = latest.after)
              => latest'.v >= latest.v + VOLTAGE_HISTERESIS]_vars
  <2> SUFFICES ASSUME IInv, IInv', [Next]_vars,
                      FallsUnraced, RisesUnraced', latest'.before = latest.after
               PROVE  latest'.v >= latest.v + VOLTAGE_HISTERESIS
    OBVIOUS
  <2>1. beyond' = beyond
    BY DEF vars, world, Next, World, RenderInterrupt, MainLoop, KeyboardOnly,
       RenderCharged, RenderLevel, BatterySelect, BatteryRead, NextLevel, StoreLevel,
       StripSelect, StripRead
  <2>2. voltage_thresholds' = voltage_thresholds
    BY <2>1 DEF voltage_thresholds
  <2>3. latest.v < voltage_thresholds[latest.after + 1]
    BY DEF IInv, FallsBelow
  <2>4. latest'.v >= voltage_thresholds[latest.after + 1] + VOLTAGE_HISTERESIS
    BY <2>2 DEF IInv, RiseTakesMargin, RisesUnraced
  <2>5. /\ latest.v \in Nat /\ latest'.v \in Nat
        /\ voltage_thresholds[latest.after + 1] \in Nat
    <3>1. beyond \in Nat
      BY WorldNat DEF IInv
    <3>2. latest.after + 1 \in 0..3
      BY DEF IInv, LatestOK, FallsUnraced, Levels, EMPTY, FULL
    <3> QED BY <3>1, <3>2, ThresholdNat DEF IInv, LatestOK
  <2> QED BY <2>3, <2>4, <2>5 DEF VOLTAGE_HISTERESIS
<1> QED BY <1>1, Invariance, PTL DEF Spec, NoFlicker

\* The strip's reading is of the strip, unless an interrupt rendered the status since
\* it was selected (analog_strip.c 62).
THEOREM StripIsRead == Spec => StripReadsStrip
<1> DEFINE Selected == (pc = "convert" /\ ~interrupted) => input = STRIP_ADC_INPUT
<1>1. Init => Selected
  BY DEF Init
<1>2. Selected /\ [Next]_vars => Selected'
  <2> SUFFICES ASSUME Selected, [Next]_vars PROVE Selected'
    OBVIOUS
  <2>1. CASE World \/ RenderInterrupt
    BY <2>1 DEF World, RenderInterrupt, level
  <2>2. CASE MainLoop
    BY <2>2 DEF MainLoop, KeyboardOnly, RenderCharged, RenderLevel, BatterySelect,
       BatteryRead, NextLevel, StoreLevel, StripSelect, StripRead
  <2>3. CASE UNCHANGED vars
    BY <2>3 DEF vars
  <2> QED BY <2>1, <2>2, <2>3 DEF Next
<1>3. Selected => [StripRead => (value' = Converted(strip) \/ interrupted)]_vars
  BY DEF StripRead, Reading
<1> QED BY <1>1, <1>2, <1>3, PTL DEF Spec, StripReadsStrip
===============================================================================
