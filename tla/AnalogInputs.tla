----------------------------- MODULE AnalogInputs -----------------------------
(***************************************************************************)
(* The two users of the one A/D converter: analog_strip.c, in every turn of *)
(* the main loop, and battery.c, for the level that the status screen       *)
(* shows. The status screen is rendered by the main loop, and by a          *)
(* Bluetooth interrupt between any two steps of the main loop; each         *)
(* selects its input and then reads, and battery_get_level keeps the last   *)
(* level in a static variable. Voltages are in units of 10 mV.              *)
(***************************************************************************)
EXTENDS Integers, FiniteSetsExt

CONSTANTS
  StripReadings,  \* what the converter may read at the strip, of 0..4095
  Voltages,       \* what the battery may have
  Beyonds         \* what may follow voltage_thresholds[] in memory, as a voltage

ASSUME InputsAssumption ==
  /\ StripReadings \subseteq 0..4095 /\ StripReadings # {}
  /\ Voltages \subseteq Nat \ {0} /\ Voltages # {}
  /\ Beyonds \subseteq Nat /\ Beyonds # {}

VOLTAGE_ADC_INPUT == 0
STRIP_ADC_INPUT   == 2

EMPTY  == 0
LOW    == 1
MEDIUM == 2
FULL   == 3

VARIABLES
  strip, volts, charging, charged,  \* the world: the strip's and the battery's pins
  beyond,          \* the word after voltage_thresholds[]
  input,           \* the selected input of the converter
  last_level,
  pc,              \* next step of the main loop
  v, target,       \* locals of battery_get_level on the main loop
  value,           \* latest reading of analog_strip_read: what midi_value_set gets,
                   \* or Released
  interrupted,     \* an interrupt rendered since the main loop entered the function
                   \* it is in
  latest           \* of the latest level that came from a voltage: the voltage, the
                   \* levels before and after, whether the battery was charging, and
                   \* whether an interrupt came in between

world == <<strip, volts, charging, charged, beyond>>
level == <<v, target>>
vars  == <<world, input, last_level, pc, level, value, interrupted, latest>>

Released == -1

\* The battery's pin has half of its voltage, and the converter a range of 3.3 V.
BatteryReading == (volts * 4095) \div 660

Reading == IF input = STRIP_ADC_INPUT THEN strip ELSE BatteryReading

Init ==
  /\ strip \in StripReadings /\ volts \in Voltages
  /\ charging \in BOOLEAN /\ charged \in BOOLEAN
  /\ beyond \in Beyonds
  /\ input = VOLTAGE_ADC_INPUT     \* display_init has rendered the status, or reset
  /\ last_level = FULL
  /\ pc = "keyboard"
  /\ v = 0 /\ target = EMPTY
  /\ value = Released
  /\ interrupted = FALSE
  /\ latest = [v |-> 0, before |-> FULL, after |-> FULL, charging |-> FALSE, raced |-> FALSE]

World ==
  /\ \/ strip' \in StripReadings /\ UNCHANGED <<volts, charging, charged>>
     \/ volts' \in Voltages /\ UNCHANGED <<strip, charging, charged>>
     \/ charging' \in BOOLEAN /\ charged' \in BOOLEAN /\ UNCHANGED <<strip, volts>>
  /\ UNCHANGED <<beyond, input, last_level, pc, level, value, interrupted, latest>>

-------------------------------------------------------------------------------
(* battery_get_level *)

VOLTAGE_THRESHOLD_LOW    == 320
VOLTAGE_THRESHOLD_MEDIUM == 360
VOLTAGE_THRESHOLD_FULL   == 390
VOLTAGE_HISTERESIS       == 7

\* A level's own threshold, from index 0 on.
voltage_thresholds ==
  [i \in 0..3 |-> CASE i = 0 -> VOLTAGE_THRESHOLD_LOW
                    [] i = 1 -> VOLTAGE_THRESHOLD_MEDIUM
                    [] i = 2 -> VOLTAGE_THRESHOLD_FULL
                    [] i = 3 -> beyond]

\* The margin is not asked for.
StopsWithoutMargin(t, x, last) == x < voltage_thresholds[t + 1]

\* The loop of battery_get_level returns t.
Stops(t, x, last) ==
  \/ x < voltage_thresholds[t + 1]
  \/ last = t /\ x < voltage_thresholds[t + 1] + VOLTAGE_HISTERESIS

LevelFor(x, last) ==
  LET stops == {t \in EMPTY..MEDIUM : Stops(t, x, last)}
  IN  IF stops = {} THEN FULL ELSE Min(stops)

From(x, before, after, raced) ==
  [v |-> x, before |-> before, after |-> after, charging |-> charging, raced |-> raced]

\* The interrupt renders the status: battery_get_level from its start to its end.
RenderInterrupt ==
  /\ interrupted' = TRUE
  /\ IF charged
     THEN /\ last_level' = FULL
          /\ UNCHANGED <<input, latest>>
     ELSE /\ input' = VOLTAGE_ADC_INPUT
          /\ last_level' = LevelFor(volts, last_level)
          /\ latest' = From(volts, last_level, last_level', FALSE)
  /\ UNCHANGED <<world, pc, level, value>>

-------------------------------------------------------------------------------
(* The main loop: keyboard_task, which may render the status, and analog_strip_task *)

KeyboardOnly ==
  /\ pc = "keyboard"
  /\ pc' = "strip"
  /\ UNCHANGED <<world, input, last_level, level, value, interrupted, latest>>

RenderCharged ==
  /\ pc = "keyboard"
  /\ charged
  /\ last_level' = FULL
  /\ pc' = "strip"
  /\ UNCHANGED <<world, input, level, value, interrupted, latest>>

RenderLevel ==
  /\ pc = "keyboard"
  /\ ~charged
  /\ interrupted' = FALSE
  /\ pc' = "select"
  /\ UNCHANGED <<world, input, last_level, level, value, latest>>

\* The converter is left as it was.
BatteryNotSelected ==
  /\ pc = "select"
  /\ pc' = "read"
  /\ UNCHANGED <<world, input, last_level, level, value, interrupted, latest>>

BatterySelect ==
  /\ pc = "select"
  /\ input' = VOLTAGE_ADC_INPUT
  /\ pc' = "read"
  /\ UNCHANGED <<world, last_level, level, value, interrupted, latest>>

BatteryRead ==
  /\ pc = "read"
  /\ v' = IF input = VOLTAGE_ADC_INPUT THEN volts ELSE (strip * 660) \div 4095
  /\ target' = EMPTY
  /\ pc' = "loop"
  /\ UNCHANGED <<world, input, last_level, value, interrupted, latest>>

Rises == target < FULL /\ ~Stops(target, v, last_level)

\* One turn of the loop over the levels, which reads last_level again.
NextLevel ==
  /\ pc = "loop"
  /\ Rises
  /\ target' = target + 1
  /\ UNCHANGED <<world, input, last_level, pc, v, value, interrupted, latest>>

StoreLevel ==
  /\ pc = "loop"
  /\ ~Rises
  /\ last_level' = target
  /\ latest' = From(v, last_level, target, interrupted)
  /\ v' = 0 /\ target' = EMPTY   \* the locals end
  /\ pc' = "strip"
  /\ UNCHANGED <<world, input, value, interrupted>>

\* A strip that trusts to the input it selected last.
StripNotSelected ==
  /\ pc = "strip"
  /\ interrupted' = FALSE
  /\ pc' = "convert"
  /\ UNCHANGED <<world, input, last_level, level, value, latest>>

StripSelect ==
  /\ pc = "strip"
  /\ input' = STRIP_ADC_INPUT
  /\ interrupted' = FALSE
  /\ pc' = "convert"
  /\ UNCHANGED <<world, last_level, level, value, latest>>

MIN_VALUE == 200
MAX_VALUE == 3600
OFF_THRESHOLD_VALUE == 3850

\* No test of the lower end.
ConvertedFromZero(adc) ==
  IF adc > OFF_THRESHOLD_VALUE THEN Released
  ELSE IF adc > MAX_VALUE THEN 127
  ELSE (127 * (adc - MIN_VALUE)) \div (MAX_VALUE - MIN_VALUE)

\* analog_strip_read_float, and analog_strip_read for a value from 0 to 127: the float
\* product is cut off.
Converted(adc) ==
  IF adc > OFF_THRESHOLD_VALUE THEN Released
  ELSE IF adc > MAX_VALUE THEN 127
  ELSE IF adc < MIN_VALUE THEN 0
  ELSE (127 * (adc - MIN_VALUE)) \div (MAX_VALUE - MIN_VALUE)

StripRead ==
  /\ pc = "convert"
  /\ value' = Converted(Reading)
  /\ pc' = "keyboard"
  /\ UNCHANGED <<world, input, last_level, level, interrupted, latest>>

MainLoop == \/ KeyboardOnly \/ RenderCharged \/ RenderLevel
            \/ BatterySelect \/ BatteryRead \/ NextLevel \/ StoreLevel
            \/ StripSelect \/ StripRead

Next == World \/ RenderInterrupt \/ MainLoop

Spec == Init /\ [][Next]_vars
-------------------------------------------------------------------------------
(* Properties *)

TypeOK ==
  /\ strip \in StripReadings /\ volts \in Voltages /\ beyond \in Beyonds
  /\ charging \in BOOLEAN /\ charged \in BOOLEAN /\ interrupted \in BOOLEAN
  /\ input \in {VOLTAGE_ADC_INPUT, STRIP_ADC_INPUT}
  /\ last_level \in EMPTY..FULL /\ target \in EMPTY..FULL
  /\ pc \in {"keyboard", "select", "read", "loop", "strip", "convert"}
  /\ v \in Nat
  /\ value \in {Released} \cup 0..127

\* Whoever is interrupted while he reads the battery still reads the battery, since
\* nothing but the main loop selects the strip.
BatteryReadsBattery == pc = "read" => input = VOLTAGE_ADC_INPUT

\* The strip is played as the finger is on it, unless an interrupt rendered the status
\* between adc_select_input and adc_read: the battery's voltage then passes for a finger
\* in the middle of the strip.
StripReadsStrip ==
  [][StripRead => (value' = Converted(strip) \/ interrupted)]_vars

\* The level does not flicker: it rises from a level only if the voltage is above that
\* level's end by the full margin, unless the charger reported a full battery, or the
\* level moved under the main loop's reading.
RiseTakesMargin ==
  (~latest.raced /\ latest.after > latest.before) =>
    latest.v >= voltage_thresholds[latest.before + 1] + VOLTAGE_HISTERESIS

\* No two successive voltages less than the margin apart make the level fall and rise
\* again: the reading that lifts a level right after one that lowered it is higher by the
\* margin. So the status screen does not flicker from one reading to the next while a
\* voltage wavers around a threshold, with the exceptions of RiseTakesMargin, which says
\* of every rise how far it is above its threshold.
FallsUnraced == ~latest.raced /\ latest.after < latest.before
RisesUnraced == ~latest.raced /\ latest.after > latest.before

NoFlicker ==
  [][(FallsUnraced /\ RisesUnraced' /\ latest'.before = latest.after) =>
       latest'.v >= latest.v + VOLTAGE_HISTERESIS]_vars

\* battery.c 63: "if we are below the threshold of the next level, return target level".
\* So a level is returned only below the threshold of the next one, the margin
\* included. (The code takes the threshold of the level after that, 3.6 V for LOW.)
NextThresholdCounts ==
  (latest.v > 0 /\ latest.after < FULL) =>
    latest.v < voltage_thresholds[latest.after] + VOLTAGE_HISTERESIS

\* battery.c 68: "if charging, VOLTAGE_HISTERESIS has to be surpassed as well". So
\* without charging a level follows from the voltage alone.
MarginOnlyWhenCharging ==
  (~latest.charging /\ latest.after < FULL) =>
    latest.v < voltage_thresholds[latest.after + 1]
===============================================================================
