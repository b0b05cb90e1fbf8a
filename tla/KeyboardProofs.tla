---------------------------- MODULE KeyboardProofs ----------------------------
(***************************************************************************)
(* Proofs about keyboard.c for any number of slots, any set of keys and any *)
(* layouts.                                                                 *)
(***************************************************************************)
EXTENDS Keyboard, KeyPositionsProofs

USE DEF usb, reports

\* What handing a slot on changes: the step, and a part of the instrument.
LEMMA StepAdvances ==
  ASSUME TypeOK,
         SkipSlot \/ \E key \in Keys : Navigate(key) \/ SelectKeymap(key) \/ Transpose(key)
                                       \/ NoteOn(key) \/ NoteOff(key)
  PROVE  /\ step \in 1..(2 * Slots)
         /\ step' = step + 1
         /\ UNCHANGED <<requested, keyboard_connected, prev_report, new_report>>
BY SlotsAssumption DEF TypeOK, SkipSlot, Navigate, SelectKeymap, Transpose, NoteOn, NoteOff,
   Pressed, Released

LEMMA NotesAreBytes ==
  ASSUME NEW k \in Keymaps, NEW key \in Keys, NEW o \in Int
  PROVE  Notes(k, key, o) \subseteq 0..255
<1>1. ASSUME NEW raw \in RawNotes[k][key]  PROVE (raw + o) % 256 \in 0..255
  <2>1. raw \in 1..255
    BY RawNotesAssumption
  <2> QED BY <2>1
<1> QED BY <1>1 DEF Notes

\* The transposition stays on the octaves from -24 to 60, for the range tests of the
\* octave keys reject what would leave it.
LEMMA ShiftStaysInRange ==
  ASSUME TypeOK, NEW key \in Keys, ShiftsUp(key) \/ ShiftsDown(key)
  PROVE  NewOffset(key) \in {-24, -12, 0, 12, 24, 36, 48, 60}
BY DEF TypeOK, ShiftsUp, ShiftsDown, NewOffset, TopNote, BottomNote, OctaveUpKey,
   OctaveDownKey

LEMMA TypeInit == Init => TypeOK
<1> SUFFICES ASSUME Init PROVE TypeOK
  OBVIOUS
<1>1. 0 \in 0..(2 * Slots + 1)
  BY SlotsAssumption
<1>2. EmptyReport \in Report
  BY DEF EmptyReport, Report
<1> QED BY <1>1, <1>2 DEF Init, TypeOK

LEMMA TypeStep == TypeOK /\ [Next]_vars => TypeOK'
<1> SUFFICES ASSUME TypeOK, [Next]_vars PROVE TypeOK'
  OBVIOUS
<1> USE SlotsAssumption
<1>1. CASE Mount
  BY <1>1 DEF TypeOK, Mount
<1>2. CASE Unplug
  BY <1>2 DEF TypeOK, Unplug
<1>3. ASSUME NEW report \in Report, ReportReceived(report) PROVE TypeOK'
  <2>1. 1 \in 0..(2 * Slots + 1)
    BY SlotsAssumption
  <2> QED BY <1>3, <2>1 DEF TypeOK, ReportReceived
<1>4. CASE SkipSlot
  BY <1>4, StepAdvances DEF TypeOK, SkipSlot
<1>5. ASSUME NEW key \in Keys, Navigate(key) PROVE TypeOK'
  BY <1>5, StepAdvances DEF TypeOK, Navigate
<1>6. ASSUME NEW key \in Keys, SelectKeymap(key) PROVE TypeOK'
  <2>1. keymap' \in Keymaps
    BY <1>6, KeymapsAssumption DEF TypeOK, SelectKeymap, Keymaps
  <2> QED BY <1>6, <2>1, StepAdvances DEF TypeOK, SelectKeymap
<1>7. ASSUME NEW key \in Keys, Transpose(key) PROVE TypeOK'
  <2>1. offset' \in {-24, -12, 0, 12, 24, 36, 48, 60}
    BY <1>7, ShiftStaysInRange DEF Transpose
  <2>2. sounding' \subseteq 0..255
    BY <1>7, <2>1, NotesAreBytes DEF TypeOK, Transpose
  <2> QED BY <1>7, <2>1, <2>2, StepAdvances DEF TypeOK, Transpose
<1>8. ASSUME NEW key \in Keys, NoteOn(key) PROVE TypeOK'
  <2>1. Notes(keymap, key, offset) \subseteq 0..255
    BY NotesAreBytes DEF TypeOK
  <2>2. sounding' \subseteq 0..255
    BY <1>8, <2>1 DEF TypeOK, NoteOn
  <2> QED BY <1>8, <2>2, StepAdvances DEF TypeOK, NoteOn
<1>9. ASSUME NEW key \in Keys, NoteOff(key) PROVE TypeOK'
  <2>1. sounding' \subseteq 0..255
    BY <1>9 DEF TypeOK, NoteOff
  <2> QED BY <1>9, <2>1, StepAdvances DEF TypeOK, NoteOff
<1>10. CASE Finish
  <2>1. 0 \in 0..(2 * Slots + 1)
    BY SlotsAssumption
  <2>2. EmptyReport \in Report
    BY DEF EmptyReport, Report
  <2> QED BY <1>10, <2>1, <2>2 DEF TypeOK, Finish
<1>11. CASE UNCHANGED vars
  BY <1>11 DEF TypeOK, vars
<1> QED BY <1>1, <1>2, <1>3, <1>4, <1>5, <1>6, <1>7, <1>8, <1>9, <1>10, <1>11
        DEF Next, Process

\* Type correctness: in particular the transposition stays on its eight octaves and
\* the step stays within the two loops.
THEOREM TypeCorrect == Spec => []TypeOK
BY TypeInit, TypeStep, PTL DEF Spec

-------------------------------------------------------------------------------
(* The held keys *)

\* Boot reports list a key once: what the release of a key ends, no other slot holds.
ReportsWellFormed == WellFormed(prev_report) /\ WellFormed(new_report)

Inv == TypeOK /\ ReportsWellFormed

LEMMA InvInit == Init => Inv
<1> SUFFICES ASSUME Init PROVE ReportsWellFormed
  BY TypeInit DEF Inv
<1> QED BY DEF Init, EmptyReport, ReportsWellFormed, WellFormed

LEMMA InvStep == Inv /\ [Next]_vars => Inv'
<1> SUFFICES ASSUME Inv, [Next]_vars PROVE ReportsWellFormed'
  BY TypeStep DEF Inv
<1>1. ASSUME NEW report \in Report, ReportReceived(report) PROVE ReportsWellFormed'
  BY <1>1 DEF Inv, ReportReceived, ReportsWellFormed, WellFormed
<1>2. CASE Finish
  <2>1. WellFormed(EmptyReport)
    BY DEF WellFormed, EmptyReport
  <2> QED BY <1>2, <2>1 DEF Inv, Finish, ReportsWellFormed, WellFormed
<1>3. CASE UNCHANGED <<prev_report, new_report>>
  BY <1>3 DEF Inv, ReportsWellFormed, WellFormed
<1> QED BY <1>1, <1>2, <1>3 DEF Next, Process, Mount, Unplug, SkipSlot, Navigate,
           SelectKeymap, Transpose, NoteOn, NoteOff, vars

THEOREM Invariance == Spec => []Inv
BY InvInit, InvStep, PTL DEF Spec

\* Neither the USB events nor the bookkeeping around the loops change what is held.
LEMMA HeldIsKept ==
  ASSUME TypeOK,
         \/ Mount \/ Unplug \/ Finish \/ UNCHANGED vars
         \/ \E report \in Report : ReportReceived(report)
  PROVE  Held' = Held
<1> USE SlotsAssumption
<1>1. CASE Mount \/ Unplug \/ UNCHANGED vars
  BY <1>1 DEF Mount, Unplug, vars, Held, find_key_in_report
<1>2. ASSUME NEW report \in Report, ReportReceived(report) PROVE Held' = Held
  <2>1. \A i \in 1..Slots : 0 <= Slots + i /\ 1 <= Slots + i /\ ~(i < 0) /\ ~(i < 1)
    OBVIOUS
  <2> QED BY <1>2, <2>1 DEF ReportReceived, Held
<1>3. CASE Finish
  <2>1. \A i \in 1..Slots : ~(step <= Slots + i) /\ i < step
    BY <1>3 DEF Finish
  <2>2. \A i \in 1..Slots : step' <= Slots + i /\ ~(i < step')
    BY <1>3 DEF Finish
  <2> QED BY <1>3, <2>1, <2>2 DEF Finish, Held, find_key_in_report
<1> QED BY <1>1, <1>2, <1>3

\* A slot that is skipped holds no key, or one that both reports hold.
LEMMA HeldIsKeptBySkip ==
  ASSUME TypeOK, SkipSlot
  PROVE  Held' = Held
<1> USE SlotsAssumption
<1>1. CASE step \in 1..Slots
  <2>1. new_report[step] \in Keys => find_key_in_report(prev_report, new_report[step])
    <3> SUFFICES ASSUME NEW key \in Keys, key = new_report[step]
                 PROVE  find_key_in_report(prev_report, key)
      OBVIOUS
    <3>1. key # 0 /\ ~Pressed(key)
      BY KeysAssumption DEF SkipSlot
    <3> QED BY <1>1, <3>1 DEF Pressed
  <2>2. \A i \in 1..Slots : (i < step' <=> i < step \/ i = step)
                            /\ step <= Slots + i /\ step' <= Slots + i
    BY <1>1 DEF SkipSlot, TypeOK
  <2> QED BY <1>1, <2>1, <2>2 DEF SkipSlot, Held, find_key_in_report
<1>2. CASE step \in (Slots + 1)..(2 * Slots)
  <2>1. prev_report[step - Slots] \in Keys =>
          find_key_in_report(new_report, prev_report[step - Slots])
    <3> SUFFICES ASSUME NEW key \in Keys, key = prev_report[step - Slots]
                 PROVE  find_key_in_report(new_report, key)
      OBVIOUS
    <3>1. key # 0 /\ ~Released(key)
      BY KeysAssumption DEF SkipSlot
    <3> QED BY <1>2, <3>1 DEF Released
  <2>2. \A i \in 1..Slots : /\ step <= Slots + i <=> step' <= Slots + i \/ i = step - Slots
                            /\ i < step /\ i < step'
    BY <1>2 DEF SkipSlot, TypeOK
  <2> QED BY <1>2, <2>1, <2>2 DEF SkipSlot, Held, find_key_in_report
<1> QED BY <1>1, <1>2 DEF SkipSlot

LEMMA HeldAfterPress ==
  ASSUME TypeOK, NEW key \in Keys, Pressed(key), step' = step + 1, UNCHANGED reports
  PROVE  Held' = Held \cup {key}
<1> USE SlotsAssumption
<1>1. \A i \in 1..Slots : (i < step' <=> i < step \/ i = step)
                          /\ step <= Slots + i /\ step' <= Slots + i
  BY DEF Pressed, TypeOK
<1>2. step \in 1..Slots /\ new_report[step] = key
  BY DEF Pressed
<1> QED BY <1>1, <1>2 DEF Held, find_key_in_report

LEMMA HeldAfterRelease ==
  ASSUME TypeOK, NEW key \in Keys, Released(key), step' = step + 1, UNCHANGED reports
  PROVE  key \in Held /\ Held \ {key} \subseteq Held' /\ Held' \subseteq Held
<1> USE SlotsAssumption
<1>1. \A i \in 1..Slots : /\ step <= Slots + i <=> step' <= Slots + i \/ i = step - Slots
                          /\ i < step /\ i < step'
  BY DEF Released, TypeOK
<1>2. step - Slots \in 1..Slots /\ prev_report[step - Slots] = key
  BY DEF Released, TypeOK
<1> QED BY <1>1, <1>2 DEF Held, find_key_in_report

\* But for the rollover code, which plays nothing, press and release alternate.
LEMMA PressedIsUp ==
  ASSUME Inv, NEW key \in Keys, Pressed(key), key # ErrorRollOver
  PROVE  key \notin Held
<1> USE SlotsAssumption
<1>1. \A i \in 1..Slots : i < step => new_report[i] # key
  BY DEF Inv, TypeOK, ReportsWellFormed, WellFormed, Pressed
<1> QED BY <1>1 DEF Held, Pressed, find_key_in_report

LEMMA ReleasedIsUp ==
  ASSUME Inv, NEW key \in Keys, Released(key), step' = step + 1, UNCHANGED reports,
         key # ErrorRollOver
  PROVE  Held' = Held \ {key}
<1> USE SlotsAssumption
<1>1. \A i \in 1..Slots : step' <= Slots + i => prev_report[i] # key
  <2>1. step - Slots \in 1..Slots /\ prev_report[step - Slots] = key
    BY DEF Released, Inv, TypeOK
  <2> QED BY <2>1, KeysAssumption DEF Inv, TypeOK, ReportsWellFormed, WellFormed
<1>2. key \notin Held'
  BY <1>1 DEF Held, Released, find_key_in_report
<1> QED BY <1>2, HeldAfterRelease DEF Inv

-------------------------------------------------------------------------------
(* The notes *)

\* The notes of the held keys follow the set of held keys.
LEMMA NotesOfUnion ==
  ASSUME NEW k, NEW o, NEW A, NEW B, NEW key, A \subseteq B \cup {key}
  PROVE  NotesOf(k, A, o) \subseteq NotesOf(k, B, o) \cup Notes(k, key, o)
BY DEF NotesOf

LEMMA NotesOfHeldKey ==
  ASSUME NEW k, NEW o, NEW A, NEW key \in A
  PROVE  Notes(k, key, o) \subseteq NotesOf(k, A, o)
BY DEF NotesOf

LEMMA NotesOfMonotone ==
  ASSUME NEW k, NEW o, NEW A, NEW B, A \subseteq B
  PROVE  NotesOf(k, A, o) \subseteq NotesOf(k, B, o)
BY DEF NotesOf

LEMMA StuckStep == TypeOK /\ [Next]_vars /\ keymap' = keymap => Stuck' \subseteq Stuck
<1> SUFFICES ASSUME TypeOK, [Next]_vars, keymap' = keymap PROVE Stuck' \subseteq Stuck
  OBVIOUS
<1>1. ASSUME UNCHANGED <<offset, sounding>>, Held \subseteq Held' PROVE Stuck' \subseteq Stuck
  <2>1. NotesOf(keymap, Held, offset) \subseteq NotesOf(keymap, Held', offset)
    BY <1>1, NotesOfMonotone
  <2>2. Stuck' = sounding \ NotesOf(keymap, Held', offset)
    BY <1>1 DEF Stuck, NotesOf, Notes
  <2> QED BY <2>1, <2>2 DEF Stuck
<1>2. CASE Mount \/ Unplug \/ Finish \/ UNCHANGED vars
           \/ \E report \in Report : ReportReceived(report)
  <2>1. Held' = Held
    BY <1>2, HeldIsKept
  <2> QED BY <1>1, <1>2, <2>1 DEF Mount, Unplug, Finish, vars, ReportReceived
<1>3. CASE SkipSlot
  BY <1>1, <1>3, HeldIsKeptBySkip DEF SkipSlot
<1>4. ASSUME NEW key \in Keys, Navigate(key) \/ SelectKeymap(key) PROVE Stuck' \subseteq Stuck
  <2>1. Held' = Held \cup {key}
    BY <1>4, HeldAfterPress DEF Navigate, SelectKeymap
  <2> QED BY <1>1, <1>4, <2>1 DEF Navigate, SelectKeymap
<1>5. ASSUME NEW key \in Keys, Transpose(key) PROVE Stuck' \subseteq Stuck
  <2>1. key \in Held'
    BY <1>5, HeldAfterPress DEF Transpose
  <2>2. Notes(keymap, key, offset') \subseteq NotesOf(keymap, Held', offset')
    BY <2>1, NotesOfHeldKey
  <2>3. Stuck' = sounding' \ NotesOf(keymap, Held', offset')
    BY DEF Stuck, NotesOf, Notes
  <2> QED BY <1>5, <2>2, <2>3 DEF Transpose
<1>6. ASSUME NEW key \in Keys, NoteOn(key) PROVE Stuck' \subseteq Stuck
  <2>1. Held' = Held \cup {key}
    BY <1>6, HeldAfterPress DEF NoteOn
  <2>2. /\ Notes(keymap, key, offset) \subseteq NotesOf(keymap, Held', offset)
        /\ NotesOf(keymap, Held, offset) \subseteq NotesOf(keymap, Held', offset)
    BY <2>1, NotesOfHeldKey, NotesOfMonotone
  <2>3. Stuck' = (sounding \cup Notes(keymap, key, offset)) \ NotesOf(keymap, Held', offset)
    BY <1>6 DEF NoteOn, Stuck, NotesOf, Notes
  <2> QED BY <2>2, <2>3 DEF Stuck
<1>7. ASSUME NEW key \in Keys, NoteOff(key) PROVE Stuck' \subseteq Stuck
  <2>1. Held \subseteq Held' \cup {key}
    BY <1>7, HeldAfterRelease DEF NoteOff
  <2>2. NotesOf(keymap, Held, offset) \subseteq
          NotesOf(keymap, Held', offset) \cup Notes(keymap, key, offset)
    BY <2>1, NotesOfUnion
  <2>3. Stuck' = (sounding \ Notes(keymap, key, offset)) \ NotesOf(keymap, Held', offset)
    BY <1>7 DEF NoteOff, Stuck, NotesOf, Notes
  <2> QED BY <2>2, <2>3 DEF Stuck
<1> QED BY <1>2, <1>3, <1>4, <1>5, <1>6, <1>7 DEF Next, Process

\* No sequence of reports strands a note: while the layout stays, no step of
\* process_kbd_report or handle_key makes a note sound that no held key accounts for.
THEOREM OnlyKeymapStrands == Spec => OnlyKeymapStrandsNotes
<1>1. TypeOK /\ [Next]_vars => [keymap' = keymap => Stuck' \subseteq Stuck]_vars
  BY StuckStep
<1> QED BY <1>1, TypeCorrect, PTL DEF Spec, OnlyKeymapStrandsNotes

\* As long as the layout is the one the keytar was switched on with, only held keys sound,
\* and when all keys are up it is silent, whatever reports and octave keys came.
THEOREM OnlyHeldKeysSound ==
  Spec /\ [][UNCHANGED keymap]_vars =>
    [](sounding \subseteq NotesOf(keymap, Held, offset) /\ (Held = {} => sounding = {}))
<1>1. Init => Stuck = {}
  BY DEF Init, Stuck
<1>2. Stuck = {} /\ TypeOK /\ [Next]_vars /\ [UNCHANGED keymap]_vars => (Stuck = {})'
  <2> SUFFICES ASSUME Stuck = {}, TypeOK, [Next]_vars, [UNCHANGED keymap]_vars
               PROVE  Stuck' = {}
    OBVIOUS
  <2>1. keymap' = keymap
    BY DEF vars
  <2> QED BY <2>1, StuckStep
<1>3. Stuck = {} =>
        sounding \subseteq NotesOf(keymap, Held, offset) /\ (Held = {} => sounding = {})
  BY DEF Stuck, NotesOf
<1> QED BY <1>1, <1>2, <1>3, TypeCorrect, PTL DEF Spec

\* 35 - 24 is above 0 and 67 + 60 is 127: the two tests of the octave keys.
LEMMA SumIsDataByte ==
  \A raw \in 35..67, o \in {-24, -12, 0, 12, 24, 36, 48, 60} : (raw + o) % 256 \in 1..127
OBVIOUS

LEMMA NoteOfKey ==
  ASSUME NEW k \in Keymaps, NEW key \in Keys,
         NEW o \in {-24, -12, 0, 12, 24, 36, 48, 60}, NEW note \in Notes(k, key, o)
  PROVE  \E raw \in RawNotes[k][key] :
           /\ note = (raw + o) % 256
           /\ raw \in BottomNote..TopNote => note \in 1..127
<1>1. PICK raw \in RawNotes[k][key] : note = (raw + o) % 256
  BY DEF Notes
<1>2. raw \in BottomNote..TopNote => (raw + o) % 256 \in 1..127
  BY SumIsDataByte DEF BottomNote, TopNote
<1> QED BY <1>1, <1>2

LEMMA FollowInit == Init => NotesFollowOffset
BY DEF Init, NotesFollowOffset

LEMMA FollowStep == TypeOK /\ TypeOK' /\ NotesFollowOffset /\ [Next]_vars => NotesFollowOffset'
<1> SUFFICES ASSUME TypeOK, TypeOK', NotesFollowOffset, [Next]_vars,
                    NEW note \in sounding'
             PROVE  \E k \in Keymaps, key \in Keys : \E raw \in RawNotes[k][key] :
                      /\ note = (raw + offset') % 256
                      /\ raw \in BottomNote..TopNote => note \in 1..127
  BY DEF NotesFollowOffset
<1>1. CASE note \in sounding /\ offset' = offset
  BY <1>1 DEF NotesFollowOffset
<1>2. ASSUME NEW key \in Keys, note \in Notes(keymap, key, offset'), keymap \in Keymaps
      PROVE  \E k \in Keymaps, x \in Keys : \E raw \in RawNotes[k][x] :
               /\ note = (raw + offset') % 256
               /\ raw \in BottomNote..TopNote => note \in 1..127
  <2>1. offset' \in {-24, -12, 0, 12, 24, 36, 48, 60}
    BY DEF TypeOK
  <2> QED BY <1>2, <2>1, NoteOfKey
<1>3. keymap \in Keymaps
  BY DEF TypeOK
<1>4. ASSUME NEW key \in Keys, Transpose(key) \/ NoteOn(key)
      PROVE  note \in Notes(keymap, key, offset') \/ (note \in sounding /\ offset' = offset)
  BY <1>4 DEF Transpose, NoteOn
<1>5. CASE \A key \in Keys : ~Transpose(key) /\ ~NoteOn(key)
  <2>1. note \in sounding /\ offset' = offset
    BY <1>5 DEF Next, Process, Mount, Unplug, ReportReceived, SkipSlot, Navigate,
       SelectKeymap, NoteOff, Finish, vars
  <2> QED BY <1>1, <2>1
<1> QED BY <1>1, <1>2, <1>3, <1>4, <1>5

\* The transposition never moves under a sounding note, and the notes of a layout that
\* keeps to 35..67 are MIDI data bytes at every transposition the octave keys reach.
THEOREM OffsetFollowed == Spec => []NotesFollowOffset
BY FollowInit, FollowStep, TypeCorrect, PTL DEF Spec

\* The layouts are some of keymaps[], and what lookup_omnichord reads beyond the position
\* tables are int8_t.
RealLayouts ==
  /\ \A k \in Keymaps, key \in Keys : \E layout \in Layouts :
       RawNotes[k][key] = {Voicing(layout, key)[i] : i \in DOMAIN Voicing(layout, key)}
  /\ \A key \in Keys : key >= 128 => Stray[key] \in (-128..127) \X (-128..127)

LEMMA RawInReach ==
  ASSUME RealLayouts, NEW k \in Keymaps, NEW key \in Keys, NEW raw \in RawNotes[k][key]
  PROVE  \E layout \in Layouts : raw \in Reach(layout)
<1>1. PICK layout \in Layouts :
        RawNotes[k][key] = {Voicing(layout, key)[i] : i \in DOMAIN Voicing(layout, key)}
  BY DEF RealLayouts
<1>2. PositionRead(key)[1] \in Int /\ PositionRead(key)[2] \in Int
  <2>1. CASE key >= 128
    BY <2>1 DEF RealLayouts, PositionRead
  <2>2. CASE ~(key >= 128)
    <3>1. key \in 0..127
      BY <2>2, KeysAssumption
    <3>2. keycode2row[key] \in Int /\ keycode2column[key] \in Int
      BY <3>1, Positions
    <3> QED BY <2>2, <3>2 DEF PositionRead
  <2> QED BY <2>1, <2>2
<1>3. key \in 0..255
  BY KeysAssumption
<1>4. \A i \in DOMAIN Voicing(layout, key) : Voicing(layout, key)[i] \in Reach(layout)
  BY <1>2, <1>3, VoicingInReach
<1> QED BY <1>1, <1>4

\* The layouts of keymaps[] meet what is assumed of layouts, for every key code, also one
\* beyond the position tables, whatever lies there in memory: raw notes are from 1 to 255,
\* and neither the keys of the menu nor a rollover play anything.
THEOREM LayoutsMeetAssumptions ==
  ASSUME NEW layout \in Layouts, NEW key \in 0..255,
         key >= 128 => Stray[key] \in (-128..127) \X (-128..127)
  PROVE  /\ \A i \in DOMAIN Voicing(layout, key) : Voicing(layout, key)[i] \in 1..255
         /\ key \in NavigationKeys \cup {ErrorRollOver} => Voicing(layout, key) = << >>
<1>1. PositionRead(key)[1] \in Int /\ PositionRead(key)[2] \in Int
  <2>1. CASE key >= 128
    <3>1. PositionRead(key) = Stray[key]
      BY <2>1 DEF PositionRead
    <3> QED BY <2>1, <3>1
  <2>2. CASE key < 128
    <3>1. keycode2row[key] \in Int /\ keycode2column[key] \in Int
      BY <2>2, Positions
    <3> QED BY <2>2, <3>1 DEF PositionRead
  <2> QED BY <2>1, <2>2
<1>3. \A i \in DOMAIN Voicing(layout, key) : Voicing(layout, key)[i] \in Reach(layout)
  BY <1>1, VoicingInReach
<1>4. Reach(layout) \subseteq 1..255
  BY LayoutsAre DEF Reach
<1>5. ASSUME key \in NavigationKeys \cup {ErrorRollOver} PROVE Voicing(layout, key) = << >>
  <2>1. key \in 0..127 /\ keycode2row[key] = -1
    BY <1>5 DEF NavigationKeys, ErrorRollOver, SC_ENTER, SC_ESC, SC_BSPC, SC_RIGHT, SC_LEFT,
                SC_DOWN, SC_UP, keycode2row
  <2>2. CASE layout = "omnichord"
    <3>1. PositionRead(key)[1] = -1
      BY <2>1 DEF PositionRead
    <3> QED BY <2>2, <3>1 DEF Voicing
  <2>3. CASE layout # "omnichord"
    <3>1. /\ note_by_lut(key, piano_lut) = 0
          /\ \A o, c, r : note_by_pattern(key, o, c, r) = 0
      BY <2>1 DEF note_by_lut, note_by_pattern
    <3>2. SingleNote(layout, key) = 0
      BY <2>3, <3>1, LayoutsAre DEF SingleNote
    <3> QED BY <2>3, <3>2 DEF Voicing
  <2> QED BY <2>2, <2>3
<1>6. ASSUME NEW i \in DOMAIN Voicing(layout, key) PROVE Voicing(layout, key)[i] \in 1..255
  <2>1. Voicing(layout, key)[i] \in Reach(layout)
    BY <1>3
  <2> QED BY <1>4, <2>1
<1> QED BY <1>5, <1>6, Zenon

\* With the layouts of keymaps[], what sounds is a MIDI data byte and not 0 up to three
\* octaves above, and never beyond 144: the octave keys, which count with the range of one
\* layout (keyboard.c 62-67), let only the two highest transpositions leave the data bytes.
THEOREM SoundsDataBytes ==
  ASSUME RealLayouts
  PROVE  Spec => [](sounding \subseteq 4..144 /\ (offset <= 36 => sounding \subseteq 1..127))
<1>1. TypeOK /\ NotesFollowOffset =>
        sounding \subseteq 4..144 /\ (offset <= 36 => sounding \subseteq 1..127)
  <2> SUFFICES ASSUME TypeOK, NotesFollowOffset, NEW note \in sounding
               PROVE  note \in 4..144 /\ (offset <= 36 => note \in 1..127)
    OBVIOUS
  <2>1. PICK k \in Keymaps, key \in Keys : \E raw \in RawNotes[k][key] :
                                              note = (raw + offset) % 256
    BY DEF NotesFollowOffset
  <2>2. PICK raw \in RawNotes[k][key] : note = (raw + offset) % 256
    BY <2>1
  <2>3. PICK layout \in Layouts : raw \in Reach(layout)
    BY RawInReach
  <2>4. offset \in Transpositions
    BY DEF TypeOK, Transpositions
  <2>5. PICK sum : sum = raw + offset
    OBVIOUS
  <2>6. raw \in 28..84 /\ sum \in 4..144 /\ sum % 256 = sum
    BY <2>3, <2>4, <2>5, ReachTransposed
  <2>7. offset \in Int
    BY DEF TypeOK
  <2> QED BY <2>2, <2>5, <2>6, <2>7
<1> QED BY <1>1, TypeCorrect, OffsetFollowed, PTL

-------------------------------------------------------------------------------
(* The report loops implement Instrument. *)

LEMMA InstrumentNotes ==
  ASSUME NEW k, NEW key, NEW o
  PROVE  I!Notes(k, key, o) = Notes(k, key, o)
BY DEF I!Notes, Notes

LEMMA SilentNotes ==
  ASSUME NEW k \in Keymaps, NEW o, NEW key \in Keys,
         key \in NavigationKeys \/ key = ErrorRollOver
  PROVE  Notes(k, key, o) = {}
BY SilentKeysAssumption DEF Notes

LEMMA RefinesInit == Init => I!Init
<1> SUFFICES ASSUME Init PROVE I!Init
  OBVIOUS
<1>1. Held = {}
  BY KeysAssumption DEF Init, EmptyReport, Held
<1> QED BY <1>1 DEF Init, I!Init, Keymaps, I!Keymaps

LEMMA RefinesStep == Inv /\ Inv' /\ [Next]_vars => [I!Next]_I!vars
<1> SUFFICES ASSUME Inv, Inv', [Next]_vars PROVE [I!Next]_I!vars
  OBVIOUS
<1> USE DEF Inv
<1>1. CASE Mount \/ Unplug \/ Finish \/ UNCHANGED vars
           \/ \E report \in Report : ReportReceived(report)
  <2>1. Held' = Held
    BY <1>1, HeldIsKept
  <2> QED BY <1>1, <2>1 DEF Mount, Unplug, Finish, vars, ReportReceived, I!vars
<1>2. CASE SkipSlot
  <2>1. Held' = Held
    BY <1>2, HeldIsKeptBySkip
  <2> QED BY <1>2, <2>1 DEF SkipSlot, I!vars
<1>3. keymap \in Keymaps
  BY DEF TypeOK
<1>4. ASSUME NEW key \in Keys, Navigate(key) PROVE I!Press(key)
  <2>1. Held' = Held \cup {key}
    BY <1>4, HeldAfterPress DEF Navigate
  <2>2. key \notin Held
    BY <1>4, PressedIsUp DEF Navigate, NavigationKeys, ErrorRollOver, SC_ESC, SC_ENTER,
       SC_BSPC, SC_UP, SC_DOWN, SC_LEFT, SC_RIGHT
  <2>3. I!Notes(keymap, key, offset) = {}
    BY <1>3, <1>4, InstrumentNotes, SilentNotes DEF Navigate
  <2> QED BY <1>4, <2>1, <2>2, <2>3 DEF Navigate, I!Press
<1>5. ASSUME NEW key \in Keys, SelectKeymap(key) PROVE I!Next
  <2>1. Held' = Held \cup {key}
    BY <1>5, HeldAfterPress DEF SelectKeymap
  <2>2. key \notin Held
    BY <1>5, PressedIsUp DEF SelectKeymap, ErrorRollOver, SC_LEFT, SC_RIGHT
  <2>3. keymap' \in I!Keymaps
    BY DEF TypeOK, Keymaps, I!Keymaps
  <2>4. CASE key = SC_LEFT
    <3>1. keymap' = keymap + (-1)
      BY <1>5, <2>4 DEF SelectKeymap, SC_LEFT, SC_RIGHT, TypeOK, Keymaps
    <3>2. I!Switch(key, -1)
      BY <1>5, <2>1, <2>2, <2>3, <3>1 DEF SelectKeymap, I!Switch
    <3> QED BY <2>4, <3>2 DEF I!Next, I!SC_LEFT, SC_LEFT
  <2>5. CASE key = SC_RIGHT
    <3>1. keymap' = keymap + 1
      BY <1>5, <2>5 DEF SelectKeymap, SC_LEFT, SC_RIGHT
    <3>2. I!Switch(key, 1)
      BY <1>5, <2>1, <2>2, <2>3, <3>1 DEF SelectKeymap, I!Switch
    <3> QED BY <2>5, <3>2 DEF I!Next, I!SC_RIGHT, SC_RIGHT
  <2> QED BY <1>5, <2>4, <2>5 DEF SelectKeymap
<1>6. ASSUME NEW key \in Keys, Transpose(key) PROVE I!Next
  <2>1. Held' = Held \cup {key}
    BY <1>6, HeldAfterPress DEF Transpose
  <2>2. key \notin Held
    BY <1>6, PressedIsUp DEF Transpose, ShiftsUp, ShiftsDown, OctaveUpKey, OctaveDownKey,
       ErrorRollOver
  <2>3. offset' \in -24..60
    BY DEF TypeOK
  <2>4. sounding' = I!Notes(keymap, key, offset')
    BY <1>6, InstrumentNotes DEF Transpose
  <2>5. CASE key = OctaveUpKey
    <3>1. I!Shift(key, 12)
      BY <1>6, <2>1, <2>2, <2>3, <2>4, <2>5 DEF Transpose, NewOffset, I!Shift
    <3> QED BY <2>5, <3>1 DEF I!Next, I!OctaveUpKey, OctaveUpKey
  <2>6. CASE key = OctaveDownKey
    <3>1. offset' = offset + (-12)
      BY <1>6, <2>6 DEF Transpose, NewOffset, OctaveUpKey, OctaveDownKey, TypeOK
    <3>2. I!Shift(key, -12)
      BY <1>6, <2>1, <2>2, <2>3, <2>4, <3>1 DEF Transpose, I!Shift
    <3> QED BY <2>6, <3>2 DEF I!Next, I!OctaveDownKey, OctaveDownKey
  <2> QED BY <1>6, <2>5, <2>6 DEF Transpose, ShiftsUp, ShiftsDown
<1>7. ASSUME NEW key \in Keys, NoteOn(key) PROVE I!Press(key) \/ UNCHANGED I!vars
  <2>1. Held' = Held \cup {key}
    BY <1>7, HeldAfterPress DEF NoteOn
  <2>2. CASE key \notin Held
    BY <1>7, <2>1, <2>2, InstrumentNotes DEF NoteOn, I!Press
  <2>3. CASE key \in Held
    <3>1. Notes(keymap, key, offset) = {}
      BY <1>3, <1>7, <2>3, PressedIsUp, SilentNotes DEF NoteOn
    <3> QED BY <1>7, <2>1, <2>3, <3>1 DEF NoteOn, I!vars
  <2> QED BY <2>2, <2>3
<1>8. ASSUME NEW key \in Keys, NoteOff(key) PROVE I!Release(key) \/ UNCHANGED I!vars
  <2>1. key \in Held /\ Held \ {key} \subseteq Held' /\ Held' \subseteq Held
    BY <1>8, HeldAfterRelease DEF NoteOff
  <2>2. CASE key \notin Held'
    <3>1. Held' = Held \ {key}
      BY <2>1, <2>2
    <3> QED BY <1>8, <2>1, <3>1, InstrumentNotes DEF NoteOff, I!Release
  <2>3. CASE key \in Held'
    <3>1. Held' = Held
      BY <2>1, <2>3
    <3>2. Notes(keymap, key, offset) = {}
      BY <1>3, <1>8, <2>3, ReleasedIsUp, SilentNotes DEF NoteOff
    <3> QED BY <1>8, <3>1, <3>2 DEF NoteOff, I!vars
  <2> QED BY <2>2, <2>3
<1> QED BY <1>1, <1>2, <1>4, <1>5, <1>6, <1>7, <1>8 DEF Next, Process, I!Next

\* Between two reports and in the middle of one, the keytar behaves as the instrument
\* that is played key by key.
THEOREM Implementation == Spec => ImplementsInstrument
BY RefinesInit, RefinesStep, Invariance, PTL DEF Spec, I!Spec, ImplementsInstrument
===============================================================================
