--------------------------- MODULE KeyPositionsProofs ---------------------------
(***************************************************************************)
(* Lemmas about the layouts as functions of the key code: where the         *)
(* position tables put a key, and which notes a layout can reach from       *)
(* there. They hold for every key code, whatever stands behind the tables.  *)
(***************************************************************************)
EXTENDS KeyPositions, TLAPS

Layouts == {keymaps[i] : i \in 1..Len(keymaps)}

LEMMA LayoutsAre ==
  Layouts = {"piano", "accordion_c", "accordion_b", "6plus6", "wicki_hayden", "guitar",
             "omnichord"}
BY DEF Layouts, keymaps

-------------------------------------------------------------------------------
(* The tables *)

\* The four rows of keys count from the space bar, which has none; the two keys of column
\* 12 are in the upper rows.
LEMMA Positions ==
  \A k \in 0..127 :
    /\ keycode2row[k] \in {-1} \cup 1..4
    /\ keycode2column[k] \in -1..13
    /\ keycode2row[k] # -1 =>
         /\ keycode2column[k] <= 12
         /\ keycode2column[k] = 12 => keycode2row[k] >= 3
<1> DEFINE row4  == <<2, 1, 1, 2, 3, 2, 2, 2, 3, 2, 2, 2, 1, 1, 3, 3, 3, 3, 2, 3, 3, 1,
                      3, 1, 3, 1, 4, 4, 4, 4, 4, 4, 4, 4, 4, 4>>
           row46 == <<4, 3, 3, -1, 1, 2, 2, 4, 1, 1, 1>>
           col4  == <<1, 5, 3, 3, 3, 4, 5, 6, 8, 7, 8, 9, 7, 6, 9, 10, 1, 4, 2, 5, 7, 4,
                      2, 2, 6, 1, 1, 2, 3, 4, 5, 6, 7, 8, 9, 10>>
           col45 == <<11, 12, 11, 12, 13, 11, 10, 11, 0, 8, 9, 10>>
<1>1. \A i \in 1..36 : row4[i] \in 1..4 /\ col4[i] \in 1..10
  OBVIOUS
<1>2. \A i \in 1..11 :
        /\ row46[i] \in {-1} \cup 1..4 /\ col45[i + 1] \in 0..13
        /\ row46[i] # -1 => col45[i + 1] <= 12 /\ (col45[i + 1] = 12 => row46[i] >= 3)
  OBVIOUS
<1>3. col45[1] = 11
  OBVIOUS
<1> HIDE DEF row4, row46, col4, col45
<1>4. keycode2row = [k \in 0..127 |-> CASE k \in 4..39  -> row4[k - 3]
                                        [] k \in 46..56 -> row46[k - 45]
                                        [] k = 100      -> 1
                                        [] OTHER        -> -1]
  BY DEF keycode2row, row4, row46
<1>5. keycode2column = [k \in 0..127 |-> CASE k \in 4..39  -> col4[k - 3]
                                           [] k \in 45..56 -> col45[k - 44]
                                           [] OTHER        -> -1]
  BY DEF keycode2column, col4, col45
<1>6. TAKE k \in 0..127
<1>7. CASE k \in 4..39
  <2>1. k - 3 \in 1..36 /\ keycode2row[k] = row4[k - 3] /\ keycode2column[k] = col4[k - 3]
    BY <1>4, <1>5, <1>7
  <2> QED BY <2>1, <1>1
<1>8. CASE k \in 46..56
  <2>1. PICK i \in 1..11 : i = k - 45 /\ i + 1 = k - 44
    BY <1>8
  <2>2. keycode2row[k] = row46[i] /\ keycode2column[k] = col45[i + 1]
    BY <1>4, <1>5, <1>8, <2>1
  <2> QED BY <2>2, <1>2
<1>9. CASE k = 45
  <2>1. keycode2row[k] = -1 /\ keycode2column[k] = col45[1]
    BY <1>4, <1>5, <1>9
  <2> QED BY <2>1, <1>3
<1>10. CASE k \notin 4..39 /\ k \notin 45..56
  <2>1. keycode2column[k] = -1 /\ keycode2row[k] \in {-1, 1}
    BY <1>4, <1>5, <1>10
  <2> QED BY <2>1
<1> QED BY <1>7, <1>8, <1>9, <1>10

\* The piano's table holds notes from 36 to 69, and a 0 where a black key is missing.
LEMMA PianoTable == \A r \in 1..4, c \in 1..14 : piano_lut[r][c] \in {0} \cup 36..69
<1> DEFINE upper1 == <<0, 0, 49, 51, 0, 54, 56, 58, 61, 63, 0, 66, 68, 0>>
           upper2 == <<0, 48, 50, 52, 53, 55, 57, 59, 60, 62, 64, 65, 67, 69>>
           lower1 == <<0, 0, 37, 39, 0, 42, 44, 46, 0, 49, 51, 0, 0, 0>>
           lower2 == <<0, 36, 38, 40, 41, 43, 45, 47, 48, 50, 52, 0, 0, 0>>
<1>1. \A c \in 1..14 : upper1[c] \in {0} \cup 36..69 /\ upper2[c] \in {0} \cup 36..69
  OBVIOUS
<1>2. \A c \in 1..14 : lower1[c] \in {0} \cup 36..69 /\ lower2[c] \in {0} \cup 36..69
  OBVIOUS
<1> HIDE DEF upper1, upper2, lower1, lower2
<1>3. piano_lut = <<upper1, upper2, lower1, lower2>>
  BY DEF piano_lut, upper1, upper2, lower1, lower2
<1> QED BY <1>1, <1>2, <1>3

-------------------------------------------------------------------------------
(* The notes of the layouts *)

\* What a layout can reach; none of the code counts with it.
Reach(layout) ==
  CASE layout = "piano"        -> 36..69
    [] layout = "accordion_c"  -> 28..67
    [] layout = "accordion_b"  -> 34..73
    [] layout = "6plus6"       -> 28..55
    [] layout = "wicki_hayden" -> 32..84
    [] layout = "guitar"       -> 40..72
    [] layout = "omnichord"    -> 40..67

LEMMA ByteIsKept == \A x \in 0..255 : x % 256 = x
OBVIOUS

\* The note of a pattern layout at a row and a column.
PatternAt(row, col, offset, cs, rs) == (col * cs + row * rs + offset) % 256

\* The note is that of some row and column of the tables.
HasPosition(note, offset, cs, rs) ==
  \E row \in 1..4, col \in 0..12 :
    (col = 12 => row >= 3) /\ note = PatternAt(row, col, offset, cs, rs)

\* A pattern layout plays no other notes.
LEMMA PatternNote ==
  ASSUME NEW key \in 0..255, NEW offset, NEW cs, NEW rs
  PROVE  \/ note_by_pattern(key, offset, cs, rs) = 0
         \/ HasPosition(note_by_pattern(key, offset, cs, rs), offset, cs, rs)
<1>1. CASE key >= 128
  BY <1>1 DEF note_by_pattern
<1>2. CASE key < 128
  <2> DEFINE row == keycode2row[key]
             col == keycode2column[key]
  <2>1. CASE row < 0 \/ col < 0
    BY <1>2, <2>1 DEF note_by_pattern
  <2>2. CASE ~(row < 0 \/ col < 0)
    <3>1. key \in 0..127
      BY <1>2
    <3>2. /\ row \in {-1} \cup 1..4 /\ col \in -1..13
          /\ row # -1 => col <= 12 /\ (col = 12 => row >= 3)
      BY <3>1, Positions
    <3>3. row \in 1..4 /\ col \in 0..12 /\ (col = 12 => row >= 3)
      BY <2>2, <3>2
    <3>4. note_by_pattern(key, offset, cs, rs) = PatternAt(row, col, offset, cs, rs)
      BY <1>2, <2>2 DEF note_by_pattern, PatternAt
    <3> QED BY <3>3, <3>4 DEF HasPosition
  <2> QED BY <2>1, <2>2
<1> QED BY <1>1, <1>2

\* The lowest and the highest note of each pattern.
LEMMA PatternBounds ==
  ASSUME NEW note
  PROVE  /\ HasPosition(note, 36, 3, -2) => note \in 28..67
         /\ HasPosition(note, 38, 3, -1) => note \in 34..73
         /\ HasPosition(note, 32, 2, -1) => note \in 28..55
         /\ HasPosition(note, 32, 2, 7)  => note \in 32..84
         /\ HasPosition(note, 40, 1, 5)  => note \in 40..72
<1>1. HasPosition(note, 36, 3, -2) => note \in 28..67
  BY DEF HasPosition, PatternAt
<1>2. HasPosition(note, 38, 3, -1) => note \in 34..73
  BY DEF HasPosition, PatternAt
<1>3. HasPosition(note, 32, 2, -1) => note \in 28..55
  BY DEF HasPosition, PatternAt
<1>4. HasPosition(note, 32, 2, 7) => note \in 32..84
  BY DEF HasPosition, PatternAt
<1>5. HasPosition(note, 40, 1, 5) => note \in 40..72
  BY DEF HasPosition, PatternAt
<1> QED BY <1>1, <1>2, <1>3, <1>4, <1>5

LEMMA PianoNote ==
  ASSUME NEW key \in 0..255
  PROVE  note_by_lut(key, piano_lut) \in {0} \cup 36..69
<1>1. CASE key >= 128
  BY <1>1 DEF note_by_lut
<1>2. CASE key < 128
  <2> DEFINE row == keycode2row[key]
             col == keycode2column[key]
  <2>1. row \in {-1} \cup 1..4 /\ col \in -1..13
    BY <1>2, Positions
  <2>2. CASE row <= 0 \/ col < 0
    BY <1>2, <2>2 DEF note_by_lut
  <2>3. CASE ~(row <= 0 \/ col < 0)
    <3>1. 4 - row + 1 \in 1..4 /\ col + 1 \in 1..14
      BY <2>1, <2>3
    <3>2. note_by_lut(key, piano_lut) = piano_lut[4 - row + 1][col + 1]
      BY <1>2, <2>1, <2>3 DEF note_by_lut
    <3> QED BY <3>1, <3>2, PianoTable
  <2> QED BY <2>2, <2>3
<1> QED BY <1>1, <1>2

\* Of the layouts of single notes, none plays a note beyond its reach.
LEMMA SingleNoteInReach ==
  ASSUME NEW layout \in Layouts \ {"omnichord"}, NEW key \in 0..255
  PROVE  SingleNote(layout, key) \in {0} \cup Reach(layout)
<1>1. CASE layout = "piano"
  BY <1>1, PianoNote DEF SingleNote, Reach
<1>2. CASE layout = "accordion_c"
  <2> DEFINE note == note_by_pattern(key, 36, 3, -2)
  <2>1. note = 0 \/ HasPosition(note, 36, 3, -2)
    BY PatternNote
  <2>2. SingleNote(layout, key) = note
    BY <1>2 DEF SingleNote
  <2> HIDE DEF note
  <2> QED BY <1>2, <2>1, <2>2, PatternBounds DEF Reach
<1>3. CASE layout = "accordion_b"
  <2> DEFINE note == note_by_pattern(key, 38, 3, -1)
  <2>1. note = 0 \/ HasPosition(note, 38, 3, -1)
    BY PatternNote
  <2>2. SingleNote(layout, key) = note
    BY <1>3 DEF SingleNote
  <2> HIDE DEF note
  <2> QED BY <1>3, <2>1, <2>2, PatternBounds DEF Reach
<1>4. CASE layout = "6plus6"
  <2> DEFINE note == note_by_pattern(key, 32, 2, -1)
  <2>1. note = 0 \/ HasPosition(note, 32, 2, -1)
    BY PatternNote
  <2>2. SingleNote(layout, key) = note
    BY <1>4 DEF SingleNote
  <2> HIDE DEF note
  <2> QED BY <1>4, <2>1, <2>2, PatternBounds DEF Reach
<1>5. CASE layout = "wicki_hayden"
  <2> DEFINE note == note_by_pattern(key, 32, 2, 7)
  <2>1. note = 0 \/ HasPosition(note, 32, 2, 7)
    BY PatternNote
  <2>2. SingleNote(layout, key) = note
    BY <1>5 DEF SingleNote
  <2> HIDE DEF note
  <2> QED BY <1>5, <2>1, <2>2, PatternBounds DEF Reach
<1>6. CASE layout = "guitar"
  <2> DEFINE note == note_by_pattern(key, 40, 1, 5)
  <2>1. note = 0 \/ HasPosition(note, 40, 1, 5)
    BY PatternNote
  <2>2. SingleNote(layout, key) = note
    BY <1>6 DEF SingleNote
  <2> HIDE DEF note
  <2> QED BY <1>6, <2>1, <2>2, PatternBounds DEF Reach
<1> QED BY <1>1, <1>2, <1>3, <1>4, <1>5, <1>6, LayoutsAre

LEMMA RootInOctave ==
  ASSUME NEW col \in Int, col >= 0
  PROVE  omnichord_root(col) \in 40..51
<1>1. (col * 7) % 12 \in 0..11
  OBVIOUS
<1> QED BY <1>1 DEF omnichord_root

\* The chord layout keeps to its reach wherever a key is read to be.
LEMMA ChordInReach ==
  ASSUME NEW key, PositionRead(key)[1] \in Int, PositionRead(key)[2] \in Int
  PROVE  \A i \in DOMAIN Voicing("omnichord", key) :
           Voicing("omnichord", key)[i] \in Reach("omnichord")
<1> DEFINE row == PositionRead(key)[1]
           col == PositionRead(key)[2]
           on  == ChordIntervals(row)
           root == omnichord_root(col)
<1>1. CASE row < 0 \/ col < 0
  <2>1. Voicing("omnichord", key) = << >>
    BY <1>1 DEF Voicing
  <2> QED BY <2>1
<1>2. CASE ~(row < 0 \/ col < 0)
  <2>1. Voicing("omnichord", key) = [i \in 1..Len(on) |-> root + on[i]]
    BY <1>2 DEF Voicing
  <2>2. root \in 40..51
    BY <1>2, RootInOctave
  <2>3. \A i \in 1..Len(on) : on[i] \in 0..10
    BY DEF ChordIntervals
  <2> HIDE DEF on, root
  <2>4. ASSUME NEW x \in 0..10 PROVE root + x \in 40..67
    BY <2>2
  <2>5. \A i \in 1..Len(on) : root + on[i] \in 40..67
    BY <2>3, <2>4
  <2> QED BY <2>1, <2>5 DEF Reach
<1> QED BY <1>1, <1>2

\* No key plays a note beyond the reach of its layout.
LEMMA VoicingInReach ==
  ASSUME NEW layout \in Layouts, NEW key \in 0..255,
         PositionRead(key)[1] \in Int, PositionRead(key)[2] \in Int
  PROVE  \A i \in DOMAIN Voicing(layout, key) : Voicing(layout, key)[i] \in Reach(layout)
<1>1. CASE layout = "omnichord"
  BY <1>1, ChordInReach
<1>2. CASE layout # "omnichord"
  <2> DEFINE note == SingleNote(layout, key)
  <2>1. note \in {0} \cup Reach(layout)
    BY <1>2, SingleNoteInReach
  <2>2. Voicing(layout, key) = IF note = 0 THEN << >> ELSE <<note>>
    BY <1>2 DEF Voicing
  <2> HIDE DEF note
  <2> QED BY <2>1, <2>2
<1> QED BY <1>1, <1>2

\* The transpositions that the octave keys reach.
Transpositions == {-24, -12, 0, 12, 24, 36, 48, 60}

\* The transposed note is a MIDI data byte and not 0, but for the highest one of four layouts
\* and the next one of wicki_hayden.
FitsIn(layout, note, o) ==
  \/ note \in 1..127
  \/ o = 60 /\ layout \in {"piano", "accordion_b", "wicki_hayden", "guitar"}
  \/ o = 48 /\ layout = "wicki_hayden"

\* What a transposition makes of a note within a layout's reach.
LEMMA ReachTransposed ==
  ASSUME NEW layout \in Layouts, NEW raw \in Reach(layout),
         NEW o \in Transpositions, NEW note, note = raw + o
  PROVE  raw \in 28..84 /\ note \in 4..144 /\ note % 256 = note /\ FitsIn(layout, note, o)
<1>1. /\ layout = "piano"        => raw \in 36..69
      /\ layout = "accordion_c"  => raw \in 28..67
      /\ layout = "accordion_b"  => raw \in 34..73
      /\ layout = "6plus6"       => raw \in 28..55
      /\ layout = "wicki_hayden" => raw \in 32..84
      /\ layout = "guitar"       => raw \in 40..72
      /\ layout = "omnichord"    => raw \in 40..67
  BY DEF Reach
<1>2. raw \in 28..84
  BY <1>1, LayoutsAre
<1>3. note \in 4..144
  BY <1>2 DEF Transpositions
<1>4. note \in 0..255
  BY <1>3
<1>5. FitsIn(layout, note, o)
  BY <1>1, <1>3, LayoutsAre DEF FitsIn, Transpositions
<1> QED BY <1>2, <1>3, <1>4, <1>5, ByteIsKept
===============================================================================
