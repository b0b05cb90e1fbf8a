----------------------------- MODULE KeyPositions -----------------------------
(***************************************************************************)
(* The layouts of the keytar as pure functions: the position tables of      *)
(* key_positions.h and the lookup functions of keyboard_matrix.c, from a    *)
(* USB key code to the sequence of raw notes that handle_key plays (before  *)
(* it adds the transposition).                                              *)
(***************************************************************************)
EXTENDS Integers, Sequences

CONSTANT Stray  \* what lookup_omnichord reads beyond the two position tables:
                \* a function from codes of 128 and more to <<row, column>>

\* From 4 on a..z and 1..0, from 45 on - = [ ] \ # ; ' ` , . /; 100 is the key beside the
\* left shift.
keycode2row ==
  LET from4  == <<2, 1, 1, 2, 3, 2, 2, 2, 3, 2, 2, 2, 1, 1, 3, 3, 3, 3, 2, 3, 3, 1, 3,
                  1, 3, 1, 4, 4, 4, 4, 4, 4, 4, 4, 4, 4>>
      from46 == <<4, 3, 3, -1, 1, 2, 2, 4, 1, 1, 1>>
  IN  [k \in 0..127 |-> CASE k \in 4..39  -> from4[k - 3]
                          [] k \in 46..56 -> from46[k - 45]
                          [] k = 100      -> 1
                          [] OTHER        -> -1]

keycode2column ==
  LET from4  == <<1, 5, 3, 3, 3, 4, 5, 6, 8, 7, 8, 9, 7, 6, 9, 10, 1, 4, 2, 5, 7, 4, 2,
                  2, 6, 1, 1, 2, 3, 4, 5, 6, 7, 8, 9, 10>>
      from45 == <<11, 12, 11, 12, 13, 11, 10, 11, 0, 8, 9, 10>>
  IN  [k \in 0..127 |-> CASE k \in 4..39  -> from4[k - 3]
                          [] k \in 45..56 -> from45[k - 44]
                          [] OTHER        -> -1]

piano_lut ==
  << <<0, 0, 49, 51, 0, 54, 56, 58, 61, 63, 0, 66, 68, 0>>,
     <<0, 48, 50, 52, 53, 55, 57, 59, 60, 62, 64, 65, 67, 69>>,
     <<0, 0, 37, 39, 0, 42, 44, 46, 0, 49, 51, 0, 0, 0>>,
     <<0, 36, 38, 40, 41, 43, 45, 47, 48, 50, 52, 0, 0, 0>> >>

note_by_lut(key, lut) ==
  IF key >= 128 THEN 0
  ELSE LET row == keycode2row[key]
           col == keycode2column[key]
       IN  IF row <= 0 \/ col < 0 \/ row > 4 \/ col >= 14 THEN 0
           ELSE lut[4 - row + 1][col + 1]

\* The two steps swapped.
note_by_pattern_swapped(key, offset, col_step, row_step) ==
  IF key >= 128 THEN 0
  ELSE LET row == keycode2row[key]
           col == keycode2column[key]
       IN  IF row < 0 \/ col < 0 THEN 0
           ELSE (col * row_step + row * col_step + offset) % 256

\* The result is a uint8_t.
note_by_pattern(key, offset, col_step, row_step) ==
  IF key >= 128 THEN 0
  ELSE LET row == keycode2row[key]
           col == keycode2column[key]
       IN  IF row < 0 \/ col < 0 THEN 0
           ELSE (col * col_step + row * row_step + offset) % 256

\* What lookup_omnichord reads of the tables: it has no test for key >= 128.
PositionRead(key) ==
  IF key >= 128 THEN Stray[key] ELSE <<keycode2row[key], keycode2column[key]>>

\* The circle of fifths without its way back into the octave.
omnichord_root_unreduced(col) == (40 + col * 7) % 256

omnichord_root(col) == 40 + ((col * 7) % 12)

\* keymaps[], by name and in the order of the array.
keymaps == <<"piano", "accordion_c", "accordion_b", "6plus6", "wicki_hayden",
             "guitar", "omnichord">>

\* The one note of the six layouts that play single notes (0: the key has none).
SingleNote(keymap, key) ==
  CASE keymap = "piano"        -> note_by_lut(key, piano_lut)
    [] keymap = "accordion_c"  -> note_by_pattern(key, 36, 3, -2)
    [] keymap = "accordion_b"  -> note_by_pattern(key, 38, 3, -1)
    [] keymap = "6plus6"       -> note_by_pattern(key, 32, 2, -1)
    [] keymap = "wicki_hayden" -> note_by_pattern(key, 32, 2, 7)
    [] keymap = "guitar"       -> note_by_pattern(key, 40, 1, 5)

\* Reference for the chord layout: the intervals of a row over the root of a column.
ChordIntervals(row) ==
  CASE row = 1   -> <<0, 4, 7, 10>>
    [] row = 2   -> <<0, 3, 7>>
    [] row = 3   -> <<0, 4, 7>>
    [] OTHER     -> <<0>>

\* Reference: what a key plays in a layout, whatever was looked up before.
Voicing(keymap, key) ==
  IF keymap = "omnichord"
  THEN LET row == PositionRead(key)[1]
           col == PositionRead(key)[2]
           on  == ChordIntervals(row)
       IN  IF row < 0 \/ col < 0 THEN << >>
           ELSE [i \in 1..Len(on) |-> omnichord_root(col) + on[i]]
  ELSE LET note == SingleNote(keymap, key)
       IN  IF note = 0 THEN << >> ELSE <<note>>
===============================================================================
