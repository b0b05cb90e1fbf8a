---------------------------- MODULE KeyboardMatrix ----------------------------
(***************************************************************************)
(* keyboard_matrix.c with its state: the selected keymap and the static     *)
(* array that lookup_omnichord fills in place and hands to its caller.      *)
(* The array outlives the call, so a slot a call does not write still holds *)
(* what an earlier key left there; handle_key reads it up to the first 0.   *)
(* (The other layouts return a note and a 0 that is never overwritten.)     *)
(***************************************************************************)
EXTENDS KeyPositions

CONSTANTS Keys,          \* the key codes that are looked up
          MaxIndex       \* the largest index a stored configuration can ask for

Int8 == -128..127

ASSUME TablesAssumption ==
  /\ Keys \subseteq 0..255 /\ MaxIndex \in Nat
  /\ \A key \in Keys : key >= 128 => Stray[key] \in Int8 \X Int8

VARIABLES
  keymap,         \* the selected layout
  notes,          \* the static array of lookup_omnichord
  asked,          \* the layout and key of the latest lookup
  played          \* the raw notes handle_key read from the result of that lookup

vars == <<keymap, notes, asked, played>>

N_KEYMAPS == Len(keymaps)

Init ==
  /\ keymap = "piano"
  /\ notes = [i \in 0..4 |-> 0]
  /\ asked = <<"piano", 0>>
  /\ played = << >>

\* The minor chord without its end.
UnendedChordSlots(row, root) ==
  CASE row = 1 -> [notes EXCEPT ![0] = root, ![1] = root + 4, ![2] = root + 7,
                                ![3] = root + 10, ![4] = 0]
    [] row = 2 -> [notes EXCEPT ![0] = root, ![1] = root + 3, ![2] = root + 7]
    [] row = 3 -> [notes EXCEPT ![0] = root, ![1] = root + 4, ![2] = root + 7, ![3] = 0]
    [] OTHER   -> [notes EXCEPT ![0] = root, ![1] = 0]

\* The slots a call writes, by row: the code stores one terminating 0 per branch.
ChordSlots(row, root) ==
  CASE row = 1 -> [notes EXCEPT ![0] = root, ![1] = root + 4, ![2] = root + 7,
                                ![3] = root + 10, ![4] = 0]
    [] row = 2 -> [notes EXCEPT ![0] = root, ![1] = root + 3, ![2] = root + 7, ![3] = 0]
    [] row = 3 -> [notes EXCEPT ![0] = root, ![1] = root + 4, ![2] = root + 7, ![3] = 0]
    [] OTHER   -> [notes EXCEPT ![0] = root, ![1] = 0]

\* lookup_omnichord as a change of its array.
lookup_omnichord(key) ==
  LET row == PositionRead(key)[1]
      col == PositionRead(key)[2]
  IN  IF row < 0 \/ col < 0 THEN [notes EXCEPT ![0] = 0]
      ELSE ChordSlots(row, omnichord_root(col))

\* The loop of handle_key: the entries before the first 0.
UpToZero(array) ==
  LET end == CHOOSE i \in 0..4 : array[i] = 0 /\ \A j \in 0..(i - 1) : array[j] # 0
  IN  [i \in 1..end |-> array[i - 1]]

\* keymap_get()->lookup(key), read by handle_key before the next call.
Lookup(key) ==
  /\ asked' = <<keymap, key>>
  /\ IF keymap = "omnichord"
     THEN /\ notes' = lookup_omnichord(key)
          /\ played' = UpToZero(notes')
     ELSE /\ UNCHANGED notes
          /\ played' = LET note == SingleNote(keymap, key)
                       IN  IF note = 0 THEN << >> ELSE <<note>>
  /\ UNCHANGED keymap

\* The array entry after the last is NULL.
set_keymap_by_index_unguarded(index) ==
  /\ keymap' = IF index < N_KEYMAPS THEN keymaps[index + 1] ELSE "NULL"
  /\ UNCHANGED <<notes, asked, played>>

\* The Keymap item of the main menu, which hands over an entry of keymaps[], and
\* config_init, which hands over the stored index: one that is too large is ignored.
set_keymap_by_index(index) ==
  /\ index < N_KEYMAPS
  /\ keymap' = keymaps[index + 1]
  /\ UNCHANGED <<notes, asked, played>>

IgnoreIndex(index) ==
  /\ index >= N_KEYMAPS
  /\ UNCHANGED vars

Next == \/ \E key \in Keys : Lookup(key)
        \/ \E index \in 0..MaxIndex : set_keymap_by_index(index) \/ IgnoreIndex(index)

Spec == Init /\ [][Next]_vars

TypeOK ==
  /\ keymap \in {keymaps[i] : i \in 1..N_KEYMAPS}
  /\ notes \in [0..4 -> 0..255]
  /\ asked[2] \in Keys \cup {0}
  /\ Len(played) \in 0..4

-------------------------------------------------------------------------------
\* A key plays the chord of its row and column whatever chord an earlier key left in
\* the static array, and no key reads past the array: neither a shorter chord after
\* a longer one nor a change of layout in between leaks a slot (keyboard_matrix.c
\* 125-159, read by keyboard.c 89-96).
ChordMatchesKey == played = Voicing(asked[1], asked[2])

\* Every note of a chord fits a MIDI data byte with room for the transposition that
\* handle_key allows (67 is the top note it counts with), also for the key codes the
\* position tables do not cover, whose row and column are whatever follows them.
ChordInRange ==
  asked[1] = "omnichord" => \A i \in 1..Len(played) : played[i] \in 40..67

\* The octave keys count with notes from 35 to 67 (keyboard.c 62-67), which only three
\* layouts keep to at the top. What the keytar can play all the same: every note of every
\* key is a MIDI data byte and not 0 at every transposition that the octave keys reach,
\* but at the highest one, 60, in four layouts, and at 48 in wicki_hayden.
TransposedIsDataByte ==
  \A i \in 1..Len(played), offset \in {-24, -12, 0, 12, 24, 36, 48, 60} :
    \/ played[i] + offset \in 1..127
    \/ offset = 60 /\ asked[1] \in {"piano", "accordion_b", "wicki_hayden", "guitar"}
    \/ offset = 48 /\ asked[1] = "wicki_hayden"
===============================================================================
