-------------------------------- MODULE Layout --------------------------------
(***************************************************************************)
(* What the key handling needs to know of the layouts of keyboard_matrix.c: *)
(* the set of raw notes lookup() returns for every layout and key, and the  *)
(* MIDI notes handle_key makes of them by adding the transposition.         *)
(***************************************************************************)
EXTENDS Integers

CONSTANTS
  Keys,        \* USB key codes the keyboard can report; 0 is an empty slot
  N_KEYMAPS,   \* layouts, numbered from 0 as in keymaps[]
  RawNotes     \* RawNotes[keymap][key]: the notes of the key, before transposition

\* keyboard_scan_codes.h
SC_ENTER == 40
SC_ESC   == 41
SC_BSPC  == 42
SC_RIGHT == 79
SC_LEFT  == 80
SC_DOWN  == 81
SC_UP    == 82

NavigationKeys == {SC_ESC, SC_ENTER, SC_BSPC, SC_UP, SC_DOWN, SC_LEFT, SC_RIGHT}

OctaveUpKey   == 75
OctaveDownKey == 78

\* What a keyboard puts in all slots when more keys are down than it can report.
ErrorRollOver == 1

Keymaps == 0..(N_KEYMAPS - 1)

ASSUME KeysAssumption == Keys \subseteq 1..255

ASSUME KeymapsAssumption == N_KEYMAPS \in Nat \ {0}

ASSUME RawNotesAssumption == RawNotes \in [Keymaps -> [Keys -> SUBSET (1..255)]]

\* The keys that never play: handle_key looks their notes up on release all the same.
ASSUME SilentKeysAssumption ==
  \A keymap \in Keymaps, key \in Keys \cap (NavigationKeys \cup {ErrorRollOver}) :
    RawNotes[keymap][key] = {}

\* midi_note_on and midi_note_off take the sum as a uint8_t.
Notes(keymap, key, offset) == {(raw + offset) % 256 : raw \in RawNotes[keymap][key]}

NotesOf(keymap, keys, offset) == UNION {Notes(keymap, key, offset) : key \in keys}
===============================================================================
