------------------------------ MODULE MCKeyboard ------------------------------
(* Layouts of keymaps[] and a few keys: of the notes, two that play the same one  *)
(* on the piano (31 and 15: a 49) and one that plays its 67, the octave keys and  *)
(* keys of the menu. Two slots: a key can stay while the other one changes.       *)
(* MCMenuKeys are the keys of a second run with three slots and no octave keys,   *)
(* where the layout can go both ways and the keyboard can report a rollover.      *)
EXTENDS Keyboard, KeyPositions

MCStray == << >>

MCKeys == {15, 31, 48, OctaveUpKey, OctaveDownKey, SC_RIGHT}

MCMenuKeys == {15, SC_LEFT, SC_RIGHT, ErrorRollOver}

MCKeymaps == <<"piano", "omnichord">>

RawSet(k, key) ==
  LET notes == Voicing(MCKeymaps[k + 1], key)
  IN  {notes[i] : i \in DOMAIN notes}

MCRawNotes == [k \in 0..1 |-> [key \in MCKeys |-> RawSet(k, key)]]
MCMenuRawNotes == [k \in 0..1 |-> [key \in MCMenuKeys |-> RawSet(k, key)]]
===============================================================================
