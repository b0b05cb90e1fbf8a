------------------------------ MODULE Instrument ------------------------------
(***************************************************************************)
(* What the key handling promises, without reports: every key is pressed    *)
(* when it is up and released when it is down, a note key sounds its notes  *)
(* from the one to the other, an octave key silences everything and moves   *)
(* the whole instrument, and the layout changes to a neighbour.             *)
(***************************************************************************)
EXTENDS Layout

VARIABLES
  held,       \* the keys that are down, as far as they have been handled
  keymap,     \* the selected layout
  offset,     \* the transposition in semitones
  sounding    \* the notes on at the synthesizer

vars == <<held, keymap, offset, sounding>>

Init ==
  /\ held = {}
  /\ keymap \in Keymaps
  /\ offset = 0
  /\ sounding = {}

Press(key) ==
  /\ key \notin held
  /\ held' = held \cup {key}
  /\ sounding' = sounding \cup Notes(keymap, key, offset)
  /\ UNCHANGED <<keymap, offset>>

Release(key) ==
  /\ key \in held
  /\ held' = held \ {key}
  /\ sounding' = sounding \ Notes(keymap, key, offset)
  /\ UNCHANGED <<keymap, offset>>

Shift(key, octave) ==
  /\ key \notin held
  /\ held' = held \cup {key}
  /\ offset' = offset + octave
  /\ offset' \in -24..60
  /\ sounding' = Notes(keymap, key, offset')
  /\ UNCHANGED keymap

Switch(key, neighbour) ==
  /\ key \notin held
  /\ held' = held \cup {key}
  /\ keymap' = keymap + neighbour
  /\ keymap' \in Keymaps
  /\ UNCHANGED <<offset, sounding>>

Next == \E key \in Keys :
          \/ Press(key)
          \/ Release(key)
          \/ key = OctaveUpKey /\ Shift(key, 12)
          \/ key = OctaveDownKey /\ Shift(key, -12)
          \/ key = SC_RIGHT /\ Switch(key, 1)
          \/ key = SC_LEFT /\ Switch(key, -1)

Spec == Init /\ [][Next]_vars
===============================================================================
