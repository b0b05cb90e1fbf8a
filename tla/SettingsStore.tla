----------------------------- MODULE SettingsStore -----------------------------
(***************************************************************************)
(* What a user may expect of the configuration in flash: a start finds the  *)
(* settings of the last save. While a save is under way it may find none,   *)
(* and after a loss of power in a save each setting may be the old one, the *)
(* new one or the default, but never anything else.                         *)
(***************************************************************************)
CONSTANTS Keymaps, Modes, Addresses, Default

Settings == [keymap : Keymaps, mode : Modes, addr : Addresses]

VARIABLES
  on,       \* the keytar has been started
  found,    \* the settings that a start finds
  saving,   \* the settings that a save is about to store, a set of at most one
  current   \* the layout in use, and the remembered Bluetooth state

vars == <<on, found, saving, current>>

Init ==
  /\ on = FALSE
  /\ found \in Settings
  /\ saving = {}
  /\ current = Default

Start ==
  /\ ~on
  /\ on' = TRUE
  /\ current' = found
  /\ UNCHANGED <<found, saving>>

Choose ==
  /\ on /\ saving = {}
  /\ current' \in Settings
  /\ UNCHANGED <<on, found, saving>>

BeginSave ==
  /\ on /\ saving = {}
  /\ saving' = {current}
  /\ UNCHANGED <<on, found, current>>

Clear ==
  /\ saving # {}
  /\ found' = Default
  /\ UNCHANGED <<on, saving, current>>

Store ==
  /\ found' \in saving
  /\ saving' = {}
  /\ UNCHANGED <<on, current>>

\* One by one the settings of s are those of one of the candidates.
Blend(s, candidates) ==
  /\ \E c \in candidates : s.keymap = c.keymap
  /\ \E c \in candidates : s.mode = c.mode
  /\ \E c \in candidates : s.addr = c.addr

PowerLoss ==
  /\ on
  /\ on' = FALSE
  /\ saving' = {}
  /\ current' = Default
  /\ found' \in Settings
  /\ IF saving = {} THEN found' = found
                    ELSE Blend(found', {found, Default} \cup saving)

Next == Start \/ Choose \/ BeginSave \/ Clear \/ Store \/ PowerLoss

Spec == Init /\ [][Next]_vars
================================================================================
