------------------------------- MODULE Keyboard -------------------------------
(***************************************************************************)
(* keyboard.c: the keyboard's boot reports, compared slot by slot with the  *)
(* previous one, become key presses and releases; handle_key turns those    *)
(* into notes, octave shifts and menu navigation. One step of the model is  *)
(* one slot of a loop of process_kbd_report: a Bluetooth interrupt can come *)
(* between any two of them, an USB callback cannot.                         *)
(* sounding is what a synthesizer on the UART makes of the messages: note   *)
(* on, note off, and the "all notes off" of midi_clear_notes.               *)
(***************************************************************************)
EXTENDS Layout

CONSTANT Slots  \* keys per report, 6 in the boot protocol

ASSUME SlotsAssumption == Slots \in Nat \ {0}

VARIABLES
  requested,           \* tuh_hid_receive_report is outstanding
  keyboard_connected,
  prev_report,
  new_report,
  step,                \* 0: idle; 1..Slots: the slot whose press is checked next;
                       \* Slots+1..2*Slots: the release; 2*Slots+1: both loops done
  keymap,              \* index of the selected layout in keymaps[]
  offset,
  sounding

usb == <<requested, keyboard_connected>>
reports == <<prev_report, new_report>>
vars == <<requested, keyboard_connected, prev_report, new_report, step, keymap, offset,
          sounding>>

Report == [1..Slots -> Keys \cup {0}]
EmptyReport == [i \in 1..Slots |-> 0]

\* The boot protocol lists a key once, unless it reports ErrorRollOver.
WellFormed(report) ==
  \A i, j \in 1..Slots :
    (i # j /\ report[i] = report[j]) => report[i] \in {0, ErrorRollOver}

find_key_in_report(report, key) == \E i \in 1..Slots : report[i] = key

Init ==
  /\ requested = FALSE
  /\ keyboard_connected = FALSE
  /\ prev_report = EmptyReport
  /\ new_report = EmptyReport
  /\ step = 0
  /\ keymap \in Keymaps            \* as config_init found it
  /\ offset = 0
  /\ sounding = {}

-------------------------------------------------------------------------------
(* USB events, from tuh_task. *)

\* tuh_hid_mount_cb for a keyboard.
Mount ==
  /\ step = 0
  /\ ~requested
  /\ requested' = TRUE
  /\ keyboard_connected' = TRUE
  /\ UNCHANGED <<reports, step, keymap, offset, sounding>>

\* There is no callback for it: no more reports come, nothing else changes.
Unplug ==
  /\ step = 0
  /\ requested
  /\ requested' = FALSE
  /\ UNCHANGED <<keyboard_connected, reports, step, keymap, offset, sounding>>

\* tuh_hid_report_received_cb calls process_kbd_report.
ReportReceived(report) ==
  /\ step = 0
  /\ requested
  /\ WellFormed(report)
  /\ requested' = FALSE
  /\ new_report' = report
  /\ step' = 1
  /\ UNCHANGED <<keyboard_connected, prev_report, keymap, offset, sounding>>

-------------------------------------------------------------------------------
(* process_kbd_report and handle_key *)

\* A press of a key that was down already, as by a loop without find_key_in_report.
PressedAgain(key) ==
  /\ step \in 1..Slots
  /\ key = new_report[step]
  /\ key # 0

\* The release loop ends one slot early.
ReleasedShort(key) ==
  /\ step \in (Slots + 1)..(2 * Slots - 1)
  /\ key = prev_report[step - Slots]
  /\ key # 0
  /\ ~find_key_in_report(new_report, key)

\* The key that a loop is about to hand to handle_key.
Pressed(key) ==
  /\ step \in 1..Slots
  /\ key = new_report[step]
  /\ key # 0
  /\ ~find_key_in_report(prev_report, key)

Released(key) ==
  /\ step \in (Slots + 1)..(2 * Slots)
  /\ key = prev_report[step - Slots]
  /\ key # 0
  /\ ~find_key_in_report(new_report, key)

\* The loops run one slot further than a report has.
SkipSlotBeyond ==
  /\ step \in 1..(2 * Slots + 1)
  /\ \A key \in Keys : ~Pressed(key) /\ ~Released(key)
  /\ step' = step + 1
  /\ UNCHANGED <<usb, reports, keymap, offset, sounding>>

\* A slot with no key in it, or with a key that was in the other report too.
SkipSlot ==
  /\ step \in 1..(2 * Slots)
  /\ \A key \in Keys : ~Pressed(key) /\ ~Released(key)
  /\ step' = step + 1
  /\ UNCHANGED <<usb, reports, keymap, offset, sounding>>

\* ui_navigate, whatever it opens or closes, unless it changes the layout.
Navigate(key) ==
  /\ Pressed(key)
  /\ key \in NavigationKeys
  /\ step' = step + 1
  /\ UNCHANGED <<usb, reports, keymap, offset, sounding>>

\* ui_navigate with the Keymap item of the main menu in focus: set_keymap. The
\* notes that sound go on sounding.
SelectKeymap(key) ==
  /\ Pressed(key)
  /\ \/ key = SC_LEFT  /\ keymap > 0             /\ keymap' = keymap - 1
     \/ key = SC_RIGHT /\ keymap < N_KEYMAPS - 1 /\ keymap' = keymap + 1
  /\ step' = step + 1
  /\ UNCHANGED <<usb, reports, offset, sounding>>

\* The range that handle_key counts with is that of a layout from 35 to 67.
BottomNote == 35
TopNote    == 67

ShiftsUp(key)   == key = OctaveUpKey /\ TopNote + offset + 12 <= 127
ShiftsDown(key) == key = OctaveDownKey /\ BottomNote + offset - 12 > 0

NewOffset(key) == IF key = OctaveUpKey THEN offset + 12 ELSE offset - 12

\* An octave key that does not call midi_clear_notes.
TransposeSounding(key) ==
  /\ Pressed(key)
  /\ ShiftsUp(key) \/ ShiftsDown(key)
  /\ offset' = NewOffset(key)
  /\ sounding' = sounding \cup Notes(keymap, key, offset')
  /\ step' = step + 1
  /\ UNCHANGED <<usb, reports, keymap>>

\* The two octave keys: midi_clear_notes, then the notes of the key itself.
Transpose(key) ==
  /\ Pressed(key)
  /\ ShiftsUp(key) \/ ShiftsDown(key)
  /\ offset' = NewOffset(key)
  /\ sounding' = Notes(keymap, key, offset')
  /\ step' = step + 1
  /\ UNCHANGED <<usb, reports, keymap>>

NoteOn(key) ==
  /\ Pressed(key)
  /\ key \notin NavigationKeys
  /\ ~ShiftsUp(key) /\ ~ShiftsDown(key)
  /\ sounding' = sounding \cup Notes(keymap, key, offset)
  /\ step' = step + 1
  /\ UNCHANGED <<usb, reports, keymap, offset>>

\* A release looks the notes up for every key, in the layout of the moment.
NoteOff(key) ==
  /\ Released(key)
  /\ sounding' = sounding \ Notes(keymap, key, offset)
  /\ step' = step + 1
  /\ UNCHANGED <<usb, reports, keymap, offset>>

\* The callback does not ask for the next report.
FinishDeaf ==
  /\ step = 2 * Slots + 1
  /\ prev_report' = new_report
  /\ step' = 0
  /\ new_report' = EmptyReport
  /\ UNCHANGED <<requested, keyboard_connected, keymap, offset, sounding>>

\* prev_report = *p_new_report, and the callback asks for the next report.
Finish ==
  /\ step = 2 * Slots + 1
  /\ prev_report' = new_report
  /\ step' = 0
  /\ new_report' = EmptyReport     \* the buffer is not read again
  /\ requested' = TRUE
  /\ UNCHANGED <<keyboard_connected, keymap, offset, sounding>>

-------------------------------------------------------------------------------
Process ==
  \/ SkipSlot
  \/ \E key \in Keys : Navigate(key) \/ SelectKeymap(key) \/ Transpose(key)
                       \/ NoteOn(key) \/ NoteOff(key)
  \/ Finish

Next ==
  \/ Mount
  \/ Unplug
  \/ \E report \in Report : ReportReceived(report)
  \/ Process

Spec == Init /\ [][Next]_vars

\* main() comes back to tuh_task, and process_kbd_report has no loop that waits.
FairSpec == Spec /\ WF_vars(Process)
-------------------------------------------------------------------------------
(* Properties *)

TypeOK ==
  /\ requested \in BOOLEAN
  /\ keyboard_connected \in BOOLEAN
  /\ prev_report \in Report
  /\ new_report \in Report
  /\ step \in 0..(2 * Slots + 1)
  /\ keymap \in Keymaps
  /\ offset \in {-24, -12, 0, 12, 24, 36, 48, 60}
  /\ sounding \subseteq 0..255

\* The keys that are down as far as handle_key has been told: of the previous report
\* those the release loop has not come to, of the new one those the press loop has
\* passed.
Held ==
  {key \in Keys :
     \/ \E i \in 1..Slots : /\ prev_report[i] = key
                            /\ \/ step <= Slots + i
                               \/ find_key_in_report(new_report, key)
     \/ \E i \in 1..Slots : new_report[i] = key /\ i < step}

\* The notes that no held key accounts for: nothing but an octave key ends them.
Stuck == sounding \ NotesOf(keymap, Held, offset)

\* No sequence of reports leaves a note on that belongs to no held key, as long as
\* the layout stays: every press is matched by a release that names the same notes,
\* octave keys pressed while notes are held included. (A change of the layout while
\* notes are held strands them: set_keymap sends nothing.)
OnlyKeymapStrandsNotes == [][keymap' = keymap => Stuck' \subseteq Stuck]_vars

\* The transposition never moves under a sounding note: each is the note of some key
\* at the present offset, the one a later release will compute. And for keys in the
\* range that handle_key counts with, 35 to 67, it is a MIDI data byte and not 0.
NotesFollowOffset ==
  \A note \in sounding :
    \E k \in Keymaps, key \in Keys : \E raw \in RawNotes[k][key] :
      /\ note = (raw + offset) % 256
      /\ raw \in BottomNote..TopNote => note \in 1..127

\* The report loops implement the instrument without reports: each key of each
\* report is handed on once, a press only of a key that is up, a release only of one
\* that is down, and nothing happens between presses and releases.
I == INSTANCE Instrument WITH held <- Held
ImplementsInstrument == I!Spec

\* A report that was received is worked off and the next one is asked for: a callback
\* that does not ask again never hears of the keyboard again. (If ui_navigate returns: a
\* key in an empty Connect menu calls through an item that is not there, menu.c 43.)
KeepsListening == (step # 0) ~> requested
===============================================================================
