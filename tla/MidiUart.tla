------------------------------- MODULE MidiUart -------------------------------
(***************************************************************************)
(* midi_uart.c under midi.c and midi_value.c, byte by byte: what a          *)
(* synthesizer on the UART makes of messages that the main loop writes, for *)
(* values that the cache finds changed, while a Bluetooth interrupt writes  *)
(* all controller values (midi_value_send_all) between two of their bytes.  *)
(*                                                                          *)
(* The interrupt runs to its end. Of Bluetooth there is what becomes of a   *)
(* write, for send() fails with it. The synthesizer keeps running status,   *)
(* as the MIDI standard asks: data bytes without a status byte belong to    *)
(* the status before.                                                       *)
(***************************************************************************)
EXTENDS Integers, Sequences

CONSTANTS
  Notes,        \* notes that the keyboard sends
  Settings,     \* per value, what it is set to
  Unreliable    \* values whose Bluetooth writes may fail: in the code, any

CMD_NOTE_ON == 144
CMD_NOTE_OFF == 128
CMD_CC == 176
CMD_PITCHBEND == 224
CONTROL_ALL_NOTES_OFF_B1 == 123
CONTROL_ALL_NOTES_OFF_B2 == 0
CONTROL_SUSTAIN == 64
CC_MODULATION == 1
CC_SOUND_CONTROLLER_3_RELEASE == 72
CC_SOUND_CONTROLLER_4_ATTACK == 73
CC_SOUND_CONTROLLER_6_DECAY == 75
CC_SOUND_CONTROLLER_7_SUSTAIN == 76
MAX_VELOCITY == 127

\* The pitch bend last.
midi_values_bend_last ==
  <<CC_MODULATION, CC_SOUND_CONTROLLER_4_ATTACK, CC_SOUND_CONTROLLER_6_DECAY,
    CC_SOUND_CONTROLLER_7_SUSTAIN, CC_SOUND_CONTROLLER_3_RELEASE, CMD_PITCHBEND>>

\* By controller number; the pitch bend, which has none, by its status byte.
midi_values ==
  <<CMD_PITCHBEND, CC_MODULATION, CC_SOUND_CONTROLLER_4_ATTACK,
    CC_SOUND_CONTROLLER_6_DECAY, CC_SOUND_CONTROLLER_7_SUSTAIN,
    CC_SOUND_CONTROLLER_3_RELEASE>>

N_VALUES == 6

Values == {midi_values[i] : i \in 1..N_VALUES}

\* What the synthesizer can be made to change, values or not: the damper pedal is none.
Controls == Values \cup {CONTROL_SUSTAIN}

max_value == [v \in Values |-> IF v = CMD_PITCHBEND THEN 16383 ELSE 127]

\* The highest note of a layout, 84, and the highest offset, 60: a note above 127 is
\* no data byte, but the status byte of a note message.
ASSUME NotesAssumption == Notes \subseteq 0..144

ASSUME SettingsAssumption ==
  DOMAIN Settings = Values /\ \A v \in Values : Settings[v] \subseteq 0..max_value[v]

ASSUME UnreliableAssumption == Unreliable \subseteq Values

NoByte == -1
NULL == -1

VARIABLES
  midi_uart_initialized,
  value, sent_value, force_send,   \* the fields of each midi_value
  pc, mv,                 \* main loop: next step; the value midi_value_sync is at, NULL
                          \* while it is not
  msg, i,                 \* midi_uart_write on the main loop: msg, empty when it does not
                          \* run, and the loop's i
  all, alli,              \* in an interrupt: the value that midi_value_send_all is at, 0
                          \* when it does not run; and the i of its midi_uart_write
  status, first,          \* synthesizer: running status, and the first data byte
  sounding, control,      \* its notes and controllers
  meant,                  \* the notes that should sound
  torn,                   \* bytes of msg before the last interrupt in it
  lost, spoiled,          \* see Finish
  failed                  \* values whose latest message send() reported as failed

acks    == <<sent_value, force_send>>
line    == <<msg, i, all, alli>>
synth   == <<status, first, sounding, control>>
history == <<meant, torn, lost, spoiled, failed>>
vars    == <<midi_uart_initialized, value, acks, pc, mv, line, synth, history>>

Init ==
  /\ midi_uart_initialized \in BOOLEAN
  /\ value = [v \in Values |-> IF v = CMD_PITCHBEND THEN 8192 ELSE 0]
  /\ sent_value = value /\ force_send = [v \in Values |-> TRUE]
  /\ pc = "idle" /\ mv = NULL
  /\ msg = << >> /\ i = 0
  /\ all = 0 /\ alli = 0
  /\ status = NoByte /\ first = NoByte
  /\ sounding = {}
  /\ control = [c \in Controls |-> NoByte]
  /\ meant = {} /\ torn = 0 /\ lost = {} /\ spoiled = {} /\ failed = {}

-------------------------------------------------------------------------------
(* The synthesizer *)

IsStatus(byte) == byte >= 128

\* A message is complete with its second data byte.
Complete(byte) == ~IsStatus(byte) /\ first # NoByte

Hear(byte) ==
  /\ status' = IF IsStatus(byte) THEN byte ELSE status
  /\ first' = IF IsStatus(byte) \/ Complete(byte) THEN NoByte ELSE byte
  /\ sounding' = IF ~Complete(byte) THEN sounding
                 ELSE CASE status = CMD_NOTE_ON  -> sounding \cup {first}
                        [] status = CMD_NOTE_OFF -> sounding \ {first}
                        [] status = CMD_CC /\ first = CONTROL_ALL_NOTES_OFF_B1 -> {}
                        [] OTHER -> sounding
  /\ control' = IF ~Complete(byte) THEN control
                ELSE CASE status = CMD_CC /\ first \in Controls ->
                            [control EXCEPT ![first] = byte]
                       [] status = CMD_PITCHBEND ->
                            [control EXCEPT ![CMD_PITCHBEND] = 128 * byte + first]
                       [] OTHER -> control

-------------------------------------------------------------------------------
(* midi.c: the messages *)

Idle == pc = "idle" /\ all = 0

\* notes should sound after the message. midi_uart_write refuses it if there is no UART,
\* and then send() fails whatever Bluetooth does.
Send(message, notes) ==
  /\ IF midi_uart_initialized
     THEN msg' = message /\ meant' = notes /\ pc' = "write" /\ UNCHANGED mv
     ELSE pc' = "idle" /\ mv' = NULL /\ UNCHANGED <<msg, meant>>
  /\ UNCHANGED <<midi_uart_initialized, value, acks, i, all, alli, synth, torn, lost,
                 spoiled, failed>>

midi_note_on(note) ==
  Idle /\ Send(<<CMD_NOTE_ON, note, MAX_VELOCITY>>, meant \cup {note})

midi_note_off(note) ==
  Idle /\ Send(<<CMD_NOTE_OFF, note, MAX_VELOCITY>>, meant \ {note})

\* The two data bytes swapped.
clear_notes_swapped ==
  Idle /\ Send(<<CMD_CC, CONTROL_ALL_NOTES_OFF_B2, CONTROL_ALL_NOTES_OFF_B1>>, {})

midi_clear_notes ==
  Idle /\ Send(<<CMD_CC, CONTROL_ALL_NOTES_OFF_B1, CONTROL_ALL_NOTES_OFF_B2>>, {})

\* The low byte with all its bits.
low_unmasked(x) == x % 256

low(x) == x % 128
high(x) == (x \div 128) % 128

ValueMessage(v, x) ==
  IF v = CMD_PITCHBEND THEN <<CMD_PITCHBEND, low(x), high(x)>> ELSE <<CMD_CC, v, x>>

-------------------------------------------------------------------------------
(* midi_value_set and midi_value_sync on the main loop *)

midi_value_set(v, x) ==
  /\ Idle
  /\ value' = [value EXCEPT ![v] = x]
  /\ pc' = "check" /\ mv' = v
  /\ UNCHANGED <<midi_uart_initialized, acks, line, synth, history>>

Clean(v) == ~force_send[v] /\ value[v] = sent_value[v]

SyncClean ==
  /\ pc = "check" /\ all = 0
  /\ Clean(mv)
  /\ pc' = "idle" /\ mv' = NULL
  /\ UNCHANGED <<midi_uart_initialized, value, acks, line, synth, history>>

SyncDirty ==
  /\ pc = "check" /\ all = 0
  /\ ~Clean(mv)
  /\ Send(ValueMessage(mv, value[mv]), meant)

\* send() after the UART: the Bluetooth writes succeed, or there is none to write to.
SendOk ==
  /\ pc = "bluetooth" /\ all = 0
  /\ failed' = failed \ {mv}
  /\ pc' = "ack"
  /\ UNCHANGED <<midi_uart_initialized, value, acks, mv, line, synth, meant, torn, lost,
                 spoiled>>

\* A write fails; an interrupt may have sent the value with success in the meantime.
SendFailed ==
  /\ pc = "bluetooth" /\ all = 0
  /\ mv \in Unreliable
  /\ failed' = IF Clean(mv) THEN failed ELSE failed \cup {mv}
  /\ pc' = "idle" /\ mv' = NULL
  /\ UNCHANGED <<midi_uart_initialized, value, acks, line, synth, meant, torn, lost,
                 spoiled>>

ClearForce ==
  /\ pc = "ack" /\ all = 0
  /\ force_send' = [force_send EXCEPT ![mv] = FALSE]
  /\ pc' = "store"
  /\ UNCHANGED <<midi_uart_initialized, value, sent_value, mv, line, synth, history>>

StoreSent ==
  /\ pc = "store" /\ all = 0
  /\ sent_value' = [sent_value EXCEPT ![mv] = value[mv]]
  /\ pc' = "idle" /\ mv' = NULL
  /\ UNCHANGED <<midi_uart_initialized, value, force_send, line, synth, history>>

-------------------------------------------------------------------------------
(* midi_uart_write on the main loop *)

\* What becomes of the notes and controllers that should be heard, when the last byte of
\* msg is written. torn = 0: the message is whole. torn = 2: it is gone, which loses a
\* note, or all of them for all notes off; but not a controller, whose value the
\* interrupt has sent. torn = 1: the data bytes pass for those of the last message of the
\* interrupt, a control change; a control change is whole again, a note is lost and its
\* number taken for a controller's, and so is the low byte of a pitch bend. A note above
\* 127 is lost in any case: its number passes for a status byte, and the velocity is left
\* without a second data byte until the status byte of the next message.
IsNote == msg[1] \in {CMD_NOTE_ON, CMD_NOTE_OFF}
IsClear == msg[1] = CMD_CC /\ msg[2] = CONTROL_ALL_NOTES_OFF_B1
TakenForControl == torn = 1 /\ msg[1] # CMD_CC

Finish ==
  /\ lost' = (IF torn = 0 /\ IsNote THEN lost \ {msg[2]}
              ELSE IF torn # 2 /\ IsClear THEN {} ELSE lost)
             \cup (IF IsNote /\ (torn # 0 \/ IsStatus(msg[2])) THEN {msg[2]} ELSE {})
             \cup (IF torn = 2 /\ IsClear THEN sounding ELSE {})
             \cup (IF TakenForControl /\ msg[2] = CONTROL_ALL_NOTES_OFF_B1
                   THEN meant ELSE {})
  /\ spoiled' = CASE torn # 2 /\ msg[1] = CMD_CC -> spoiled \ {msg[2]}
                  [] torn = 0 /\ msg[1] = CMD_PITCHBEND -> spoiled \ {CMD_PITCHBEND}
                  [] TakenForControl -> spoiled \cup ({msg[2]} \cap Controls)
                  [] OTHER -> spoiled
  /\ msg' = << >> /\ i' = 0 /\ torn' = 0 /\ UNCHANGED <<meant, failed>>
  /\ pc' = IF mv = NULL THEN "idle" ELSE "bluetooth"

uart_putc ==
  /\ pc = "write" /\ all = 0
  /\ Hear(msg[i + 1])
  /\ IF i = 2 THEN Finish ELSE i' = i + 1 /\ UNCHANGED <<msg, pc, history>>
  /\ UNCHANGED <<midi_uart_initialized, value, acks, mv, all, alli>>

-------------------------------------------------------------------------------
(* midi_value_send_all in an interrupt *)

Interrupt ==
  /\ midi_uart_initialized
  /\ all = 0
  /\ all' = 1 /\ alli' = 0
  /\ torn' = i
  /\ UNCHANGED <<midi_uart_initialized, value, acks, pc, mv, msg, i, synth, meant, lost,
                 spoiled, failed>>

\* midi_value_sync of a value with force_send, after the UART.
Acknowledged(v) ==
  /\ sent_value' = [sent_value EXCEPT ![v] = value[v]]
  /\ force_send' = [force_send EXCEPT ![v] = FALSE]
  /\ failed' = failed \ {v}

NotAcknowledged(v) ==
  /\ v \in Unreliable
  /\ force_send' = [force_send EXCEPT ![v] = TRUE]
  /\ UNCHANGED <<sent_value, failed>>

InterruptPutc ==
  /\ all # 0
  /\ LET v == midi_values[all]
     IN  /\ Hear(ValueMessage(v, value[v])[alli + 1])
         /\ IF alli = 2
            THEN /\ all' = IF all = N_VALUES THEN 0 ELSE all + 1
                 /\ alli' = 0
                 /\ spoiled' = spoiled \ {v}
                 /\ Acknowledged(v) \/ NotAcknowledged(v)
            ELSE /\ alli' = alli + 1
                 /\ UNCHANGED <<all, spoiled, acks, failed>>
  /\ UNCHANGED <<midi_uart_initialized, value, pc, mv, msg, i, meant, torn, lost>>

Next == \/ \E note \in Notes : midi_note_on(note) \/ midi_note_off(note)
        \/ midi_clear_notes
        \/ \E v \in Values : \E x \in Settings[v] : midi_value_set(v, x)
        \/ SyncClean \/ SyncDirty
        \/ uart_putc
        \/ SendOk \/ SendFailed \/ ClearForce \/ StoreSent
        \/ Interrupt \/ InterruptPutc

Spec == Init /\ [][Next]_vars
-------------------------------------------------------------------------------
(* Properties *)

StatusBytes == {CMD_NOTE_ON, CMD_NOTE_OFF, CMD_CC, CMD_PITCHBEND}

TypeOK ==
  /\ midi_uart_initialized \in BOOLEAN
  /\ value \in [Values -> Nat] /\ \A v \in Values : value[v] <= max_value[v]
  /\ sent_value \in [Values -> Nat] /\ force_send \in [Values -> BOOLEAN]
  /\ pc \in {"idle", "check", "write", "bluetooth", "ack", "store"}
  /\ mv \in Values \cup {NULL}
  /\ msg \in {<< >>} \cup (StatusBytes \X (0..144) \X (0..127)) /\ i \in 0..2
  /\ all \in 0..N_VALUES /\ alli \in 0..2
  /\ status \in StatusBytes \cup (128..144) \cup {NoByte} /\ first \in 0..127 \cup {NoByte}
  /\ sounding \subseteq Notes
  /\ control \in [Controls -> Nat \cup {NoByte}]
  /\ meant \subseteq Notes /\ torn \in 0..2
  /\ lost \subseteq Notes /\ spoiled \subseteq Controls
  /\ failed \subseteq Values

\* Between messages the notes that sound are those that the keyboard turned on and not
\* off, wherever interrupts wrote into messages, but for the notes of torn note messages
\* (midi_uart.c 33-35) and the notes above 127, which no message can name. All notes off
\* survives an interrupt after its first byte, since midi_values ends with a controller
\* (midi_value.c 66): what follows is a control change.
NotesHeard ==
  Idle => \A n \in Notes \ lost : n \in sounding <=> n \in meant

\* send() failed for the latest message of v, though the UART had taken it, and then the
\* value returned to sent_value: it is found clean and not sent (midi_value.c 10).
Forgotten(v) == v \in failed /\ Clean(v)

\* Between messages the synthesizer has every controller at its value, or was never told,
\* but for two kinds of damage. A value may be forgotten. And the torn message of a note or
\* a pitch bend moves a controller, the damper pedal for note 64, until the value of that
\* controller is sent again, which the cache sees no reason for; a torn controller
\* message is made good by the interrupt that tore it.
ControlsHeard ==
  Idle => \A c \in Controls \ spoiled :
            \/ control[c] \in {NoByte} \cup {value[v] : v \in {c} \cap Values}
            \/ c \in Values /\ Forgotten(c)
===============================================================================
