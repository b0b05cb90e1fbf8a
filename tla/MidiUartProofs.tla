----------------------------- MODULE MidiUartProofs -----------------------------
(***************************************************************************)
(* Proofs about MidiUart, for any notes and any settings of the values.     *)
(***************************************************************************)
EXTENDS MidiUart, TLAPS

\* The message of the value that the interrupt is at.
AllMessage == ValueMessage(midi_values[all], value[midi_values[all]])

\* What the main loop is writing, and what should sound after it.
MessageInv ==
  msg # << >> =>
    \/ /\ mv = NULL
       /\ \/ \E n \in Notes : msg = <<CMD_NOTE_ON, n, MAX_VELOCITY>> /\ n \in meant
          \/ \E n \in Notes : msg = <<CMD_NOTE_OFF, n, MAX_VELOCITY>> /\ n \notin meant
          \/ /\ msg = <<CMD_CC, CONTROL_ALL_NOTES_OFF_B1, CONTROL_ALL_NOTES_OFF_B2>>
             /\ meant = {}
    \/ mv \in Values /\ msg = ValueMessage(mv, value[mv])

\* There is a message exactly while it is written, and a value exactly while it is synced.
PhaseInv ==
  /\ pc = "write" <=> msg # << >>
  /\ pc = "idle" => mv = NULL
  /\ pc \in {"check", "bluetooth", "ack", "store"} => mv \in Values

\* The synthesizer is where the writer is: within a message of the interrupt, within a
\* whole message of the main loop, or in a torn one with the status of a control change;
\* but the number of a note above 127 has become the status.
LineInv ==
  /\ all = 0 => alli = 0
  /\ msg = << >> => i = 0
  /\ torn <= i
  /\ all # 0 => torn = i
  /\ (all # 0 /\ alli > 0) =>
       /\ status = AllMessage[1]
       /\ first = IF alli = 1 THEN NoByte ELSE AllMessage[2]
  /\ (all = 0 /\ i > 0 /\ torn = 0) =>
       /\ status = IF i = 2 /\ IsStatus(msg[2]) THEN msg[2] ELSE msg[1]
       /\ first = IF i = 1 \/ IsStatus(msg[2]) THEN NoByte ELSE msg[2]
  /\ (all = 0 /\ torn > 0) =>
       /\ status = IF i > torn /\ IsStatus(msg[2]) THEN msg[2] ELSE CMD_CC
       /\ first = IF i = torn \/ IsStatus(msg[2]) THEN NoByte ELSE msg[2]

\* A note that no message in flight is about sounds if it should, or is lost.
NotesInv ==
  \A n \in Notes \ lost :
    (msg = << >> \/ ~(IsClear \/ (IsNote /\ msg[2] = n))) =>
      (n \in sounding <=> n \in meant)

Told(c) == {NoByte} \cup {value[v] : v \in {c} \cap Values}

Sets(message, c) == IF message[1] = CMD_CC THEN message[2] = c ELSE message[1] = c

\* c is about to be synced, or the message in flight sets it, and no interrupt has done so
\* instead.
Pending(c) ==
  \/ pc = "check" /\ mv = c
  \/ msg # << >> /\ Sets(msg, c) /\ (all # 0 \/ torn = 0)

Excused(c) == c \in Values /\ Forgotten(c)

ControlsInv ==
  \A c \in Controls \ spoiled : control[c] \in Told(c) \/ Pending(c) \/ Excused(c)

\* The sync of v goes on after it was found dirty.
Sending(v) == mv = v /\ pc \in {"write", "bluetooth", "ack", "store"}

\* What was acknowledged is what the synthesizer has, unless send() failed since: this is
\* what a sync relies on that finds the value clean.
AckedInv ==
  \A v \in Values \ (spoiled \cup failed) :
    (~force_send[v] /\ ~Sending(v)) => control[v] \in {NoByte, sent_value[v]}

\* A value whose send() failed is not clean while it is sent again.
FailedInv ==
  /\ (pc \in {"write", "bluetooth"} /\ mv \in failed) => ~Clean(mv)
  /\ pc \in {"ack", "store"} => mv \notin failed

\* The interrupt has told the values before the one it is at.
SentInv ==
  \A j \in 1..N_VALUES : j < all => control[midi_values[j]] = value[midi_values[j]]

\* Nothing happens on a UART that was not initialised.
SilentInv ==
  ~midi_uart_initialized =>
    msg = << >> /\ all = 0 /\ control = [c \in Controls |-> NoByte]

\* Inductive: the properties hold between messages, these parts say what is true within.
Inv == /\ TypeOK /\ MessageInv /\ PhaseInv /\ LineInv /\ NotesInv /\ ControlsInv
       /\ AckedInv /\ FailedInv /\ SentInv /\ SilentInv
-------------------------------------------------------------------------------
(* Values, bytes and messages *)

Bytes == 0..127

\* What a keyboard's note can be, as a byte of a message.
NoteBytes == 0..144

LEMMA ValuesAre ==
  Values = {CMD_PITCHBEND, CC_MODULATION, CC_SOUND_CONTROLLER_4_ATTACK,
            CC_SOUND_CONTROLLER_6_DECAY, CC_SOUND_CONTROLLER_7_SUSTAIN,
            CC_SOUND_CONTROLLER_3_RELEASE}
  BY DEF Values, midi_values, N_VALUES

LEMMA NthValue ==
  /\ \A j \in 1..N_VALUES : midi_values[j] \in Values
  /\ \A v \in Values : \E j \in 1..N_VALUES : v = midi_values[j]
  /\ midi_values[N_VALUES] = CC_SOUND_CONTROLLER_3_RELEASE
  BY DEF Values, N_VALUES, midi_values

LEMMA ValueNumbers ==
  ASSUME NEW v \in Values
  PROVE  v \in Nat /\ (v # CMD_PITCHBEND => v \in Bytes) /\ v # CONTROL_ALL_NOTES_OFF_B1
         /\ v # CONTROL_SUSTAIN /\ v \in Controls /\ v # NULL
  BY ValuesAre
     DEF NULL, Controls, Bytes, CMD_PITCHBEND, CC_MODULATION, CC_SOUND_CONTROLLER_4_ATTACK,
         CC_SOUND_CONTROLLER_6_DECAY, CC_SOUND_CONTROLLER_7_SUSTAIN,
         CC_SOUND_CONTROLLER_3_RELEASE, CONTROL_ALL_NOTES_OFF_B1, CONTROL_SUSTAIN

LEMMA ControlNumbers ==
  /\ CONTROL_SUSTAIN \in Controls /\ CMD_PITCHBEND \in Controls
  /\ CONTROL_ALL_NOTES_OFF_B1 \notin Controls
  /\ \A c \in Controls : c \in Values \/ c = CONTROL_SUSTAIN
  BY ValuesAre, ValueNumbers
     DEF Controls, CONTROL_ALL_NOTES_OFF_B1, CONTROL_SUSTAIN

BendRange == 0..16383

LEMMA BendBytes ==
  ASSUME NEW x \in BendRange
  PROVE  low(x) \in Bytes /\ high(x) \in Bytes /\ 128 * high(x) + low(x) = x
  <1>1. x % 128 \in 0..127 /\ x \div 128 \in Int /\ 128 * (x \div 128) + (x % 128) = x
    BY DEF BendRange
  <1>2. x \div 128 >= 0
    BY DEF BendRange
  <1>3. x \div 128 <= 127
    BY DEF BendRange
  <1>4. \A q \in 0..127 : q % 128 = q
    OBVIOUS
  <1>5. high(x) = x \div 128 /\ low(x) = x % 128
    BY <1>1, <1>2, <1>3, <1>4 DEF high, low
  <1> QED
    BY <1>1, <1>2, <1>3, <1>5 DEF Bytes

LEMMA ValueBytes ==
  ASSUME NEW v \in Values, NEW x \in 0..max_value[v]
  PROVE  IF v = CMD_PITCHBEND
         THEN /\ ValueMessage(v, x) = <<CMD_PITCHBEND, low(x), high(x)>>
              /\ low(x) \in Bytes /\ high(x) \in Bytes
              /\ 128 * high(x) + low(x) = x
         ELSE ValueMessage(v, x) = <<CMD_CC, v, x>> /\ v \in Bytes /\ x \in Bytes
  <1>1. CASE v = CMD_PITCHBEND
    <2>1. max_value[v] = 16383
      BY <1>1 DEF max_value
    <2>2. x \in BendRange
      BY <2>1 DEF BendRange
    <2>3. ValueMessage(v, x) = <<CMD_PITCHBEND, low(x), high(x)>>
      BY <1>1 DEF ValueMessage
    <2>4. low(x) \in Bytes /\ high(x) \in Bytes /\ 128 * high(x) + low(x) = x
      BY <2>2, BendBytes
    <2> QED
      BY <1>1, <2>3, <2>4
  <1>2. CASE v # CMD_PITCHBEND
    <2>1. max_value[v] = 127
      BY <1>2 DEF max_value
    <2> QED
      BY <1>2, <2>1, ValueNumbers DEF ValueMessage, Bytes
  <1> QED
    BY <1>1, <1>2
-------------------------------------------------------------------------------
(* What the synthesizer makes of a byte *)

LEMMA StatusAbove ==
  /\ \A byte \in StatusBytes : byte \in Int /\ IsStatus(byte)
  /\ \A byte \in Bytes : ~IsStatus(byte)
  /\ \A byte \in NoteBytes : byte \in Bytes <=> ~IsStatus(byte)
  /\ Bytes \subseteq NoteBytes
  BY DEF IsStatus, StatusBytes, Bytes, NoteBytes, CMD_NOTE_ON, CMD_NOTE_OFF, CMD_CC,
         CMD_PITCHBEND

LEMMA HearStatus ==
  ASSUME NEW byte \in Int, IsStatus(byte), Hear(byte)
  PROVE  status' = byte /\ first' = NoByte /\ UNCHANGED <<sounding, control>>
  BY DEF Hear, Complete

LEMMA HearFirst ==
  ASSUME NEW byte \in Bytes, Hear(byte), first = NoByte
  PROVE  status' = status /\ first' = byte /\ UNCHANGED <<sounding, control>>
  BY DEF Hear, IsStatus, Complete, Bytes

LEMMA HearSecond ==
  ASSUME NEW byte \in Bytes, Hear(byte), first \in Bytes
  PROVE  /\ status' = status /\ first' = NoByte
         /\ sounding' = CASE status = CMD_NOTE_ON  -> sounding \cup {first}
                          [] status = CMD_NOTE_OFF -> sounding \ {first}
                          [] status = CMD_CC /\ first = CONTROL_ALL_NOTES_OFF_B1 -> {}
                          [] OTHER -> sounding
         /\ control' = CASE status = CMD_CC /\ first \in Controls ->
                              [control EXCEPT ![first] = byte]
                         [] status = CMD_PITCHBEND ->
                              [control EXCEPT ![CMD_PITCHBEND] = 128 * byte + first]
                         [] OTHER -> control
  BY DEF Hear, IsStatus, Complete, Bytes, NoByte

LEMMA HearControl ==
  ASSUME NEW byte \in Bytes, Hear(byte), first \in Bytes, status = CMD_CC
  PROVE  /\ status' = status /\ first' = NoByte
         /\ sounding' = IF first = CONTROL_ALL_NOTES_OFF_B1 THEN {} ELSE sounding
         /\ control' = IF first \in Controls THEN [control EXCEPT ![first] = byte] ELSE control
  BY HearSecond DEF CMD_NOTE_ON, CMD_NOTE_OFF, CMD_CC, CMD_PITCHBEND

LEMMA HearBend ==
  ASSUME NEW byte \in Bytes, Hear(byte), first \in Bytes, status = CMD_PITCHBEND
  PROVE  /\ status' = status /\ first' = NoByte /\ sounding' = sounding
         /\ control' = [control EXCEPT ![CMD_PITCHBEND] = 128 * byte + first]
  BY HearSecond DEF CMD_NOTE_ON, CMD_NOTE_OFF, CMD_CC, CMD_PITCHBEND

LEMMA HearNote ==
  ASSUME NEW byte \in Bytes, Hear(byte), first \in Bytes,
         status \in {CMD_NOTE_ON, CMD_NOTE_OFF}
  PROVE  /\ status' = status /\ first' = NoByte /\ control' = control
         /\ sounding' = IF status = CMD_NOTE_ON THEN sounding \cup {first}
                                                ELSE sounding \ {first}
  BY HearSecond DEF CMD_NOTE_ON, CMD_NOTE_OFF, CMD_CC, CMD_PITCHBEND

\* The kinds of a message of the main loop.
LEMMA MessageKinds ==
  ASSUME Inv, msg # << >>
  PROVE  /\ msg[1] \in StatusBytes /\ msg[2] \in NoteBytes /\ msg[3] \in Bytes
         /\ IsStatus(msg[2]) => IsNote
         /\ \/ /\ IsNote /\ msg[2] \in Notes /\ mv = NULL
               /\ msg[2] \in meant <=> msg[1] = CMD_NOTE_ON
            \/ IsClear /\ meant = {} /\ mv = NULL
            \/ /\ msg[1] = CMD_CC /\ msg[2] \in Values \ {CMD_PITCHBEND}
               /\ msg[3] = value[msg[2]] /\ mv = msg[2]
            \/ /\ msg[1] = CMD_PITCHBEND /\ 128 * msg[3] + msg[2] = value[CMD_PITCHBEND]
               /\ mv = CMD_PITCHBEND
  <1>1. msg[1] \in StatusBytes /\ msg[2] \in NoteBytes /\ msg[3] \in Bytes
    BY DEF Inv, TypeOK, Bytes, NoteBytes
  <1>2. CASE mv = NULL /\ \E n \in Notes : msg = <<CMD_NOTE_ON, n, MAX_VELOCITY>> /\ n \in meant
    BY <1>1, <1>2 DEF IsNote
  <1>3. CASE mv = NULL /\ \E n \in Notes : msg = <<CMD_NOTE_OFF, n, MAX_VELOCITY>> /\ n \notin meant
    BY <1>1, <1>3 DEF IsNote, CMD_NOTE_ON, CMD_NOTE_OFF
  <1>4. CASE /\ msg = <<CMD_CC, CONTROL_ALL_NOTES_OFF_B1, CONTROL_ALL_NOTES_OFF_B2>>
             /\ meant = {} /\ mv = NULL
    BY <1>1, <1>4, StatusAbove DEF IsClear, IsStatus, CONTROL_ALL_NOTES_OFF_B1
  <1>5. ASSUME NEW v \in Values, msg = ValueMessage(v, value[v])
        PROVE  /\ msg[2] \in Bytes
               /\ \/ /\ msg[1] = CMD_CC /\ msg[2] \in Values \ {CMD_PITCHBEND}
                     /\ msg[3] = value[msg[2]] /\ v = msg[2]
                  \/ /\ msg[1] = CMD_PITCHBEND
                     /\ 128 * msg[3] + msg[2] = value[CMD_PITCHBEND]
                     /\ v = CMD_PITCHBEND
    <2>1. value[v] \in 0..max_value[v]
      BY DEF Inv, TypeOK, max_value
    <2>2. CASE v = CMD_PITCHBEND
      <3>1. msg[1] = CMD_PITCHBEND /\ msg[2] = low(value[v]) /\ msg[3] = high(value[v])
        BY <1>5, <2>1, <2>2, ValueBytes
      <3>2. 128 * high(value[v]) + low(value[v]) = value[v] /\ low(value[v]) \in Bytes
        BY <2>1, <2>2, ValueBytes
      <3> QED
        BY <2>2, <3>1, <3>2
    <2>3. CASE v # CMD_PITCHBEND
      BY <1>5, <2>1, <2>3, ValueBytes
    <2> QED
      BY <2>2, <2>3
  <1> QED
    BY <1>1, <1>2, <1>3, <1>4, <1>5, StatusAbove DEF Inv, MessageInv

\* The message of the interrupt.
LEMMA AllKinds ==
  ASSUME Inv, all # 0
  PROVE  /\ midi_values[all] \in Values
         /\ AllMessage[1] \in StatusBytes /\ AllMessage[2] \in Bytes
         /\ AllMessage[3] \in Bytes
         /\ IF midi_values[all] = CMD_PITCHBEND
            THEN /\ AllMessage[1] = CMD_PITCHBEND
                 /\ 128 * AllMessage[3] + AllMessage[2] = value[CMD_PITCHBEND]
            ELSE /\ AllMessage[1] = CMD_CC
                 /\ AllMessage[2] = midi_values[all]
                 /\ AllMessage[3] = value[midi_values[all]]
  <1> DEFINE v == midi_values[all]
  <1>1. v \in Values
    BY NthValue DEF Inv, TypeOK, N_VALUES
  <1>2. value[v] \in 0..max_value[v]
    BY <1>1 DEF Inv, TypeOK, max_value
  <1>3. CMD_CC \in StatusBytes /\ CMD_PITCHBEND \in StatusBytes
    BY DEF StatusBytes
  <1>4. CASE v = CMD_PITCHBEND
    <2>1. /\ AllMessage[1] = CMD_PITCHBEND /\ AllMessage[2] = low(value[v])
          /\ AllMessage[3] = high(value[v])
      BY <1>1, <1>2, <1>4, ValueBytes DEF AllMessage
    <2>2. /\ 128 * high(value[v]) + low(value[v]) = value[v]
          /\ low(value[v]) \in Bytes /\ high(value[v]) \in Bytes
      BY <1>1, <1>2, <1>4, ValueBytes
    <2> QED
      BY <1>1, <1>3, <1>4, <2>1, <2>2
  <1>5. CASE v # CMD_PITCHBEND
    BY <1>1, <1>2, <1>3, <1>5, ValueBytes DEF AllMessage
  <1> QED
    BY <1>4, <1>5
-------------------------------------------------------------------------------
(* The invariant holds initially and is kept *)

LEMMA InitInv == Init => Inv
  <1> SUFFICES ASSUME Init PROVE Inv
    OBVIOUS
  <1>1. /\ value \in [Values -> Nat]
        /\ \A v \in Values : value[v] <= max_value[v]
    <2>1. \A v \in Values : max_value[v] = IF v = CMD_PITCHBEND THEN 16383 ELSE 127
      BY DEF max_value
    <2> QED
      BY <2>1 DEF Init
  <1>2. TypeOK
    BY <1>1 DEF Init, TypeOK, N_VALUES, NoByte, NULL
  <1>3. /\ MessageInv /\ PhaseInv /\ LineInv /\ NotesInv /\ SentInv /\ SilentInv
        /\ AckedInv /\ FailedInv
    BY DEF Init, MessageInv, PhaseInv, LineInv, NotesInv, SentInv, SilentInv, AckedInv,
           FailedInv, N_VALUES
  <1>4. ControlsInv
    BY DEF Init, ControlsInv, Told
  <1> QED
    BY <1>2, <1>3, <1>4 DEF Inv

\* A message is begun, for a note, for all of them or for a value.
LEMMA SendInv ==
  ASSUME Inv, all = 0, pc = "idle" \/ (pc = "check" /\ ~Clean(mv)),
         NEW message \in StatusBytes \X NoteBytes \X Bytes, NEW notes \in SUBSET Notes,
         Send(message, notes),
         pc = "check" => Sets(message, mv),
         midi_uart_initialized => MessageInv',
         \A n \in Notes :
           \/ n \in meant <=> n \in notes
           \/ message[1] \in {CMD_NOTE_ON, CMD_NOTE_OFF} /\ message[2] = n
           \/ message[1] = CMD_CC /\ message[2] = CONTROL_ALL_NOTES_OFF_B1
  PROVE  Inv'
  <1> USE DEF Inv
  <1>0. UNCHANGED <<midi_uart_initialized, value, sent_value, force_send, i, all, alli,
                    status, first, sounding, control, torn, lost, spoiled, failed>>
    BY DEF Send, synth, acks
  <1>1. TypeOK'
    <2>1. /\ msg' = msg \/ msg' = message
          /\ meant' = meant \/ meant' = notes
          /\ pc' \in {"idle", "write"}
          /\ mv' = mv \/ mv' = NULL
      BY DEF Send
    <2>2. message \in StatusBytes \X (0..144) \X (0..127)
      BY DEF NoteBytes, Bytes
    <2>3. msg' \in {<< >>} \cup (StatusBytes \X (0..144) \X (0..127))
      <3>1. CASE msg' = msg
        BY <3>1 DEF TypeOK
      <3>2. CASE msg' = message
        <4> HIDE DEF Inv
        <4> QED
          BY <2>2, <3>2
      <3> QED
        BY <2>1, <3>1, <3>2
    <2>4. meant' \subseteq Notes
      BY <2>1 DEF TypeOK
    <2>5. /\ pc' \in {"idle", "check", "write", "bluetooth", "ack", "store"}
          /\ mv' \in Values \cup {NULL}
      BY <2>1 DEF TypeOK
    <2> QED
      BY <1>0, <2>3, <2>4, <2>5 DEF TypeOK
  <1>2. CASE ~midi_uart_initialized
    <2>1. UNCHANGED <<msg, meant>> /\ pc' = "idle" /\ mv' = NULL
      BY <1>2 DEF Send
    <2>2. msg = << >> /\ all = 0 /\ \A c \in Controls : control[c] = NoByte
      BY <1>2 DEF SilentInv
    <2>3. ControlsInv'
      BY <1>0, <2>2 DEF ControlsInv, Told
    <2>4. AckedInv'
      BY <1>0, <2>2, ValueNumbers DEF AckedInv
    <2>5. /\ MessageInv' /\ PhaseInv' /\ LineInv' /\ NotesInv' /\ FailedInv' /\ SentInv'
          /\ SilentInv'
      BY <1>0, <2>1, <2>2 DEF MessageInv, PhaseInv, LineInv, NotesInv, FailedInv, SentInv,
                              SilentInv, IsClear, IsNote, N_VALUES
    <2> QED
      BY <1>1, <2>3, <2>4, <2>5
  <1>3. CASE midi_uart_initialized
    <2>1. msg' = message /\ meant' = notes /\ pc' = "write" /\ mv' = mv
      BY <1>3 DEF Send
    <2>0. message # << >>
      OBVIOUS
    <2>2. msg = << >> /\ all = 0 /\ i = 0 /\ torn = 0 /\ message # << >>
      BY <2>0 DEF PhaseInv, LineInv, TypeOK
    <2>3. LineInv' /\ SentInv' /\ SilentInv' /\ PhaseInv'
      BY <1>0, <1>3, <2>1, <2>2 DEF LineInv, SentInv, SilentInv, PhaseInv, N_VALUES
    <2>4. NotesInv'
      BY <1>0, <2>1, <2>2 DEF NotesInv, IsClear, IsNote
    <2>5. ASSUME NEW c \in Controls \ spoiled
          PROVE  control[c] \in Told(c) \/ Pending(c)' \/ Excused(c)
      <3>1. Pending(c) => Pending(c)'
        BY <1>0, <2>1, <2>2 DEF Pending
      <3> QED
        BY <3>1 DEF ControlsInv
    <2>6. ControlsInv'
      BY <1>0, <2>5 DEF ControlsInv, Told, Excused, Forgotten, Clean
    <2>7. AckedInv'
      BY <1>0, <2>1 DEF AckedInv, Sending
    <2>8. FailedInv'
      <3>1. CASE pc = "idle"
        <4>1. mv = NULL /\ NULL \notin failed
          BY <3>1, ValueNumbers DEF PhaseInv, TypeOK
        <4> QED
          BY <1>0, <2>1, <4>1 DEF FailedInv
      <3>2. CASE pc = "check" /\ ~Clean(mv)
        BY <1>0, <2>1, <3>2 DEF FailedInv, Clean
      <3> QED
        BY <3>1, <3>2
    <2> QED
      BY <1>1, <1>3, <2>3, <2>4, <2>6, <2>7, <2>8
  <1> QED
    BY <1>2, <1>3

\* A value is set: it is to be synced.
LEMMA SetInv ==
  ASSUME Inv, NEW v \in Values, NEW x \in 0..max_value[v], midi_value_set(v, x)
  PROVE  Inv'
  <1> USE DEF Inv
  <1>1. /\ pc = "idle" /\ all = 0 /\ pc' = "check" /\ mv' = v
        /\ value' = [value EXCEPT ![v] = x]
        /\ UNCHANGED <<midi_uart_initialized, sent_value, force_send, msg, i, all, alli,
                       status, first, sounding, control, meant, torn, lost, spoiled, failed>>
    BY DEF midi_value_set, Idle, acks, line, synth, history
  <1>2. msg = << >>
    BY <1>1 DEF PhaseInv
  <1>3. max_value[v] \in Nat
    BY DEF max_value
  <1>4. value'[v] = x /\ \A w \in Values \ {v} : value'[w] = value[w]
    BY <1>1 DEF TypeOK
  <1>5. TypeOK'
    BY <1>1, <1>3, <1>4 DEF TypeOK
  <1>6. /\ MessageInv' /\ PhaseInv' /\ LineInv' /\ NotesInv' /\ FailedInv' /\ SentInv'
        /\ SilentInv'
    BY <1>1, <1>2 DEF MessageInv, PhaseInv, LineInv, NotesInv, FailedInv, SentInv,
                      SilentInv, N_VALUES
  <1>7. AckedInv'
    BY <1>1 DEF AckedInv, Sending
  <1>8. ASSUME NEW c \in Controls \ spoiled
        PROVE  (control[c] \in Told(c) \/ Pending(c) \/ Excused(c))'
    <2>1. CASE c = v
      BY <1>1, <2>1 DEF Pending
    <2>2. CASE c # v
      <3>1. Told(c)' = Told(c) /\ (Excused(c) => Excused(c)')
        BY <1>1, <1>4, <2>2 DEF Told, Excused, Forgotten, Clean
      <3>2. ~Pending(c)
        BY <1>1, <1>2 DEF Pending
      <3> QED
        BY <1>1, <3>1, <3>2 DEF ControlsInv
    <2> QED
      BY <2>1, <2>2
  <1>9. ControlsInv'
    BY <1>1, <1>8 DEF ControlsInv
  <1> QED
    BY <1>5, <1>6, <1>7, <1>9

\* Steps of midi_value_sync that send nothing.
LEMMA SyncInv ==
  ASSUME Inv, SyncClean \/ SendOk \/ SendFailed \/ ClearForce \/ StoreSent
  PROVE  Inv'
  <1> USE DEF Inv
  <1>1. /\ pc \in {"check", "bluetooth", "ack", "store"} /\ all = 0
        /\ UNCHANGED <<midi_uart_initialized, value, msg, i, all, alli, status, first,
                       sounding, control, meant, torn, lost, spoiled>>
    BY DEF SyncClean, SendOk, SendFailed, ClearForce, StoreSent, acks, line, synth, history
  <1>2. mv \in Values /\ mv # NULL /\ msg = << >>
    BY <1>1, ValueNumbers DEF PhaseInv
  <1>3. LineInv' /\ NotesInv' /\ SentInv' /\ SilentInv' /\ MessageInv'
    BY <1>1, <1>2 DEF LineInv, NotesInv, SentInv, SilentInv, MessageInv, N_VALUES
  <1>4. ASSUME NEW c \in Controls \ spoiled, c # mv
        PROVE  control[c] \in Told(c) \/ Excused(c)
    BY <1>1, <1>2, <1>4 DEF ControlsInv, Pending
  <1>5. Told(mv) = {NoByte, value[mv]}
    BY <1>2 DEF Told
  <1>6. \A c : Told(c)' = Told(c)
    BY <1>1 DEF Told
  <1>7. CASE SyncClean
    <2>1. /\ pc = "check" /\ Clean(mv) /\ pc' = "idle" /\ mv' = NULL
          /\ UNCHANGED <<sent_value, force_send, failed>>
      BY <1>7 DEF SyncClean, acks, history
    <2>2. TypeOK' /\ PhaseInv' /\ FailedInv'
      BY <1>1, <1>2, <2>1 DEF TypeOK, PhaseInv, FailedInv
    <2>3. AckedInv'
      BY <1>1, <2>1 DEF AckedInv, Sending
    <2>4. mv \notin spoiled => control[mv] \in Told(mv) \/ Excused(mv)
      <3>1. CASE mv \in failed
        BY <1>2, <2>1, <3>1 DEF Excused, Forgotten
      <3>2. CASE mv \notin failed
        BY <1>2, <1>5, <2>1, <3>2 DEF AckedInv, Sending, Clean
      <3> QED
        BY <3>1, <3>2
    <2>5. ControlsInv'
      BY <1>1, <1>4, <1>6, <2>1, <2>4 DEF ControlsInv, Excused, Forgotten, Clean
    <2> QED
      BY <1>3, <2>2, <2>3, <2>5
  <1>8. mv \notin spoiled /\ pc # "check" => control[mv] \in {NoByte, value[mv]} \/ Excused(mv)
    BY <1>2, <1>5, ValueNumbers DEF ControlsInv, Pending
  <1>9. CASE SendOk
    <2>1. /\ pc = "bluetooth" /\ pc' = "ack" /\ failed' = failed \ {mv}
          /\ UNCHANGED <<sent_value, force_send, mv>>
      BY <1>9 DEF SendOk, acks
    <2>2. TypeOK' /\ PhaseInv' /\ FailedInv'
      BY <1>1, <1>2, <2>1 DEF TypeOK, PhaseInv, FailedInv
    <2>3. AckedInv'
      BY <1>1, <2>1 DEF AckedInv, Sending
    <2>4. ~Excused(mv)
      BY <2>1 DEF FailedInv, Excused, Forgotten
    <2>5. ControlsInv'
      BY <1>1, <1>4, <1>5, <1>6, <1>8, <2>1, <2>4
         DEF ControlsInv, Excused, Forgotten, Clean
    <2> QED
      BY <1>3, <2>2, <2>3, <2>5
  <1>10. CASE SendFailed
    <2>1. /\ pc = "bluetooth" /\ pc' = "idle" /\ mv' = NULL
          /\ failed' = IF Clean(mv) THEN failed ELSE failed \cup {mv}
          /\ UNCHANGED <<sent_value, force_send>>
      BY <1>10 DEF SendFailed, acks
    <2>2. TypeOK' /\ PhaseInv' /\ FailedInv'
      BY <1>1, <1>2, <2>1 DEF TypeOK, PhaseInv, FailedInv
    <2>3. ~Excused(mv)
      BY <2>1 DEF FailedInv, Excused, Forgotten
    <2>4. ASSUME NEW v \in Values \ (spoiled \cup failed'), ~force_send[v]
          PROVE  control[v] \in {NoByte, sent_value[v]}
      <3>1. CASE v # mv
        BY <2>1, <2>4, <3>1 DEF AckedInv, Sending
      <3>2. CASE v = mv
        <4>1. Clean(mv)
          BY <2>1, <2>4, <3>2
        <4> QED
          BY <1>8, <2>1, <2>3, <2>4, <3>2, <4>1 DEF Clean
      <3> QED
        BY <3>1, <3>2
    <2>5. AckedInv'
      BY <1>1, <2>1, <2>4 DEF AckedInv
    <2>6. ControlsInv'
      BY <1>1, <1>4, <1>5, <1>6, <1>8, <2>1, <2>3
         DEF ControlsInv, Excused, Forgotten, Clean
    <2> QED
      BY <1>3, <2>2, <2>5, <2>6
  <1>11. CASE ClearForce
    <2>1. /\ pc = "ack" /\ pc' = "store" /\ force_send' = [force_send EXCEPT ![mv] = FALSE]
          /\ UNCHANGED <<sent_value, mv, failed>>
      BY <1>11 DEF ClearForce, history
    <2>2. TypeOK' /\ PhaseInv' /\ FailedInv'
      BY <1>1, <1>2, <2>1 DEF TypeOK, PhaseInv, FailedInv
    <2>3. \A v \in Values \ {mv} : force_send'[v] = force_send[v]
      BY <2>1 DEF TypeOK
    <2>4. AckedInv'
      BY <1>1, <2>1, <2>3 DEF AckedInv, Sending
    <2>5. ~Excused(mv)
      BY <2>1 DEF FailedInv, Excused, Forgotten
    <2>6. ControlsInv'
      BY <1>1, <1>4, <1>5, <1>6, <1>8, <2>1, <2>3, <2>5
         DEF ControlsInv, Excused, Forgotten, Clean
    <2> QED
      BY <1>3, <2>2, <2>4, <2>6
  <1>12. CASE StoreSent
    <2>1. /\ pc = "store" /\ pc' = "idle" /\ mv' = NULL
          /\ sent_value' = [sent_value EXCEPT ![mv] = value[mv]]
          /\ UNCHANGED <<force_send, failed>>
      BY <1>12 DEF StoreSent, history
    <2>2. TypeOK' /\ PhaseInv' /\ FailedInv'
      BY <1>1, <1>2, <2>1 DEF TypeOK, PhaseInv, FailedInv
    <2>3. /\ sent_value'[mv] = value[mv]
          /\ \A v \in Values \ {mv} : sent_value'[v] = sent_value[v]
      BY <1>2, <2>1 DEF TypeOK
    <2>4. ~Excused(mv)
      BY <2>1 DEF FailedInv, Excused, Forgotten
    <2>5. ASSUME NEW v \in Values \ (spoiled \cup failed), ~force_send[v]
          PROVE  control[v] \in {NoByte, sent_value'[v]}
      <3>1. CASE v # mv
        BY <2>3, <2>5, <3>1 DEF AckedInv, Sending
      <3>2. CASE v = mv
        BY <1>8, <2>1, <2>3, <2>4, <2>5, <3>2
      <3> QED
        BY <3>1, <3>2
    <2>6. AckedInv'
      BY <1>1, <2>1, <2>5 DEF AckedInv
    <2>7. ControlsInv'
      BY <1>1, <1>4, <1>5, <1>6, <1>8, <2>1, <2>3, <2>4
         DEF ControlsInv, Excused, Forgotten, Clean
    <2> QED
      BY <1>3, <2>2, <2>6, <2>7
  <1> QED
    BY <1>7, <1>9, <1>10, <1>11, <1>12

LEMMA InterruptInv == Inv /\ Interrupt => Inv'
  <1> SUFFICES ASSUME Inv, Interrupt PROVE Inv'
    OBVIOUS
  <1> USE DEF Inv
  <1>0. /\ midi_uart_initialized /\ all = 0 /\ all' = 1 /\ alli' = 0 /\ torn' = i
        /\ UNCHANGED <<midi_uart_initialized, value, sent_value, force_send, pc, mv, msg, i,
                       status, first, sounding, control, meant, lost, spoiled, failed>>
    BY DEF Interrupt, acks, synth
  <1>1. TypeOK'
    BY <1>0 DEF TypeOK, N_VALUES
  <1>2. MessageInv' /\ NotesInv' /\ SilentInv' /\ SentInv' /\ PhaseInv'
    BY <1>0 DEF MessageInv, NotesInv, SilentInv, SentInv, PhaseInv, N_VALUES, IsClear, IsNote
  <1>3. LineInv'
    BY <1>0 DEF LineInv, TypeOK
  <1>4. ControlsInv' /\ AckedInv' /\ FailedInv'
    BY <1>0 DEF ControlsInv, Told, Pending, Excused, Forgotten, AckedInv, Sending,
                FailedInv, Clean
  <1> QED
    BY <1>1, <1>2, <1>3, <1>4

LEMMA InterruptPutcInv == Inv /\ InterruptPutc => Inv'
  <1> SUFFICES ASSUME Inv, InterruptPutc PROVE Inv'
    OBVIOUS
  <1> USE DEF Inv
  <1> DEFINE v == midi_values[all]
  <1>1. /\ all # 0 /\ all \in 1..N_VALUES /\ alli \in 0..2
        /\ UNCHANGED <<midi_uart_initialized, value, pc, mv, msg, i, meant, torn, lost>>
        /\ Hear(AllMessage[alli + 1])
        /\ torn = i /\ midi_uart_initialized
    BY DEF InterruptPutc, AllMessage, TypeOK, LineInv, N_VALUES, SilentInv
  <1>2. /\ v \in Values
        /\ AllMessage[1] \in StatusBytes /\ AllMessage[2] \in Bytes /\ AllMessage[3] \in Bytes
        /\ IF v = CMD_PITCHBEND
           THEN /\ AllMessage[1] = CMD_PITCHBEND
                /\ 128 * AllMessage[3] + AllMessage[2] = value[CMD_PITCHBEND]
           ELSE /\ AllMessage[1] = CMD_CC
                /\ AllMessage[2] = v /\ AllMessage[3] = value[v]
    BY <1>1, AllKinds
  <1>3. MessageInv' /\ SilentInv' /\ PhaseInv'
    BY <1>1 DEF MessageInv, SilentInv, PhaseInv
  <1>4. CASE alli < 2
    <2>1. UNCHANGED <<all, spoiled, sent_value, force_send, failed>> /\ alli' = alli + 1
      BY <1>1, <1>4 DEF InterruptPutc, acks
    <2>2. AllMessage' = AllMessage
      BY <1>1, <2>1 DEF AllMessage, ValueMessage
    <2>3. /\ UNCHANGED <<sounding, control>>
          /\ status' = AllMessage[1]
          /\ first' = IF alli = 0 THEN NoByte ELSE AllMessage[2]
      <3>1. CASE alli = 0
        BY <1>1, <1>2, <3>1, HearStatus, StatusAbove
      <3>2. CASE alli = 1
        <4>1. status = AllMessage[1] /\ first = NoByte
          BY <1>1, <3>2 DEF LineInv
        <4> QED
          BY <1>1, <1>2, <3>2, <4>1, HearFirst
      <3> QED
        BY <1>1, <1>4, <3>1, <3>2
    <2>4. TypeOK'
      BY <1>1, <1>2, <1>4, <2>1, <2>3 DEF TypeOK, Bytes
    <2>5. LineInv'
      BY <1>1, <1>4, <2>1, <2>2, <2>3 DEF LineInv
    <2>6. NotesInv' /\ ControlsInv' /\ SentInv'
      BY <1>1, <2>1, <2>3
         DEF NotesInv, ControlsInv, SentInv, Told, Pending, Excused, Forgotten, Clean,
             IsClear, IsNote
    <2>7. AckedInv' /\ FailedInv'
      BY <1>1, <2>1, <2>3 DEF AckedInv, FailedInv, Sending, Clean
    <2> QED
      BY <1>3, <2>4, <2>5, <2>6, <2>7
  <1>5. CASE alli = 2
    <2>1. /\ all' = IF all = N_VALUES THEN 0 ELSE all + 1
          /\ alli' = 0 /\ spoiled' = spoiled \ {v}
          /\ Acknowledged(v) \/ NotAcknowledged(v)
      BY <1>5 DEF InterruptPutc
    <2>0. /\ sent_value' \in [Values -> Nat] /\ force_send' \in [Values -> BOOLEAN]
          /\ failed' = failed \ {v} \/ (failed' = failed /\ force_send'[v])
          /\ ~force_send'[v] => sent_value'[v] = value[v] /\ v \notin failed'
          /\ \A w \in Values \ {v} : /\ sent_value'[w] = sent_value[w]
                                     /\ force_send'[w] = force_send[w]
                                     /\ w \in failed' <=> w \in failed
      BY <1>2, <2>1 DEF Acknowledged, NotAcknowledged, TypeOK
    <2>2. status = AllMessage[1] /\ first = AllMessage[2]
      BY <1>1, <1>5 DEF LineInv
    <2>3. /\ status' = AllMessage[1] /\ first' = NoByte /\ sounding' = sounding
          /\ control' = [control EXCEPT ![v] = value[v]]
      <3>1. v \in Controls /\ v # CONTROL_ALL_NOTES_OFF_B1
        BY <1>2, ValueNumbers
      <3>2. CASE v = CMD_PITCHBEND
        BY <1>1, <1>2, <1>5, <2>2, <3>1, <3>2, HearBend
      <3>3. CASE v # CMD_PITCHBEND
        <4>1. Hear(value[v]) /\ value[v] \in Bytes /\ v \in Bytes
          BY <1>1, <1>2, <1>5, <3>3
        <4>2. status = CMD_CC /\ first = v
          BY <1>2, <2>2, <3>3
        <4> QED
          BY <1>2, <3>1, <3>3, <4>1, <4>2, HearControl
      <3> QED
        BY <3>2, <3>3
    <2>4. TypeOK'
      <3>1. control' \in [Controls -> Nat \cup {NoByte}]
        BY <1>2, <2>3 DEF TypeOK
      <3> QED
        BY <1>1, <1>2, <2>0, <2>1, <2>3, <3>1 DEF TypeOK, N_VALUES
    <2>5. control'[v] = value[v] /\ \A c \in Controls \ {v} : control'[c] = control[c]
      BY <1>2, <2>3, ValueNumbers DEF TypeOK
    <2>6. LineInv'
      <3>1. CASE all = N_VALUES
        <4>1. status' = CMD_CC
          BY <1>2, <2>3, <3>1, NthValue DEF CC_SOUND_CONTROLLER_3_RELEASE, CMD_PITCHBEND
        <4> QED
          BY <1>1, <2>1, <2>3, <3>1, <4>1 DEF LineInv, TypeOK
      <3>2. CASE all # N_VALUES
        BY <1>1, <2>1, <3>2 DEF LineInv, N_VALUES
      <3> QED
        BY <3>1, <3>2
    <2>7. NotesInv'
      BY <1>1, <2>3 DEF NotesInv, IsClear, IsNote
    <2>8. SentInv'
      <3> SUFFICES ASSUME NEW j \in 1..N_VALUES, j < all'
                   PROVE  control'[midi_values[j]] = value[midi_values[j]]
        BY <1>1 DEF SentInv
      <3>1. j < all \/ j = all
        BY <1>1, <2>1 DEF N_VALUES
      <3>2. midi_values[j] \in Controls
        BY NthValue, ValueNumbers
      <3> QED
        BY <2>5, <3>1, <3>2 DEF SentInv
    <2>9. ControlsInv'
      <3> SUFFICES ASSUME NEW c \in Controls \ spoiled'
                   PROVE  (control[c] \in Told(c) \/ Pending(c) \/ Excused(c))'
        BY DEF ControlsInv
      <3>0. c # v /\ Excused(c) => Excused(c)'
        BY <1>1, <2>0 DEF Excused, Forgotten, Clean
      <3>1. CASE c = v
        BY <1>1, <1>2, <2>5, <3>1 DEF Told
      <3>2. CASE c # v /\ all # N_VALUES
        <4>1. control'[c] = control[c] /\ c \notin spoiled /\ all' # 0
          BY <1>1, <2>1, <2>5, <3>2 DEF N_VALUES
        <4> QED
          BY <1>1, <3>0, <3>2, <4>1 DEF ControlsInv, Told, Pending
      <3>3. CASE c \in Values \ {v} /\ all = N_VALUES
        <4>1. PICK j \in 1..N_VALUES : c = midi_values[j]
          BY <3>3, NthValue
        <4>2. j < all
          BY <3>3, <4>1 DEF N_VALUES
        <4>3. control'[c] = value[c]
          BY <2>5, <3>3, <4>1, <4>2 DEF SentInv
        <4> QED
          BY <1>1, <3>3, <4>3 DEF Told
      <3>4. CASE c = CONTROL_SUSTAIN
        <4>1. ~Pending(c)
          <5>1. ~(pc = "check" /\ mv = c)
            BY <3>4, ValueNumbers DEF PhaseInv
          <5> SUFFICES ASSUME msg # << >>
                       PROVE  ~(IF msg[1] = CMD_CC THEN msg[2] = c ELSE msg[1] = c)
            BY <5>1 DEF Pending, Sets
          <5> QED
            BY <3>4, MessageKinds, ValueNumbers
               DEF StatusBytes, CMD_NOTE_ON, CMD_NOTE_OFF, CMD_CC, CMD_PITCHBEND,
                   CONTROL_SUSTAIN, CONTROL_ALL_NOTES_OFF_B1, IsClear, IsNote
        <4>2. c \notin Values
          BY <3>4, ValueNumbers
        <4> QED
          BY <1>1, <1>2, <2>1, <2>5, <4>1, <4>2 DEF ControlsInv, Told, Excused
      <3> QED
        BY <3>1, <3>2, <3>3, <3>4, ControlNumbers
    <2>10. ASSUME NEW w \in Values \ (spoiled' \cup failed'),
                  ~force_send'[w], ~Sending(w)'
           PROVE  control'[w] \in {NoByte, sent_value'[w]}
      <3>1. CASE w = v
        BY <2>0, <2>5, <2>10, <3>1
      <3>2. CASE w # v
        <4>1. w \in Values \ (spoiled \cup failed) /\ ~force_send[w] /\ ~Sending(w)
          BY <1>1, <2>0, <2>1, <2>10, <3>2 DEF Sending
        <4>2. control'[w] = control[w] /\ sent_value'[w] = sent_value[w]
          BY <2>0, <2>5, <3>2, ValueNumbers
        <4> QED
          BY <4>1, <4>2 DEF AckedInv
      <3> QED
        BY <3>1, <3>2
    <2>11. AckedInv'
      BY <2>10 DEF AckedInv
    <2>12. FailedInv'
      <3>1. CASE mv \in Values
        BY <1>1, <2>0, <3>1 DEF FailedInv, Clean
      <3>2. CASE mv = NULL
        <4>1. NULL \notin failed'
          BY <1>2, <2>0, ValueNumbers DEF TypeOK
        <4> QED
          BY <1>1, <3>2, <4>1 DEF FailedInv
      <3> QED
        BY <3>1, <3>2 DEF TypeOK
    <2> QED
      BY <1>3, <2>4, <2>6, <2>7, <2>8, <2>9, <2>11, <2>12
  <1> QED
    BY <1>1, <1>4, <1>5

\* A byte that is not the last one of its message.
LEMMA PutcInv == Inv /\ uart_putc /\ i < 2 => Inv'
  <1> SUFFICES ASSUME Inv, uart_putc, i < 2 PROVE Inv'
    OBVIOUS
  <1> USE DEF Inv
  <1>1. /\ msg # << >> /\ all = 0 /\ i \in {0, 1} /\ i' = i + 1
        /\ UNCHANGED <<midi_uart_initialized, value, sent_value, force_send, pc, mv, msg,
                       all, alli, meant, torn, lost, spoiled, failed>>
        /\ Hear(msg[i + 1])
    BY DEF uart_putc, acks, history, TypeOK, PhaseInv
  <1>2. msg[1] \in StatusBytes /\ msg[2] \in NoteBytes
    BY <1>1, MessageKinds
  <1>3. /\ UNCHANGED <<sounding, control>>
        /\ i = 0 => status' = msg[1] /\ first' = NoByte
        /\ i = 1 => IF IsStatus(msg[2]) THEN status' = msg[2] /\ first' = NoByte
                                        ELSE status' = status /\ first' = msg[2]
    <2>1. CASE i = 0
      BY <1>1, <1>2, <2>1, HearStatus, StatusAbove
    <2>2. CASE i = 1 /\ IsStatus(msg[2])
      <3>1. msg[2] \in Int
        BY <1>2 DEF NoteBytes
      <3>2. msg[i + 1] = msg[2]
        BY <2>2
      <3>3. Hear(msg[2])
        BY <1>1, <3>2
      <3> QED
        BY <1>1, <2>2, <3>1, <3>3, HearStatus
    <2>3. CASE i = 1 /\ ~IsStatus(msg[2])
      <3>1. first = NoByte
        BY <1>1, <2>3 DEF LineInv, TypeOK
      <3> QED
        BY <1>1, <1>2, <2>3, <3>1, HearFirst, StatusAbove
    <2> QED
      BY <1>1, <2>1, <2>2, <2>3
  <1>4. TypeOK'
    <2>1. /\ status' \in StatusBytes \cup (128..144) \cup {NoByte}
          /\ first' \in (0..127) \cup {NoByte}
      <3>1. IsStatus(msg[2]) => msg[2] \in 128..144
        BY <1>2 DEF NoteBytes, IsStatus
      <3>2. ~IsStatus(msg[2]) => msg[2] \in 0..127
        BY <1>2, StatusAbove DEF Bytes
      <3> QED
        BY <1>1, <1>2, <1>3, <3>1, <3>2 DEF TypeOK
    <2> QED
      BY <1>1, <1>3, <2>1 DEF TypeOK
  <1>5. LineInv'
    BY <1>1, <1>3 DEF LineInv, TypeOK
  <1>6. /\ MessageInv' /\ PhaseInv' /\ NotesInv' /\ ControlsInv' /\ SentInv' /\ SilentInv'
    BY <1>1, <1>3 DEF MessageInv, PhaseInv, NotesInv, ControlsInv, SentInv, SilentInv, Told,
                      Pending, Excused, Forgotten, Clean, IsClear, IsNote
  <1>7. AckedInv' /\ FailedInv'
    BY <1>1, <1>3 DEF AckedInv, FailedInv, Sending, Clean
  <1> QED
    BY <1>4, <1>5, <1>6, <1>7

\* The last byte, when the message is whole, torn after its first or after its second byte.
LEMMA FinishInv == Inv /\ uart_putc /\ i = 2 => Inv'
  <1> SUFFICES ASSUME Inv, uart_putc, i = 2 PROVE Inv'
    OBVIOUS
  <1> USE DEF Inv
  <1>1. /\ msg # << >> /\ all = 0 /\ alli = 0
        /\ msg' = << >> /\ i' = 0 /\ torn' = 0
        /\ UNCHANGED <<midi_uart_initialized, value, sent_value, force_send, mv, all, alli,
                       meant, failed>>
        /\ pc = "write" /\ pc' = IF mv = NULL THEN "idle" ELSE "bluetooth"
        /\ Hear(msg[3]) /\ Finish
    BY DEF uart_putc, Finish, acks, LineInv, PhaseInv
  <1>2. /\ msg[1] \in StatusBytes /\ msg[2] \in NoteBytes /\ msg[3] \in Bytes
        /\ IsStatus(msg[2]) => IsNote
        /\ ~IsStatus(msg[2]) => msg[2] \in Bytes
    BY <1>1, MessageKinds, StatusAbove
  <1>3. /\ IsNote => ~IsClear /\ msg[1] # CMD_CC /\ msg[1] # CMD_PITCHBEND
        /\ IsClear => ~IsNote
        /\ msg[1] = CMD_PITCHBEND => ~IsNote /\ ~IsClear /\ msg[1] # CMD_CC
        /\ msg[1] = CMD_CC => ~IsNote
    BY DEF IsNote, IsClear, CMD_NOTE_ON, CMD_NOTE_OFF, CMD_CC, CMD_PITCHBEND
  <1>4. torn \in 0..2
    BY DEF TypeOK
  <1>0. ASSUME NEW c \in Controls PROVE Told(c)' = Told(c) /\ (Excused(c) => Excused(c)')
    BY <1>1 DEF Told, Excused, Forgotten, Clean
  <1>5. ASSUME NEW c \in Controls \ spoiled,
               ~(torn = 0 /\ (IF msg[1] = CMD_CC THEN msg[2] = c ELSE msg[1] = c))
        PROVE  control[c] \in Told(c) \/ Excused(c)
    BY <1>1, <1>5 DEF ControlsInv, Pending, Sets
  <1>6. \A c \in Controls : ~IsNote \/ msg[1] # c
    BY ControlNumbers, ValueNumbers
       DEF IsNote, Bytes, CMD_NOTE_ON, CMD_NOTE_OFF, CMD_PITCHBEND, CONTROL_SUSTAIN
  <1>7. MessageInv' /\ PhaseInv' /\ FailedInv' /\ LineInv' /\ SentInv' /\ SilentInv'
    <2>1. midi_uart_initialized
      BY <1>1 DEF SilentInv
    <2>2. MessageInv' /\ LineInv' /\ SentInv' /\ SilentInv'
      BY <1>1, <2>1 DEF MessageInv, LineInv, SentInv, SilentInv, N_VALUES
    <2>3. PhaseInv' /\ FailedInv'
      BY <1>1 DEF PhaseInv, FailedInv, Clean, TypeOK
    <2> QED
      BY <2>2, <2>3
  <1>8. /\ lost' \subseteq Notes /\ spoiled' \subseteq Controls
    <2>1. IsNote => msg[2] \in Notes
      BY <1>1, <1>3, MessageKinds
    <2>2. lost' \subseteq Notes
      BY <1>1, <2>1 DEF Finish, TypeOK
    <2>3. spoiled' \subseteq Controls
      BY <1>1 DEF Finish, TypeOK
    <2> QED
      BY <2>2, <2>3
  <1>9. ASSUME /\ status' \in StatusBytes \cup (128..144) /\ first' \in Bytes \cup {NoByte}
               /\ sounding' \subseteq Notes
               /\ control' \in [Controls -> Nat \cup {NoByte}]
        PROVE  TypeOK'
    BY <1>1, <1>8, <1>9 DEF TypeOK, Bytes
  <1>10. ASSUME \A n \in Notes \ lost' : n \in sounding' <=> n \in meant PROVE NotesInv'
    BY <1>1, <1>10 DEF NotesInv
  <1>11. ASSUME \A c \in Controls \ spoiled' : control'[c] \in Told(c) \/ Excused(c),
                \A v \in Values \ spoiled' :
                  v # mv => v \notin spoiled /\ control'[v] = control[v]
         PROVE  ControlsInv' /\ AckedInv'
    <2>1. ControlsInv'
      BY <1>0, <1>11 DEF ControlsInv
    <2>2. ASSUME NEW v \in Values \ (spoiled' \cup failed), ~force_send[v], ~Sending(v)'
          PROVE  control'[v] \in {NoByte, sent_value[v]}
      <3>1. v # mv
        BY <1>1, <2>2, ValueNumbers DEF Sending
      <3>2. v \notin spoiled /\ control'[v] = control[v] /\ ~Sending(v)
        BY <1>11, <2>2, <3>1 DEF Sending
      <3> QED
        BY <2>2, <3>2 DEF AckedInv
    <2>3. AckedInv'
      BY <1>1, <2>2 DEF AckedInv
    <2> QED
      BY <2>1, <2>3
  <1>12. CASE torn = 2
    <2>1. status = CMD_CC /\ first = NoByte
      BY <1>1, <1>12 DEF LineInv
    <2>2. status' = CMD_CC /\ first' = msg[3] /\ UNCHANGED <<sounding, control>>
      BY <1>1, <1>2, <2>1, HearFirst
    <2>3. spoiled' = spoiled
      BY <1>1, <1>12 DEF Finish, TakenForControl
    <2>4. TypeOK'
      BY <1>2, <1>9, <2>2 DEF TypeOK, StatusBytes
    <2>5. ControlsInv' /\ AckedInv'
      BY <1>5, <1>11, <1>12, <2>2, <2>3, ValueNumbers
    <2>6. CASE IsClear
      <3>1. meant = {}
        BY <1>1, <1>3, <2>6, MessageKinds, ValueNumbers DEF IsClear
      <3>2. lost' = lost \cup sounding
        BY <1>1, <1>3, <1>12, <2>6 DEF Finish, TakenForControl
      <3> QED
        BY <1>7, <1>10, <2>2, <2>4, <2>5, <3>1, <3>2
    <2>7. CASE ~IsClear
      <3>1. lost' = lost \cup (IF IsNote THEN {msg[2]} ELSE {})
        BY <1>1, <1>12, <2>7 DEF Finish, TakenForControl
      <3>2. NotesInv'
        BY <1>10, <2>2, <2>7, <3>1 DEF NotesInv
      <3> QED
        BY <1>7, <2>4, <2>5, <3>2
    <2> QED
      BY <2>6, <2>7
  <1>13. CASE torn # 2 /\ IsStatus(msg[2])
    <2>1. status = msg[2] /\ first = NoByte
      BY <1>1, <1>4, <1>13 DEF LineInv
    <2>2. status' = msg[2] /\ first' = msg[3] /\ UNCHANGED <<sounding, control>>
      BY <1>1, <1>2, <2>1, HearFirst
    <2>3. lost \cup {msg[2]} \subseteq lost' /\ spoiled \subseteq spoiled'
      BY <1>1, <1>2, <1>3, <1>4, <1>13 DEF Finish, TakenForControl
    <2>4. TypeOK'
      <3>1. status' \in 128..144
        BY <1>2, <1>13, <2>2 DEF NoteBytes, IsStatus
      <3> QED
        BY <1>2, <1>9, <2>2, <3>1 DEF TypeOK
    <2>5. NotesInv'
      BY <1>2, <1>3, <1>10, <1>13, <2>2, <2>3 DEF NotesInv
    <2>6. ControlsInv' /\ AckedInv'
      BY <1>2, <1>3, <1>5, <1>6, <1>11, <1>13, <2>2, <2>3, ValueNumbers
    <2> QED
      BY <1>7, <2>4, <2>5, <2>6
  <1>14. CASE torn # 2 /\ msg[1] = CMD_CC
    <2>0. ~IsStatus(msg[2])
      BY <1>2, <1>3, <1>14
    <2>1. status = CMD_CC /\ first = msg[2]
      BY <1>1, <1>4, <1>14, <2>0 DEF LineInv
    <2>2. /\ status' = status /\ first' = NoByte
          /\ sounding' = IF msg[2] = CONTROL_ALL_NOTES_OFF_B1 THEN {} ELSE sounding
          /\ control' = IF msg[2] \in Controls THEN [control EXCEPT ![msg[2]] = msg[3]]
                                               ELSE control
      BY <1>1, <1>2, <2>0, <2>1, HearControl
    <2>3. spoiled' = spoiled \ {msg[2]}
      BY <1>1, <1>3, <1>14 DEF Finish, TakenForControl
    <2>4. CASE IsClear
      <3>0. meant = {} /\ msg[2] = CONTROL_ALL_NOTES_OFF_B1
        BY <1>1, <1>3, <2>4, MessageKinds, ValueNumbers DEF IsClear
      <3>1. meant = {} /\ lost' = {} /\ msg[2] = CONTROL_ALL_NOTES_OFF_B1
        BY <1>1, <1>3, <1>14, <2>4, <3>0 DEF Finish, TakenForControl
      <3>2. sounding' = {} /\ control' = control
        BY <2>2, <3>1, ControlNumbers
      <3>3. TypeOK'
        BY <1>9, <2>1, <2>2, <3>2 DEF TypeOK, StatusBytes
      <3>4. ControlsInv' /\ AckedInv'
        BY <1>5, <1>11, <1>14, <2>3, <3>1, <3>2, ControlNumbers, ValueNumbers
      <3> QED
        BY <1>7, <1>10, <3>1, <3>2, <3>3, <3>4
    <2>5. CASE ~IsClear
      <3>1. /\ msg[2] \in Values \ {CMD_PITCHBEND} /\ msg[3] = value[msg[2]]
            /\ mv = msg[2]
        BY <1>1, <1>3, <1>14, <2>5, MessageKinds DEF CMD_CC, CMD_PITCHBEND
      <3>2. msg[2] \in Controls /\ msg[2] # CONTROL_ALL_NOTES_OFF_B1
        BY <3>1, ValueNumbers
      <3>3. lost' = lost
        BY <1>1, <1>3, <1>14, <2>5 DEF Finish, TakenForControl
      <3>4. sounding' = sounding /\ control' = [control EXCEPT ![msg[2]] = msg[3]]
        BY <2>2, <3>2
      <3>5. TypeOK'
        <4>1. control' \in [Controls -> Nat \cup {NoByte}]
          BY <3>1, <3>4 DEF TypeOK
        <4> QED
          BY <1>9, <2>1, <2>2, <3>4, <4>1 DEF TypeOK, StatusBytes
      <3>6. NotesInv'
        BY <1>3, <1>10, <1>14, <2>5, <3>3, <3>4 DEF NotesInv
      <3>7. ASSUME NEW c \in Controls \ spoiled'
            PROVE  control'[c] \in Told(c) \/ Excused(c)
        <4>1. CASE c = msg[2]
          BY <3>1, <3>4, <4>1 DEF Told, TypeOK
        <4>2. CASE c # msg[2]
          <5>1. control'[c] = control[c] /\ c \in Controls \ spoiled
            BY <2>3, <3>4, <4>2 DEF TypeOK
          <5> QED
            BY <1>5, <1>14, <4>2, <5>1
        <4> QED
          BY <4>1, <4>2
      <3>8. \A v \in Values \ spoiled' :
              v # mv => v \notin spoiled /\ control'[v] = control[v]
        BY <2>3, <3>1, <3>4, ValueNumbers DEF TypeOK
      <3> QED
        BY <1>7, <1>11, <3>5, <3>6, <3>7, <3>8
    <2> QED
      BY <2>4, <2>5
  <1>15. CASE torn = 0 /\ IsNote /\ ~IsStatus(msg[2])
    <2>1. status = msg[1] /\ first = msg[2]
      BY <1>1, <1>15 DEF LineInv
    <2>2. /\ status' = status /\ first' = NoByte /\ control' = control
          /\ sounding' = IF msg[1] = CMD_NOTE_ON THEN sounding \cup {msg[2]}
                                                 ELSE sounding \ {msg[2]}
      BY <1>1, <1>2, <1>15, <2>1, HearNote DEF IsNote
    <2>3. lost' = lost \ {msg[2]} /\ spoiled' = spoiled
      BY <1>1, <1>3, <1>15 DEF Finish, TakenForControl
    <2>4. msg[2] \in Notes /\ (msg[2] \in meant <=> msg[1] = CMD_NOTE_ON)
      BY <1>1, <1>3, <1>15, MessageKinds
    <2>5. TypeOK'
      BY <1>2, <1>9, <2>1, <2>2, <2>4 DEF TypeOK
    <2>6. NotesInv'
      BY <1>3, <1>10, <1>15, <2>2, <2>3, <2>4 DEF NotesInv
    <2>7. ControlsInv' /\ AckedInv'
      BY <1>3, <1>5, <1>6, <1>11, <1>15, <2>2, <2>3, ValueNumbers
    <2> QED
      BY <1>7, <2>5, <2>6, <2>7
  <1>16. CASE torn = 0 /\ msg[1] = CMD_PITCHBEND
    <2>0. ~IsStatus(msg[2])
      BY <1>2, <1>3, <1>16
    <2>1. status = CMD_PITCHBEND /\ first = msg[2]
      BY <1>1, <1>16, <2>0 DEF LineInv
    <2>2. /\ status' = status /\ first' = NoByte /\ sounding' = sounding
          /\ control' = [control EXCEPT ![CMD_PITCHBEND] = 128 * msg[3] + msg[2]]
      BY <1>1, <1>2, <2>0, <2>1, HearBend
    <2>3. /\ 128 * msg[3] + msg[2] = value[CMD_PITCHBEND]
          /\ CMD_PITCHBEND \in Values /\ mv = CMD_PITCHBEND
      BY <1>1, <1>3, <1>16, MessageKinds, ValuesAre
    <2>4. lost' = lost /\ spoiled' = spoiled \ {CMD_PITCHBEND}
      BY <1>1, <1>3, <1>16 DEF Finish, TakenForControl
    <2>5. control' = [control EXCEPT ![CMD_PITCHBEND] = value[CMD_PITCHBEND]]
      BY <2>2, <2>3
    <2>6. TypeOK'
      <3>1. control' \in [Controls -> Nat \cup {NoByte}]
        BY <2>3, <2>5 DEF TypeOK
      <3> QED
        BY <1>9, <2>1, <2>2, <3>1 DEF TypeOK, StatusBytes
    <2>7. NotesInv'
      BY <1>3, <1>10, <1>16, <2>2, <2>4 DEF NotesInv
    <2>8. ASSUME NEW c \in Controls \ spoiled'
          PROVE  control'[c] \in Told(c) \/ Excused(c)
      <3>1. CASE c = CMD_PITCHBEND
        BY <2>3, <2>5, <3>1 DEF Told, TypeOK
      <3>2. CASE c # CMD_PITCHBEND
        <4>1. control'[c] = control[c] /\ c \in Controls \ spoiled
          BY <2>4, <2>5, <3>2 DEF TypeOK
        <4> QED
          BY <1>3, <1>5, <1>16, <3>2, <4>1
      <3> QED
        BY <3>1, <3>2
    <2>9. \A v \in Values \ spoiled' :
            v # mv => v \notin spoiled /\ control'[v] = control[v]
      BY <2>3, <2>4, <2>5, ValueNumbers DEF TypeOK
    <2> QED
      BY <1>7, <1>11, <2>6, <2>7, <2>8, <2>9
  <1>17. CASE torn = 1 /\ msg[1] # CMD_CC /\ ~IsStatus(msg[2])
    <2>1. status = CMD_CC /\ first = msg[2]
      BY <1>1, <1>17 DEF LineInv
    <2>2. /\ status' = status /\ first' = NoByte
          /\ sounding' = IF msg[2] = CONTROL_ALL_NOTES_OFF_B1 THEN {} ELSE sounding
          /\ control' = IF msg[2] \in Controls THEN [control EXCEPT ![msg[2]] = msg[3]]
                                               ELSE control
      BY <1>1, <1>2, <1>17, <2>1, HearControl
    <2>3. /\ lost' = lost \cup (IF IsNote THEN {msg[2]} ELSE {})
                        \cup (IF msg[2] = CONTROL_ALL_NOTES_OFF_B1 THEN meant ELSE {})
          /\ spoiled' = spoiled \cup ({msg[2]} \cap Controls)
      BY <1>1, <1>17 DEF Finish, TakenForControl, IsClear
    <2>4. TypeOK'
      <3>1. control' \in [Controls -> Nat \cup {NoByte}]
        <4>1. msg[3] \in Nat
          BY <1>2 DEF Bytes
        <4>2. CASE msg[2] \in Controls
          BY <2>2, <4>1, <4>2 DEF TypeOK
        <4>3. CASE msg[2] \notin Controls
          BY <2>2, <4>3 DEF TypeOK
        <4> QED
          BY <4>2, <4>3
      <3>2. sounding' \subseteq Notes
        BY <2>2 DEF TypeOK
      <3> QED
        BY <1>9, <2>1, <2>2, <3>1, <3>2 DEF StatusBytes
    <2>5. NotesInv'
      BY <1>10, <1>17, <2>2, <2>3 DEF NotesInv, IsClear
    <2>6. ASSUME NEW c \in Controls \ spoiled'
          PROVE  /\ control'[c] \in Told(c) \/ Excused(c)
                 /\ c \notin spoiled /\ control'[c] = control[c]
      <3>1. c # msg[2] /\ c \in Controls \ spoiled
        BY <2>3
      <3>2. control'[c] = control[c]
        BY <2>2, <3>1 DEF TypeOK
      <3> QED
        BY <1>5, <1>17, <3>1, <3>2
    <2> QED
      BY <1>7, <1>11, <2>4, <2>5, <2>6, ValueNumbers
  <1> QED
    BY <1>2, <1>4, <1>12, <1>14, <1>15, <1>16, <1>17, <1>13 DEF StatusBytes, IsNote
-------------------------------------------------------------------------------
(* The theorems *)

\* The message of a value sets its controller.
LEMMA ValueSets ==
  ASSUME NEW v \in Values, NEW x \in 0..max_value[v]
  PROVE  /\ ValueMessage(v, x) \in StatusBytes \X NoteBytes \X Bytes
         /\ Sets(ValueMessage(v, x), v)
  BY ValueBytes, StatusAbove DEF StatusBytes, Sets, CMD_CC, CMD_PITCHBEND

LEMMA NextInv == Inv /\ [Next]_vars => Inv'
  <1> SUFFICES ASSUME Inv, [Next]_vars PROVE Inv'
    OBVIOUS
  <1>1. TypeOK /\ PhaseInv
    BY DEF Inv
  <1>0. Idle => all = 0 /\ pc = "idle" /\ mv = NULL
    BY <1>1 DEF Idle, PhaseInv
  <1>2. ASSUME NEW n \in Notes, midi_note_on(n) PROVE Inv'
    <2>1. <<CMD_NOTE_ON, n, MAX_VELOCITY>> \in StatusBytes \X NoteBytes \X Bytes
      BY NotesAssumption DEF StatusBytes, Bytes, NoteBytes, MAX_VELOCITY
    <2>2. midi_uart_initialized => MessageInv'
      BY <1>0, <1>2 DEF midi_note_on, Send, MessageInv
    <2>3. meant \cup {n} \in SUBSET Notes
      BY <1>1 DEF TypeOK
    <2>4. all = 0 /\ pc = "idle" /\ ~(pc = "check")
      BY <1>0, <1>2 DEF midi_note_on
    <2> QED
      BY <1>0, <1>2, <2>1, <2>2, <2>3, <2>4, SendInv DEF midi_note_on
  <1>3. ASSUME NEW n \in Notes, midi_note_off(n) PROVE Inv'
    <2>1. <<CMD_NOTE_OFF, n, MAX_VELOCITY>> \in StatusBytes \X NoteBytes \X Bytes
      BY NotesAssumption DEF StatusBytes, Bytes, NoteBytes, MAX_VELOCITY
    <2>2. midi_uart_initialized => MessageInv'
      BY <1>0, <1>3 DEF midi_note_off, Send, MessageInv
    <2>3. meant \ {n} \in SUBSET Notes
      BY <1>1 DEF TypeOK
    <2>4. all = 0 /\ pc = "idle" /\ ~(pc = "check")
      BY <1>0, <1>3 DEF midi_note_off
    <2> QED
      BY <1>0, <1>3, <2>1, <2>2, <2>3, <2>4, SendInv DEF midi_note_off
  <1>4. CASE midi_clear_notes
    <2>1. <<CMD_CC, CONTROL_ALL_NOTES_OFF_B1, CONTROL_ALL_NOTES_OFF_B2>>
            \in StatusBytes \X NoteBytes \X Bytes
      BY DEF StatusBytes, Bytes, NoteBytes, CONTROL_ALL_NOTES_OFF_B1, CONTROL_ALL_NOTES_OFF_B2
    <2>2. midi_uart_initialized => MessageInv'
      BY <1>0, <1>4 DEF midi_clear_notes, Send, MessageInv
    <2>3. all = 0 /\ pc = "idle" /\ ~(pc = "check")
      BY <1>0, <1>4 DEF midi_clear_notes
    <2> QED
      BY <1>0, <1>4, <2>1, <2>2, <2>3, SendInv DEF midi_clear_notes
  <1>5. ASSUME NEW v \in Values, NEW x \in Settings[v], midi_value_set(v, x) PROVE Inv'
    <2>1. x \in 0..max_value[v]
      BY SettingsAssumption
    <2> QED
      BY <1>5, <2>1, SetInv
  <1>6. CASE SyncDirty
    <2>1. /\ all = 0 /\ pc = "check" /\ ~Clean(mv) /\ mv \in Values
          /\ Send(ValueMessage(mv, value[mv]), meant)
      BY <1>1, <1>6 DEF SyncDirty, PhaseInv
    <2>2. value[mv] \in 0..max_value[mv]
      BY <1>1, <2>1 DEF TypeOK, max_value
    <2>3. midi_uart_initialized => MessageInv'
      BY <2>1 DEF Send, MessageInv, ValueMessage
    <2>4. meant \in SUBSET Notes
      BY <1>1 DEF TypeOK
    <2>5. /\ ValueMessage(mv, value[mv]) \in StatusBytes \X NoteBytes \X Bytes
          /\ Sets(ValueMessage(mv, value[mv]), mv)
      BY <2>1, <2>2, ValueSets
    <2> QED
      BY <2>1, <2>3, <2>4, <2>5, SendInv
  <1>7. CASE uart_putc
    BY <1>1, <1>7, PutcInv, FinishInv DEF TypeOK
  <1>8. CASE SyncClean \/ SendOk \/ SendFailed \/ ClearForce \/ StoreSent
    BY <1>8, SyncInv
  <1>9. CASE Interrupt
    BY <1>9, InterruptInv
  <1>10. CASE InterruptPutc
    BY <1>10, InterruptPutcInv
  <1>11. CASE UNCHANGED vars
    <2>1. /\ UNCHANGED <<midi_uart_initialized, value, sent_value, force_send, pc, mv, msg>>
          /\ UNCHANGED <<i, all, alli, status, first, sounding, control, meant, torn, lost>>
          /\ UNCHANGED <<spoiled, failed>>
      BY <1>11 DEF vars, acks, line, synth, history
    <2>2. TypeOK' /\ MessageInv' /\ PhaseInv'
      BY <2>1 DEF Inv, TypeOK, MessageInv, PhaseInv, ValueMessage
    <2>3. LineInv' /\ NotesInv' /\ SentInv' /\ SilentInv'
      BY <2>1 DEF Inv, LineInv, NotesInv, SentInv, SilentInv, AllMessage, ValueMessage,
                  IsClear, IsNote
    <2>4. ControlsInv' /\ AckedInv' /\ FailedInv'
      BY <2>1 DEF Inv, ControlsInv, Told, Pending, Excused, Forgotten, AckedInv, Sending,
                  FailedInv, Clean
    <2> QED
      BY <2>2, <2>3, <2>4 DEF Inv
  <1> QED
    BY <1>2, <1>3, <1>4, <1>5, <1>6, <1>7, <1>8, <1>9, <1>10, <1>11 DEF Next

\* The inductive invariant of the byte stream: whoever writes, the synthesizer is at the
\* same byte of the same message, or in a torn one with the status of a control change.
THEOREM Invariance == Spec => []Inv
  BY InitInv, NextInv, PTL DEF Spec

\* Every data byte has seven bits, and the synthesizer plays no notes but the keyboard's.
THEOREM TypeCorrect == Spec => []TypeOK
  BY Invariance, PTL DEF Inv

LEMMA IdleNotes == Inv => NotesHeard
  BY DEF Inv, NotesInv, PhaseInv, NotesHeard, Idle

LEMMA IdleControls == Inv => ControlsHeard
  <1> SUFFICES ASSUME Inv, Idle, NEW c \in Controls \ spoiled
               PROVE  control[c] \in Told(c) \/ Excused(c)
    BY DEF ControlsHeard, Told, Excused
  <1> QED
    BY DEF Inv, ControlsInv, PhaseInv, Pending, Idle

\* Wherever interrupts write into messages, no note hangs or is missing but those of torn
\* note messages.
THEOREM NotesAreHeard == Spec => []NotesHeard
  BY Invariance, IdleNotes, PTL

\* Wherever interrupts write into messages, and whichever Bluetooth writes fail, a
\* controller is off its value only after the torn message of a note or a pitch bend, or
\* when the cache has forgotten a value whose send() failed after the UART had taken it.
THEOREM ControlsAreHeard == Spec => []ControlsHeard
  BY Invariance, IdleControls, PTL
===============================================================================
