------------------------------ MODULE MidiValue ------------------------------
(***************************************************************************)
(* midi_value.c over midi.c: the controller values of the keytar, cached so *)
(* that a message goes out only when a value changes, and the analog strip  *)
(* and the menu items that set them.                                        *)
(*                                                                          *)
(* The main loop runs in steps, between any two of which a Bluetooth        *)
(* interrupt can come; an interrupt (a connection with its                  *)
(* midi_value_send_all, a disconnection) runs to its end. The UART always   *)
(* takes a message; a Bluetooth write may fail.                             *)
(***************************************************************************)
EXTENDS Integers

CONSTANTS
  Values,          \* the midi_values[]
  max_value,       \* per value; min_value is 0 for all of them
  default_value,
  EnvelopeValues,  \* those with an item in the Envelope menu
  Roles            \* the Bluetooth roles that may be configured

ASSUME RangeAssumption ==
  /\ max_value \in [Values -> Nat]
  /\ default_value \in [Values -> Nat]
  /\ \A v \in Values : default_value[v] <= max_value[v]

ASSUME EnvelopeAssumption == EnvelopeValues \subseteq Values

ASSUME RolesAssumption == Roles \subseteq {"off", "server", "client"}

NoValue == -1     \* a receiver that was never sent the value

VARIABLES
  value, sent_value, force_send,           \* the fields of every midi_value
  analog_strip_midi_value, reset_on_release,
  touched,                                 \* a finger is on the strip
  role, link,                              \* Bluetooth; link "ready" of a server is
                                           \* con_handle # HCI_CON_HANDLE_INVALID
  uart, peer,                              \* the latest value each receiver was sent
  pc, target, ok,                          \* midi_value_sync and send() of the main
                                           \* loop: next step, mv, and local variable
  failed,                                  \* a write of the latest message failed
  forgotten                                \* see NoteFailure below

cache  == <<value, sent_value, force_send>>
strip  == <<analog_strip_midi_value, reset_on_release, touched>>
radio  == <<role, link>>
call   == <<pc, target, ok>>
memory == <<failed, forgotten>>
vars   == <<cache, strip, radio, uart, peer, call, memory>>

Steps == {"idle", "check", "uart", "server", "client", "ack", "store"}

Init ==
  /\ value = default_value
  /\ sent_value = default_value
  /\ force_send = [v \in Values |-> TRUE]
  /\ analog_strip_midi_value \in Values      \* main assigns the pitch bend
  /\ reset_on_release = TRUE
  /\ touched = FALSE
  /\ role \in Roles                          \* as config_init and midi_ble_init left it
  /\ link = "none"
  /\ uart = [v \in Values |-> NoValue]
  /\ peer = [v \in Values |-> NoValue]
  /\ pc = "idle" /\ target \in Values /\ ok = TRUE
  /\ failed = {} /\ forgotten = {}

-------------------------------------------------------------------------------
(* midi_value_set: the value, then midi_value_sync *)

\* No upper limit.
clamp_low(x, max) == x

clamp_u16(x, max) == IF x > max THEN max ELSE x

midi_value_set(v, x) ==
  /\ pc = "idle"
  /\ value' = [value EXCEPT ![v] = clamp_u16(x, max_value[v])]
  /\ target' = v
  /\ pc' = "check"
  \* What a failed write left behind is forgotten if the value moves on before it
  \* was sent again: the value may come back to sent_value.
  /\ forgotten' = IF v \in failed /\ value'[v] # value[v]
                  THEN forgotten \cup {v} ELSE forgotten
  /\ UNCHANGED <<sent_value, force_send, radio, uart, peer, ok, failed>>

Clean(v) == ~force_send[v] /\ value[v] = sent_value[v]

\* Nothing to send.
SyncClean ==
  /\ pc = "check"
  /\ Clean(target)
  /\ pc' = "idle"
  /\ UNCHANGED <<cache, strip, radio, uart, peer, target, ok, memory>>

SyncDirty ==
  /\ pc = "check"
  /\ ~Clean(target)
  /\ pc' = "uart"
  /\ UNCHANGED <<cache, strip, radio, uart, peer, target, ok, memory>>

\* send(): midi_uart_write. A message begins.
WriteUart ==
  /\ pc = "uart"
  /\ uart' = [uart EXCEPT ![target] = value[target]]
  /\ ok' = TRUE
  /\ failed' = failed \ {target}
  /\ forgotten' = forgotten \ {target}
  /\ pc' = "server"
  /\ UNCHANGED <<cache, strip, radio, peer, target>>

midi_ble_client_is_connected == role = "client" /\ link # "none"

\* con_handle is valid, or the client has a connection
midi_ble_is_connected == link # "none"

\* One write of send(): it reaches the peer, or it fails and send() will say so.
Written ==
  /\ peer' = [peer EXCEPT ![target] = value[target]]
  /\ UNCHANGED <<ok, failed>>

Failed ==
  /\ ok' = FALSE
  /\ failed' = failed \cup {target}
  /\ UNCHANGED peer

Skipped == UNCHANGED <<peer, ok, failed>>

\* send(): midi_ble_server_write, which has no con_handle to write to while the keytar
\* is a client.
WriteServer ==
  /\ pc = "server"
  /\ \/ midi_ble_is_connected /\ role = "server" /\ Written
     \/ midi_ble_is_connected /\ Failed
     \/ ~midi_ble_is_connected /\ Skipped
  /\ pc' = "client"
  /\ UNCHANGED <<cache, strip, radio, uart, target, forgotten>>

\* A sync that does not look at what send() returned.
WriteClientUnchecked ==
  /\ pc = "client"
  /\ \/ midi_ble_client_is_connected /\ Written
     \/ midi_ble_client_is_connected /\ Failed
     \/ ~midi_ble_client_is_connected /\ Skipped
  /\ pc' = "ack"
  /\ UNCHANGED <<cache, strip, radio, uart, target, forgotten>>

\* send(): midi_ble_client_write; midi_value_sync returns when send() failed.
WriteClient ==
  /\ pc = "client"
  /\ \/ midi_ble_client_is_connected /\ Written
     \/ midi_ble_client_is_connected /\ Failed
     \/ ~midi_ble_client_is_connected /\ Skipped
  /\ pc' = IF ok' THEN "ack" ELSE "idle"
  /\ UNCHANGED <<cache, strip, radio, uart, target, forgotten>>

\* The flag is never taken back.
KeepForce ==
  /\ pc = "ack"
  /\ pc' = "store"
  /\ UNCHANGED <<cache, strip, radio, uart, peer, target, ok, memory>>

ClearForce ==
  /\ pc = "ack"
  /\ force_send' = [force_send EXCEPT ![target] = FALSE]
  /\ pc' = "store"
  /\ UNCHANGED <<value, sent_value, strip, radio, uart, peer, target, ok, memory>>

StoreSent ==
  /\ pc = "store"
  /\ sent_value' = [sent_value EXCEPT ![target] = value[target]]
  /\ pc' = "idle"
  /\ UNCHANGED <<value, force_send, strip, radio, uart, peer, target, ok, memory>>

-------------------------------------------------------------------------------
(* Who sets values: the strip and the menus, on the main loop *)

Finger ==
  /\ touched' \in BOOLEAN
  /\ UNCHANGED <<cache, analog_strip_midi_value, reset_on_release, radio, uart, peer, call,
                 memory>>

\* A task that leaves a released strip alone.
StripLeftAlone ==
  /\ ~touched
  /\ reset_on_release
  /\ UNCHANGED vars

\* analog_strip_task
StripTouched ==
  /\ touched
  /\ \E x \in 0..max_value[analog_strip_midi_value] :
       midi_value_set(analog_strip_midi_value, x)
  /\ UNCHANGED strip

StripReleased ==
  /\ ~touched
  /\ reset_on_release
  /\ midi_value_set(analog_strip_midi_value, default_value[analog_strip_midi_value])
  /\ UNCHANGED strip

\* analog_strip_assign, from the two items of the main menu. (The assignment comes
\* after the sync of the old value, which no interrupt can tell.)
analog_strip_assign(v, reset) ==
  /\ pc = "idle"
  /\ v = analog_strip_midi_value \/ reset = reset_on_release
  /\ analog_strip_midi_value' = v
  /\ reset_on_release' = reset
  /\ UNCHANGED touched
  /\ IF reset_on_release
     THEN midi_value_set(analog_strip_midi_value, default_value[analog_strip_midi_value])
     ELSE UNCHANGED <<cache, radio, uart, peer, call, memory>>

\* ui_menu_item_midi_value_navigate, LEFT and RIGHT
MenuValue(v) ==
  /\ \/ value[v] > 0 /\ midi_value_set(v, value[v] - 1)
     \/ midi_value_set(v, value[v] + 1)
  /\ UNCHANGED strip

-------------------------------------------------------------------------------
(* Interrupts *)

\* midi_value_send_all when the writes of the values in delivered succeed. Only a
\* server gets an ok from send().
midi_value_send_all(delivered) ==
  LET acked == IF role = "server" THEN delivered ELSE {}
  IN  /\ uart' = value
      /\ peer' = [v \in Values |-> IF v \in delivered THEN value[v] ELSE peer[v]]
      /\ force_send' = [v \in Values |-> v \notin acked]
      /\ sent_value' = [v \in Values |-> IF v \in acked THEN value[v] ELSE sent_value[v]]
      /\ failed' = Values \ acked
      \* The main loop is about to clear force_send for a message of its own.
      /\ forgotten' = IF pc \in {"client", "ack"} /\ ok /\ target \notin acked
                      THEN (forgotten \ acked) \cup {target}
                      ELSE forgotten \ acked
      /\ UNCHANGED <<value, strip, call>>

\* server_packet_handler, and status_callback once the peripheral is ready
Connected ==
  /\ \/ role = "server" /\ link = "none"
     \/ role = "client" /\ link = "connected"
  /\ link' = "ready"
  /\ UNCHANGED role
  /\ \E delivered \in SUBSET Values : midi_value_send_all(delivered)

\* A client has a connection some time before ble_midi_client_is_ready.
ClientConnecting ==
  /\ role = "client" /\ link = "none"
  /\ link' = "connected"
  /\ UNCHANGED <<role, cache, strip, uart, peer, call, memory>>

\* The next receiver knows nothing of what this one was sent.
Disconnected ==
  /\ link # "none"
  /\ link' = "none"
  /\ peer' = [v \in Values |-> NoValue]
  /\ UNCHANGED <<role, cache, strip, uart, call, memory>>

Sync == \/ SyncClean \/ SyncDirty \/ WriteUart \/ WriteServer \/ WriteClient
        \/ ClearForce \/ StoreSent

StripTask == StripTouched \/ StripReleased

Next == \/ Sync
        \/ Finger
        \/ StripTask
        \/ \E v \in Values, reset \in BOOLEAN : analog_strip_assign(v, reset)
        \/ \E v \in EnvelopeValues : MenuValue(v)
        \/ Connected \/ ClientConnecting \/ Disconnected

Spec == Init /\ [][Next]_vars

\* The main loop goes on, it comes back to the strip, and a write of a value that is
\* tried again and again succeeds at last.
FairSpec == /\ Spec
            /\ WF_vars(Sync)
            /\ SF_vars(StripTask)
            /\ \A v \in Values : SF_vars(target = v /\ WriteServer /\ ok')
-------------------------------------------------------------------------------
(* Properties *)

TypeOK ==
  /\ value \in [Values -> Nat] /\ \A v \in Values : value[v] <= max_value[v]
  /\ sent_value \in [Values -> Nat]
  /\ force_send \in [Values -> BOOLEAN]
  /\ analog_strip_midi_value \in Values
  /\ reset_on_release \in BOOLEAN /\ touched \in BOOLEAN
  /\ role \in Roles
  /\ link \in {"none", "connected", "ready"}
  /\ uart \in [Values -> Nat \cup {NoValue}]
  /\ peer \in [Values -> Nat \cup {NoValue}]
  /\ pc \in Steps /\ target \in Values /\ ok \in BOOLEAN
  /\ failed \subseteq Values /\ forgotten \subseteq Values

\* A value the cache calls clean is what both receivers were sent last, also in the middle
\* of its own sync, where an interrupt would find it clean: through every interleaving of
\* the main loop with connections and lost writes, save where the code loses track of a
\* failed write: the value came back to sent_value before the retry (midi_value.c 10), or
\* the main loop cleared force_send for an earlier message of its own after an interrupt
\* had failed to send (midi_value.c 18).
CacheTellsTruth ==
  \A v \in Values :
    (Clean(v) /\ v \notin forgotten) =>
      uart[v] = value[v] /\ (link = "ready" => peer[v] = value[v])

\* The strip was released for good, while it controlled v and resets on release.
ReleasedForGood(v) == <>[](~touched /\ reset_on_release /\ analog_strip_midi_value = v)

\* The value of a released strip that no menu sets goes back to its default and the cache
\* gets clean, however often a write fails on the way, because the task sets it again in
\* every turn of the main loop. (Not for a client: send() never returns true there.)
ReleaseSettles ==
  role # "client" =>
    \A v \in Values \ EnvelopeValues :
      ReleasedForGood(v) => []<>(value[v] = default_value[v] /\ Clean(v))

\* The default of a released pitch bend ends at the synthesizer, and at a Bluetooth client
\* whose connection stays, however often its message fails before that; unless the code
\* loses track of a failed write: a bend that the UART took and Bluetooth did not stays
\* bent after the release, when the default is what was acknowledged last.
ReleaseIsHeard ==
  role # "client" =>
    \A v \in Values \ EnvelopeValues :
      (ReleasedForGood(v) /\ (<>[](link = "none") \/ <>[](link = "ready"))) =>
        <>[](\/ v \in forgotten
             \/ uart[v] = default_value[v] /\ (link = "ready" => peer[v] = default_value[v]))
==============================================================================
