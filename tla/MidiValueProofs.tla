--------------------------- MODULE MidiValueProofs ---------------------------
(***************************************************************************)
(* Proofs about midi_value.c: what a clean cache entry says, for any number *)
(* of values and any ranges.                                                *)
(***************************************************************************)
EXTENDS MidiValue, TLAPS

\* Both receivers were sent x last.
Told(v, x) == uart[v] = x /\ (link = "ready" => peer[v] = x)

\* The main loop is between the first write of a message and the end of its sync.
InFlight(v) == target = v /\ pc \in {"server", "client", "ack", "store"}

\* Without a failed write behind it, what was acknowledged was told, whatever value
\* has been set since.
AckedIsTold ==
  \A v \in Values :
    (~InFlight(v) /\ v \notin failed /\ v \notin forgotten /\ ~force_send[v]) =>
      Told(v, sent_value[v])

CleanIsTold ==
  \A v \in Values :
    (~InFlight(v) /\ v \notin forgotten /\ Clean(v)) => Told(v, value[v])

\* The message in flight: an interrupt may have sent the value, too.
FlightInv ==
  pc \in {"server", "client", "ack", "store"} =>
    /\ uart[target] = value[target]
    /\ pc # "client" => ok
    /\ (pc = "client" /\ ~ok /\ target \notin failed /\ ~force_send[target]) =>
         Told(target, sent_value[target])
    /\ (pc \in {"client", "ack"} /\ ok /\ target \notin forgotten) =>
         Told(target, value[target])
    /\ (pc = "store" /\ target \notin forgotten /\ ~force_send[target]) =>
         Told(target, value[target])

\* A sync goes on with a dirty value; only an interrupt that told it cleans it.
DirtyInv ==
  (pc \in {"uart", "server", "client"} /\ Clean(target)) => Told(target, value[target])

IInv == TypeOK /\ AckedIsTold /\ CleanIsTold /\ FlightInv /\ DirtyInv

USE DEF cache, strip, radio, call, memory

-------------------------------------------------------------------------------
(* Type correctness *)

LEMMA DefaultsInRange ==
  ASSUME NEW v \in Values
  PROVE  default_value[v] \in Nat /\ max_value[v] \in Nat /\ default_value[v] <= max_value[v]
BY RangeAssumption

LEMMA ClampInRange ==
  ASSUME NEW x \in Nat, NEW max \in Nat
  PROVE  clamp_u16(x, max) \in Nat /\ clamp_u16(x, max) <= max
BY DEF clamp_u16

LEMMA TypeInit == Init => TypeOK
<1> SUFFICES ASSUME Init PROVE TypeOK
  OBVIOUS
<1>1. value \in [Values -> Nat] /\ \A v \in Values : value[v] <= max_value[v]
  BY DefaultsInRange, RangeAssumption DEF Init
<1>2. force_send \in [Values -> BOOLEAN]
  BY DEF Init
<1>3. uart \in [Values -> Nat \cup {NoValue}] /\ peer \in [Values -> Nat \cup {NoValue}]
  BY DEF Init
<1>4. sent_value \in [Values -> Nat]
  BY RangeAssumption DEF Init
<1> QED BY <1>1, <1>2, <1>3, <1>4 DEF Init, TypeOK, Steps

LEMMA TypeOfSet ==
  ASSUME TypeOK, NEW v \in Values, NEW x \in Nat, midi_value_set(v, x)
  PROVE  /\ value' \in [Values -> Nat]
         /\ \A w \in Values : value'[w] <= max_value[w]
         /\ sent_value' \in [Values -> Nat]
         /\ force_send' \in [Values -> BOOLEAN]
         /\ role' \in Roles
         /\ link' \in {"none", "connected", "ready"}
         /\ uart' \in [Values -> Nat \cup {NoValue}]
         /\ peer' \in [Values -> Nat \cup {NoValue}]
         /\ pc' \in Steps /\ target' \in Values /\ ok' \in BOOLEAN
         /\ failed' \subseteq Values /\ forgotten' \subseteq Values
<1>1. clamp_u16(x, max_value[v]) \in Nat /\ clamp_u16(x, max_value[v]) <= max_value[v]
  BY ClampInRange, DefaultsInRange
<1>2. /\ value' \in [Values -> Nat]
      /\ \A w \in Values : value'[w] <= max_value[w]
  BY <1>1 DEF TypeOK, midi_value_set
<1>3. forgotten' \subseteq Values
  BY DEF TypeOK, midi_value_set
<1> QED BY <1>2, <1>3 DEF TypeOK, midi_value_set, Steps

LEMMA TypeOfSync == ASSUME TypeOK, Sync PROVE TypeOK'
<1>1. CASE SyncClean
  BY <1>1 DEF TypeOK, SyncClean, Steps
<1>2. CASE SyncDirty
  BY <1>2 DEF TypeOK, SyncDirty, Steps
<1>3. CASE WriteUart
  <2>1. uart' \in [Values -> Nat \cup {NoValue}]
    BY <1>3 DEF TypeOK, WriteUart
  <2>2. failed' \subseteq Values /\ forgotten' \subseteq Values
    BY <1>3 DEF TypeOK, WriteUart
  <2> QED BY <1>3, <2>1, <2>2 DEF TypeOK, WriteUart, Steps
<1>4. ASSUME Written \/ Failed \/ Skipped
      PROVE  /\ peer' \in [Values -> Nat \cup {NoValue}]
             /\ ok' \in BOOLEAN
             /\ failed' \subseteq Values
  <2>1. CASE Written
    BY <2>1 DEF TypeOK, Written
  <2>2. CASE Failed
    BY <2>2 DEF TypeOK, Failed
  <2>3. CASE Skipped
    BY <2>3 DEF TypeOK, Skipped
  <2> QED BY <1>4, <2>1, <2>2, <2>3
<1>5. CASE WriteServer
  <2>1. Written \/ Failed \/ Skipped
    BY <1>5 DEF WriteServer
  <2> QED BY <1>4, <1>5, <2>1 DEF TypeOK, WriteServer, Steps
<1>6. CASE WriteClient
  <2>1. Written \/ Failed \/ Skipped
    BY <1>6 DEF WriteClient
  <2>2. pc' \in Steps
    BY <1>6 DEF WriteClient, Steps
  <2> QED BY <1>4, <1>6, <2>1, <2>2 DEF TypeOK, WriteClient
<1>7. CASE ClearForce
  BY <1>7 DEF TypeOK, ClearForce, Steps
<1>8. CASE StoreSent
  BY <1>8 DEF TypeOK, StoreSent, Steps
<1> QED BY <1>1, <1>2, <1>3, <1>5, <1>6, <1>7, <1>8 DEF Sync

LEMMA TypeOfSendAll ==
  ASSUME TypeOK, NEW delivered \in SUBSET Values, midi_value_send_all(delivered)
  PROVE  /\ sent_value' \in [Values -> Nat]
         /\ force_send' \in [Values -> BOOLEAN]
         /\ uart' \in [Values -> Nat \cup {NoValue}]
         /\ peer' \in [Values -> Nat \cup {NoValue}]
         /\ failed' \subseteq Values /\ forgotten' \subseteq Values
<1> DEFINE acked == IF role = "server" THEN delivered ELSE {}
<1>1. /\ force_send' = [v \in Values |-> v \notin acked]
      /\ sent_value' = [v \in Values |-> IF v \in acked THEN value[v] ELSE sent_value[v]]
      /\ peer' = [v \in Values |-> IF v \in delivered THEN value[v] ELSE peer[v]]
      /\ uart' = value
      /\ failed' = Values \ acked
      /\ forgotten' = (forgotten \ acked) \cup {target} \/ forgotten' = forgotten \ acked
  BY DEF midi_value_send_all
<1> HIDE DEF acked
<1>2. sent_value' \in [Values -> Nat] /\ peer' \in [Values -> Nat \cup {NoValue}]
  BY <1>1 DEF TypeOK
<1>3. force_send' \in [Values -> BOOLEAN]
  BY <1>1
<1>4. failed' \subseteq Values /\ forgotten' \subseteq Values
  BY <1>1 DEF TypeOK
<1> QED BY <1>1, <1>2, <1>3, <1>4 DEF TypeOK

\* Every way the strip and the menus set a value asks for a natural number.
LEMMA SetsNaturals ==
  ASSUME TypeOK,
         \/ StripTouched \/ StripReleased
         \/ \E v \in EnvelopeValues : MenuValue(v)
         \/ \E v \in Values, reset \in BOOLEAN :
              analog_strip_assign(v, reset) /\ reset_on_release
  PROVE  \E v \in Values, x \in Nat : midi_value_set(v, x)
<1>1. CASE StripTouched
  <2>1. PICK x \in 0..max_value[analog_strip_midi_value] :
          midi_value_set(analog_strip_midi_value, x)
    BY <1>1 DEF StripTouched
  <2>2. analog_strip_midi_value \in Values /\ x \in Nat
    BY DefaultsInRange DEF TypeOK
  <2> QED BY <2>1, <2>2
<1>2. CASE StripReleased \/ \E v \in Values, reset \in BOOLEAN :
                              analog_strip_assign(v, reset) /\ reset_on_release
  <2>1. midi_value_set(analog_strip_midi_value, default_value[analog_strip_midi_value])
    BY <1>2 DEF StripReleased, analog_strip_assign
  <2>2. /\ analog_strip_midi_value \in Values
        /\ default_value[analog_strip_midi_value] \in Nat
    BY DefaultsInRange DEF TypeOK
  <2> QED BY <2>1, <2>2
<1>3. ASSUME NEW v \in EnvelopeValues, MenuValue(v)
      PROVE  \E w \in Values, x \in Nat : midi_value_set(w, x)
  <2>1. v \in Values /\ value[v] \in Nat
    BY EnvelopeAssumption DEF TypeOK
  <2>2. CASE value[v] > 0 /\ midi_value_set(v, value[v] - 1)
    <3>1. value[v] - 1 \in Nat
      BY <2>1, <2>2
    <3> QED BY <2>1, <2>2, <3>1
  <2>3. CASE midi_value_set(v, value[v] + 1)
    <3>1. value[v] + 1 \in Nat
      BY <2>1
    <3> QED BY <2>1, <2>3, <3>1
  <2> QED BY <1>3, <2>2, <2>3 DEF MenuValue
<1> QED BY <1>1, <1>2, <1>3

\* The steps of the main loop outside midi_value_sync either set a value, or leave the
\* cache and what it is about alone.
Bystander == UNCHANGED <<cache, radio, uart, peer, call, memory>>

LEMMA StripAndMenus ==
  ASSUME TypeOK,
         \/ Finger \/ StripTask
         \/ \E v \in Values, reset \in BOOLEAN : analog_strip_assign(v, reset)
         \/ \E v \in EnvelopeValues : MenuValue(v)
  PROVE  /\ Bystander \/ \E v \in Values, x \in Nat : midi_value_set(v, x)
         /\ analog_strip_midi_value' \in Values
         /\ reset_on_release' \in BOOLEAN
         /\ touched' \in BOOLEAN
<1>1. CASE Finger
  BY <1>1 DEF Finger, Bystander, TypeOK
<1>2. CASE StripTask
  <2>1. UNCHANGED strip
    BY <1>2 DEF StripTask, StripTouched, StripReleased
  <2> QED BY <1>2, <2>1, SetsNaturals DEF StripTask, TypeOK
<1>3. ASSUME NEW v \in Values, NEW reset \in BOOLEAN, analog_strip_assign(v, reset)
      PROVE  /\ Bystander \/ \E w \in Values, x \in Nat : midi_value_set(w, x)
             /\ analog_strip_midi_value' \in Values
             /\ reset_on_release' \in BOOLEAN
             /\ touched' \in BOOLEAN
  <2>1. /\ analog_strip_midi_value' \in Values
        /\ reset_on_release' \in BOOLEAN
        /\ touched' \in BOOLEAN
    BY <1>3 DEF analog_strip_assign, TypeOK
  <2>2. CASE reset_on_release
    BY <1>3, <2>1, <2>2, SetsNaturals
  <2>3. CASE ~reset_on_release
    <3>1. Bystander
      BY <1>3, <2>3 DEF analog_strip_assign, Bystander
    <3> QED BY <2>1, <3>1
  <2> QED BY <2>2, <2>3
<1>4. ASSUME NEW v \in EnvelopeValues, MenuValue(v)
      PROVE  /\ \E w \in Values, x \in Nat : midi_value_set(w, x)
             /\ UNCHANGED strip
  <2>1. UNCHANGED strip
    BY <1>4 DEF MenuValue
  <2> QED BY <1>4, <2>1, SetsNaturals
<1> QED BY <1>1, <1>2, <1>3, <1>4 DEF TypeOK

\* What an interrupt may do to the values.
Interrupt ==
  \/ \E delivered \in SUBSET Values :
       /\ role \in {"server", "client"}
       /\ link' = "ready"
       /\ midi_value_send_all(delivered)
  \/ /\ link' = "connected" /\ link = "none"
     /\ UNCHANGED <<cache, strip, uart, peer, call, memory>>
  \/ /\ link' = "none"
     /\ peer' = [v \in Values |-> NoValue]
     /\ UNCHANGED <<cache, strip, uart, call, memory>>

LEMMA Interrupts ==
  ASSUME Connected \/ ClientConnecting \/ Disconnected
  PROVE  Interrupt /\ role' = role
BY DEF Connected, ClientConnecting, Disconnected, Interrupt

LEMMA TypeStep == TypeOK /\ [Next]_vars => TypeOK'
<1> SUFFICES ASSUME TypeOK, [Next]_vars PROVE TypeOK'
  OBVIOUS
<1>1. CASE Sync
  BY <1>1, TypeOfSync
<1>2. CASE \/ Finger \/ StripTask
           \/ \E v \in Values, reset \in BOOLEAN : analog_strip_assign(v, reset)
           \/ \E v \in EnvelopeValues : MenuValue(v)
  <2>1. /\ analog_strip_midi_value' \in Values
        /\ reset_on_release' \in BOOLEAN
        /\ touched' \in BOOLEAN
    BY <1>2, StripAndMenus
  <2>2. CASE Bystander
    BY <2>1, <2>2 DEF Bystander, TypeOK
  <2>3. ASSUME NEW v \in Values, NEW x \in Nat, midi_value_set(v, x) PROVE TypeOK'
    BY <2>1, <2>3, TypeOfSet DEF TypeOK
  <2> QED BY <1>2, <2>2, <2>3, StripAndMenus
<1>3. CASE Connected \/ ClientConnecting \/ Disconnected
  <2>1. Interrupt /\ role' = role
    BY <1>3, Interrupts
  <2>2. ASSUME NEW delivered \in SUBSET Values, link' = "ready",
               midi_value_send_all(delivered)
        PROVE  TypeOK'
    <3>1. UNCHANGED <<value, strip, call>>
      BY <2>2 DEF midi_value_send_all
    <3> QED BY <2>1, <2>2, <3>1, TypeOfSendAll DEF TypeOK
  <2>3. CASE link' = "connected" /\ UNCHANGED <<cache, strip, uart, peer, call, memory>>
    BY <2>1, <2>3 DEF TypeOK
  <2>4. CASE /\ link' = "none"
             /\ peer' = [v \in Values |-> NoValue]
             /\ UNCHANGED <<cache, strip, uart, call, memory>>
    <3>1. peer' \in [Values -> Nat \cup {NoValue}]
      BY <2>4
    <3> QED BY <2>1, <2>4, <3>1 DEF TypeOK
  <2> QED BY <2>1, <2>2, <2>3, <2>4 DEF Interrupt
<1>4. CASE UNCHANGED vars
  BY <1>4 DEF TypeOK, vars
<1> QED BY <1>1, <1>2, <1>3, <1>4 DEF Next

\* Type correctness, with every value within the range its message can carry: the menu
\* and the strip cannot push one out of it.
THEOREM TypeCorrect == Spec => []TypeOK
BY TypeInit, TypeStep, PTL DEF Spec

-------------------------------------------------------------------------------
(* The inductive invariant *)

LEMMA InvInit == Init => IInv
<1> SUFFICES ASSUME Init PROVE IInv
  OBVIOUS
<1>1. TypeOK
  BY TypeInit
<1>2. pc = "idle" /\ \A v \in Values : force_send[v]
  BY DEF Init
<1>3. AckedIsTold /\ CleanIsTold /\ FlightInv /\ DirtyInv
  BY <1>2 DEF AckedIsTold, CleanIsTold, FlightInv, DirtyInv, Clean
<1> QED BY <1>1, <1>3 DEF IInv

\* Before a sync nothing is in flight; a value that moves on after a failed write is
\* forgotten, and without one sent_value was told.
LEMMA InvSet ==
  ASSUME IInv, NEW v \in Values, NEW x \in Nat, midi_value_set(v, x)
  PROVE  AckedIsTold' /\ CleanIsTold' /\ FlightInv' /\ DirtyInv'
<1>1. pc = "idle" /\ pc' = "check"
  BY DEF midi_value_set
<1>2. /\ UNCHANGED <<sent_value, force_send, uart, peer, link, failed>>
      /\ forgotten \subseteq forgotten'
      /\ \A w \in Values : value'[w] # value[w] => w = v
      /\ value'[v] # value[v] /\ v \in failed => v \in forgotten'
  BY DEF midi_value_set, IInv, TypeOK
<1>3. AckedIsTold'
  BY <1>1, <1>2 DEF IInv, AckedIsTold, InFlight, Told
<1>4. ASSUME NEW w \in Values, w \notin forgotten', ~force_send[w], value'[w] = sent_value[w]
      PROVE  uart[w] = value'[w] /\ (link = "ready" => peer[w] = value'[w])
  <2>1. CASE value'[w] = value[w]
    BY <1>1, <1>2, <1>4, <2>1 DEF IInv, CleanIsTold, Clean, InFlight, Told
  <2>2. CASE value'[w] # value[w]
    BY <1>1, <1>2, <1>4, <2>2 DEF IInv, AckedIsTold, InFlight, Told
  <2> QED BY <2>1, <2>2
<1>5. CleanIsTold'
  BY <1>2, <1>4 DEF CleanIsTold, Clean, Told
<1>6. FlightInv' /\ DirtyInv'
  BY <1>1 DEF FlightInv, DirtyInv
<1> QED BY <1>3, <1>5, <1>6

LEMMA InvSync ==
  ASSUME IInv, Sync
  PROVE  AckedIsTold' /\ CleanIsTold' /\ FlightInv' /\ DirtyInv'
<1> USE DEF IInv, TypeOK
<1>1. CASE SyncClean \/ SyncDirty
  BY <1>1 DEF SyncClean, SyncDirty, AckedIsTold, CleanIsTold, FlightInv, DirtyInv, InFlight,
     Clean, Told
<1>2. CASE WriteUart
  <2>1. \A v \in Values : v # target => uart'[v] = uart[v]
    BY <1>2 DEF WriteUart
  <2>2. uart'[target] = value[target]
    BY <1>2 DEF WriteUart
  <2>3. AckedIsTold' /\ CleanIsTold'
    BY <1>2, <2>1 DEF WriteUart, AckedIsTold, CleanIsTold, InFlight, Clean, Told
  <2>4. DirtyInv'
    BY <1>2, <2>2 DEF WriteUart, DirtyInv, Clean, Told
  <2>5. FlightInv'
    BY <1>2, <2>2 DEF WriteUart, FlightInv
  <2> QED BY <2>3, <2>4, <2>5
<1>3. ASSUME Written \/ Failed \/ Skipped, UNCHANGED <<cache, link, uart, target, forgotten>>
      PROVE  \A v \in Values : v # target =>
               /\ peer'[v] = peer[v]
               /\ v \in failed' <=> v \in failed
               /\ Told(v, value[v])' <=> Told(v, value[v])
               /\ Told(v, sent_value[v])' <=> Told(v, sent_value[v])
               /\ Clean(v)' <=> Clean(v)
  <2>1. \A v \in Values : v # target => peer'[v] = peer[v] /\ (v \in failed' <=> v \in failed)
    BY <1>3 DEF Written, Failed, Skipped
  <2> QED BY <1>3, <2>1 DEF Told, Clean
<1>4. CASE WriteServer
  <2>1. /\ pc = "server" /\ pc' = "client" /\ target' = target
        /\ UNCHANGED <<cache, link, uart, forgotten>>
    BY <1>4 DEF WriteServer
  <2>2. Written \/ Failed \/ Skipped
    BY <1>4 DEF WriteServer
  <2>3. AckedIsTold' /\ CleanIsTold'
    BY <1>3, <2>1, <2>2 DEF AckedIsTold, CleanIsTold, InFlight
  <2>4. uart[target] = value[target] /\ ok
    BY <2>1 DEF FlightInv
  <2>5. CASE midi_ble_is_connected /\ role = "server" /\ Written
    <3>1. peer'[target] = value[target] /\ ok' = ok /\ failed' = failed
      BY <2>5 DEF Written
    <3> QED BY <2>1, <2>3, <2>4, <3>1 DEF FlightInv, DirtyInv, Told
  <2>6. CASE midi_ble_is_connected /\ Failed
    <3>1. ~ok' /\ target \in failed' /\ peer' = peer
      BY <2>6 DEF Failed
    <3> QED BY <2>1, <2>3, <2>4, <3>1 DEF FlightInv, DirtyInv, Told, Clean
  <2>7. CASE ~midi_ble_is_connected /\ Skipped
    <3>1. link = "none" /\ ok' = ok /\ failed' = failed /\ peer' = peer
      BY <2>7 DEF Skipped, midi_ble_is_connected
    <3> QED BY <2>1, <2>3, <2>4, <3>1 DEF FlightInv, DirtyInv, Told, Clean
  <2> QED BY <1>4, <2>5, <2>6, <2>7 DEF WriteServer
<1>5. CASE WriteClient
  <2>1. /\ pc = "client" /\ pc' = (IF ok' THEN "ack" ELSE "idle") /\ target' = target
        /\ UNCHANGED <<cache, link, uart, forgotten>>
    BY <1>5 DEF WriteClient
  <2>2. Written \/ Failed \/ Skipped
    BY <1>5 DEF WriteClient
  <2>3. uart[target] = value[target]
    BY <2>1 DEF FlightInv
  <2>4. DirtyInv'
    BY <2>1 DEF DirtyInv
  <2>5. \A v \in Values : v # target =>
          /\ ~InFlight(v) /\ ~InFlight(v)'
          /\ peer'[v] = peer[v]
          /\ v \in failed' <=> v \in failed
          /\ Told(v, value[v])' <=> Told(v, value[v])
          /\ Told(v, sent_value[v])' <=> Told(v, sent_value[v])
          /\ Clean(v)' <=> Clean(v)
    BY <1>3, <2>1, <2>2 DEF InFlight
  <2>6. CASE ok'
    <3>1. InFlight(target)'
      BY <2>1, <2>6 DEF InFlight
    <3>2. AckedIsTold' /\ CleanIsTold'
      BY <2>1, <2>5, <3>1 DEF AckedIsTold, CleanIsTold
    <3>3. ok /\ (peer' = peer \/ peer'[target] = value[target])
      BY <2>2, <2>6 DEF Written, Failed, Skipped
    <3>4. FlightInv'
      BY <2>1, <2>3, <2>6, <3>3 DEF FlightInv, Told
    <3> QED BY <2>4, <3>2, <3>4
  <2>7. CASE ~ok'
    <3>1. FlightInv'
      BY <2>1, <2>7 DEF FlightInv
    <3>2. Clean(target)' => Told(target, value[target])'
      <4>1. peer' = peer \/ peer'[target] = value[target]
        BY <2>2 DEF Written, Failed, Skipped
      <4> QED BY <2>1, <2>3, <4>1 DEF DirtyInv, Told, Clean
    <3>3. (target \notin failed' /\ ~force_send[target]) => Told(target, sent_value[target])'
      <4>1. CASE Failed
        BY <4>1 DEF Failed
      <4>2. CASE Skipped
        BY <2>1, <2>7, <4>2 DEF Skipped, FlightInv, Told
      <4>3. CASE Written
        <5>1. ~ok /\ failed' = failed /\ peer'[target] = value[target]
          BY <2>7, <4>3 DEF Written
        <5>2. (target \notin failed' /\ ~force_send[target]) => Told(target, sent_value[target])
          BY <2>1, <5>1 DEF FlightInv
        <5>3. Told(target, sent_value[target]) => sent_value[target] = value[target]
          BY <2>3 DEF Told
        <5> QED BY <2>1, <2>3, <5>1, <5>2, <5>3 DEF Told
      <4> QED BY <2>2, <4>1, <4>2, <4>3
    <3>4. AckedIsTold'
      BY <2>1, <2>5, <3>3 DEF AckedIsTold
    <3>5. CleanIsTold'
      BY <2>1, <2>5, <3>2 DEF CleanIsTold
    <3> QED BY <2>4, <3>1, <3>4, <3>5
  <2> QED BY <2>6, <2>7
<1>6. CASE ClearForce
  <2>1. \A v \in Values : v # target => (force_send'[v] <=> force_send[v])
    BY <1>6 DEF ClearForce
  <2>2. AckedIsTold' /\ CleanIsTold'
    BY <1>6, <2>1 DEF ClearForce, AckedIsTold, CleanIsTold, InFlight, Clean, Told
  <2>3. FlightInv' /\ DirtyInv'
    BY <1>6 DEF ClearForce, FlightInv, DirtyInv, Told
  <2> QED BY <2>2, <2>3
<1>7. CASE StoreSent
  <2>1. /\ pc = "store" /\ pc' = "idle" /\ target' = target
        /\ UNCHANGED <<value, force_send, link, uart, peer, failed, forgotten>>
    BY <1>7 DEF StoreSent
  <2>2. /\ \A v \in Values : v # target => sent_value'[v] = sent_value[v]
        /\ sent_value'[target] = value[target]
    BY <1>7 DEF StoreSent
  <2>3. (target \notin forgotten /\ ~force_send[target]) => Told(target, value[target])
    BY <2>1 DEF FlightInv
  <2>4. AckedIsTold' /\ CleanIsTold'
    BY <2>1, <2>2, <2>3 DEF AckedIsTold, CleanIsTold, InFlight, Clean, Told
  <2>5. FlightInv' /\ DirtyInv'
    BY <2>1 DEF FlightInv, DirtyInv
  <2> QED BY <2>4, <2>5
<1> QED BY <1>1, <1>2, <1>4, <1>5, <1>6, <1>7 DEF Sync

\* After an interrupt only what it got through to both receivers counts as clean.
LEMMA InvInterrupt ==
  ASSUME IInv, Interrupt
  PROVE  AckedIsTold' /\ CleanIsTold' /\ FlightInv' /\ DirtyInv'
<1> USE DEF IInv, TypeOK
<1>1. ASSUME NEW delivered \in SUBSET Values, role \in {"server", "client"},
             link' = "ready", midi_value_send_all(delivered)
      PROVE  AckedIsTold' /\ CleanIsTold' /\ FlightInv' /\ DirtyInv'
  <2> DEFINE acked == IF role = "server" THEN delivered ELSE {}
  <2>1. /\ force_send' = [v \in Values |-> v \notin acked]
        /\ sent_value' = [v \in Values |-> IF v \in acked THEN value[v] ELSE sent_value[v]]
        /\ peer' = [v \in Values |-> IF v \in delivered THEN value[v] ELSE peer[v]]
        /\ uart' = value /\ failed' = Values \ acked
        /\ UNCHANGED <<value, call>>
        /\ (pc \in {"client", "ack"} /\ ok /\ target \notin acked) => target \in forgotten'
    BY <1>1 DEF midi_value_send_all
  <2>2. acked \subseteq delivered
    OBVIOUS
  <2> HIDE DEF acked
  <2>3. \A v \in Values : v \in acked => Told(v, value[v])' /\ Told(v, sent_value[v])'
    BY <2>1, <2>2 DEF Told
  <2>4. \A v \in Values : (force_send'[v] <=> v \notin acked) /\ (v \in failed' <=> v \notin acked)
    BY <2>1
  <2>5. AckedIsTold' /\ CleanIsTold'
    BY <2>3, <2>4 DEF AckedIsTold, CleanIsTold, Clean
  <2>6. FlightInv'
    BY <2>1, <2>3, <2>4 DEF FlightInv
  <2>7. DirtyInv'
    BY <2>1, <2>3, <2>4 DEF DirtyInv, Clean
  <2> QED BY <2>5, <2>6, <2>7
<1>2. ASSUME link' # "ready", UNCHANGED <<cache, uart, call, memory>>
      PROVE  AckedIsTold' /\ CleanIsTold' /\ FlightInv' /\ DirtyInv'
  <2>1. AckedIsTold' /\ CleanIsTold'
    BY <1>2 DEF AckedIsTold, CleanIsTold, Clean, InFlight, Told
  <2>2. FlightInv' /\ DirtyInv'
    BY <1>2 DEF FlightInv, DirtyInv, Clean, Told
  <2> QED BY <2>1, <2>2
<1> QED BY <1>1, <1>2 DEF Interrupt

LEMMA InvStep == IInv /\ [Next]_vars => IInv'
<1> SUFFICES ASSUME IInv, [Next]_vars PROVE IInv'
  OBVIOUS
<1>1. TypeOK /\ TypeOK'
  BY TypeStep DEF IInv
<1>2. ASSUME UNCHANGED <<cache, radio, uart, peer, call, memory>>
      PROVE  AckedIsTold' /\ CleanIsTold' /\ FlightInv' /\ DirtyInv'
  BY <1>2 DEF IInv, AckedIsTold, CleanIsTold, FlightInv, DirtyInv, InFlight, Clean, Told
<1>3. CASE Sync
  BY <1>1, <1>3, InvSync DEF IInv
<1>4. CASE \/ Finger \/ StripTask
           \/ \E v \in Values, reset \in BOOLEAN : analog_strip_assign(v, reset)
           \/ \E v \in EnvelopeValues : MenuValue(v)
  <2>1. Bystander \/ \E v \in Values, x \in Nat : midi_value_set(v, x)
    BY <1>1, <1>4, StripAndMenus
  <2> QED BY <1>1, <1>2, <2>1, InvSet DEF IInv, Bystander
<1>5. CASE Connected \/ ClientConnecting \/ Disconnected
  BY <1>1, <1>5, Interrupts, InvInterrupt DEF IInv
<1>6. CASE UNCHANGED vars
  BY <1>1, <1>2, <1>6 DEF IInv, vars
<1> QED BY <1>3, <1>4, <1>5, <1>6 DEF Next

\* The inductive invariant: what the bookkeeping of midi_value.c relies on at every
\* point between the first write of a message and the end of its sync.
THEOREM Invariance == Spec => []IInv
BY InvInit, InvStep, PTL DEF Spec

\* A clean value is what both receivers were sent last, for any set of values, any
\* ranges, and any interleaving with connections and lost writes.
THEOREM CacheTruth == Spec => []CacheTellsTruth
<1>1. IInv => CacheTellsTruth
  <2> SUFFICES ASSUME IInv, NEW v \in Values, Clean(v), v \notin forgotten
               PROVE  Told(v, value[v])
    BY DEF CacheTellsTruth, Told
  <2>1. CASE ~InFlight(v)
    BY <2>1 DEF IInv, CleanIsTold
  <2>2. CASE InFlight(v) /\ pc \in {"server", "client"}
    BY <2>2 DEF IInv, DirtyInv, InFlight
  <2>3. CASE InFlight(v) /\ pc \in {"ack", "store"}
    BY <2>3 DEF IInv, FlightInv, InFlight, Clean
  <2> QED BY <2>1, <2>2, <2>3 DEF InFlight
<1> QED BY <1>1, Invariance, PTL

\* Without Bluetooth no write fails, and there is nothing to forget.
OffInv == role = "off" => link = "none" /\ failed = {} /\ forgotten = {}

LEMMA OffStep == OffInv /\ [Next]_vars => OffInv'
<1> SUFFICES ASSUME OffInv, [Next]_vars, role' = "off"
             PROVE  link' = "none" /\ failed' = {} /\ forgotten' = {}
  BY DEF OffInv
<1>1. role = "off" /\ link = "none" /\ failed = {} /\ forgotten = {}
  <2>1. role' = role
    BY DEF Next, vars, Sync, SyncClean, SyncDirty, WriteUart, WriteServer, WriteClient,
           ClearForce, StoreSent, Finger, StripTask, StripTouched, StripReleased,
           analog_strip_assign, MenuValue, midi_value_set, Connected, ClientConnecting,
           Disconnected
  <2> QED BY <2>1 DEF OffInv
<1>2. ASSUME NEW v, NEW x, midi_value_set(v, x)
      PROVE  link' = "none" /\ failed' = {} /\ forgotten' = {}
  BY <1>1, <1>2 DEF midi_value_set
<1>3. CASE Sync
  BY <1>1, <1>3
     DEF Sync, SyncClean, SyncDirty, WriteUart, WriteServer, WriteClient, ClearForce,
         StoreSent, midi_ble_is_connected, midi_ble_client_is_connected, Skipped
<1>4. CASE Finger \/ UNCHANGED vars
  BY <1>1, <1>4 DEF Finger, vars
<1>5. CASE StripTask
  BY <1>2, <1>5 DEF StripTask, StripTouched, StripReleased
<1>6. ASSUME NEW v \in Values, NEW reset \in BOOLEAN, analog_strip_assign(v, reset)
      PROVE  link' = "none" /\ failed' = {} /\ forgotten' = {}
  BY <1>1, <1>2, <1>6 DEF analog_strip_assign
<1>7. ASSUME NEW v \in EnvelopeValues, MenuValue(v)
      PROVE  link' = "none" /\ failed' = {} /\ forgotten' = {}
  BY <1>2, <1>7 DEF MenuValue
<1>8. ~(Connected \/ ClientConnecting \/ Disconnected)
  BY <1>1 DEF Connected, ClientConnecting, Disconnected
<1> QED BY <1>3, <1>4, <1>5, <1>6, <1>7, <1>8 DEF Next

\* With Bluetooth off the cache is never wrong: a value it calls clean is the one the
\* synthesizer on the UART was sent last, at every point of the main loop.
THEOREM OffCacheTruth ==
  Spec => [](role = "off" => \A v \in Values : Clean(v) => uart[v] = value[v])
<1>1. Init => OffInv
  BY DEF Init, OffInv
<1>2. OffInv /\ CacheTellsTruth =>
        (role = "off" => \A v \in Values : Clean(v) => uart[v] = value[v])
  BY DEF OffInv, CacheTellsTruth
<1> QED BY <1>1, <1>2, OffStep, CacheTruth, PTL DEF Spec
===============================================================================
