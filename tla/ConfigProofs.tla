------------------------------ MODULE ConfigProofs ------------------------------
(***************************************************************************)
(* Proofs about Config, for any devices, number of layouts and padding.     *)
(***************************************************************************)
EXTENDS Config, TLAPS

\* A page from which a client learns of a device it was connected to before.
NamesDevice(page) ==
  (ValidPage(page) /\ page.mode = "client") => page.addr \in met

\* The inductive invariant: besides the types, RAM is blank until config_init has run and
\* there is no connection until midi_ble_init has, a page is erased before it is
\* programmed, the library's last address is that of the connected device, and unless power
\* was lost in a write the address of a device that was connected goes with the mode
\* client, wherever the two are kept.
Inv ==
  /\ TypeOK
  /\ pc \in {"off", "load"} => keymap = 0 /\ initial = OffState
  /\ pc \in {"off", "load", "start"} => link = "none"
  /\ link = "connected" => last \in met
  /\ pc = "program" => flash = Erased
  /\ ~cut => NamesDevice(flash) /\ NamesDevice(config)
  /\ RemembersRealDevice

USE KeymapsAssumption, DevicesAssumption

LEMMA BetweenTyped ==
  ASSUME NEW old \in PageFields, NEW new \in PageFields, NEW page \in Between(old, new)
  PROVE  page \in PageFields
  BY DEF Between, Bytes, Byte, PageFields

LEMMA ErasedTyped == Erased \in PageFields
  BY DEF Erased, Page, PageFields, ErasedIndex

LEMMA ErasedNamesNone == NamesDevice(Erased)
  BY DEF NamesDevice, ValidPage, Erased, Page

LEMMA CollectedTyped ==
  ASSUME TypeOK, NEW padding \in Paddings
  PROVE  Collected(padding) \in PageFields
  BY DEF TypeOK, Collected, Page, PageFields

LEMMA InitInv == Init => Inv
  <1> SUFFICES ASSUME Init PROVE Inv
    OBVIOUS
  <1>1. flash \in PageFields /\ NamesDevice(flash)
    BY ErasedTyped, ErasedNamesNone DEF Init, Page, PageFields, NamesDevice, ValidPage, Modes
  <1>2. TypeOK
    <2>1. keymap \in 0..(N_KEYMAPS - 1)
      BY DEF Init
    <2>2. initial \in [mode : Modes \cup {"erased"},
                       addr : Devices \cup {"nobody", "erased", "mixed"}]
      BY DEF Init, OffState, Modes
    <2>3. met \subseteq Devices
      BY DEF Init, ValidPage, Erased, Page
    <2> QED
      BY <1>1, <2>1, <2>2, <2>3, ErasedTyped DEF Init, TypeOK, Modes
  <1> QED
    BY <1>1, <1>2, ErasedNamesNone DEF Init, Inv, RemembersRealDevice, OffState

LEMMA NextInv == Inv /\ [Next]_vars => Inv'
  <1> SUFFICES ASSUME Inv, [Next]_vars PROVE Inv'
    OBVIOUS
  <1> USE DEF Inv, RemembersRealDevice, history
  <1>1. CASE PowerOn
    BY <1>1 DEF PowerOn, TypeOK, ram, NamesDevice
  <1>2. CASE config_init
    <2>1. TypeOK'
      BY <1>2 DEF config_init, load_internal, TypeOK, PageFields, ErasedIndex
    <2>2. (~cut /\ initial'.mode = "client") => initial'.addr \in met
      BY <1>2 DEF config_init, load_internal, NamesDevice
    <2> QED
      BY <1>2, <2>1, <2>2 DEF config_init, NamesDevice
  <1>3. CASE midi_ble_init
    <2>1. role' \in Modes
      BY <1>3 DEF midi_ble_init, TypeOK, Modes
    <2>2. last' \in Devices \cup {"nobody", "erased", "mixed"}
      BY <1>3 DEF midi_ble_init, TypeOK
    <2>3. link' = "connected" => last' \in met
      BY <1>3 DEF midi_ble_init
    <2> QED
      BY <1>3, <2>1, <2>2, <2>3 DEF midi_ble_init, TypeOK, NamesDevice
  <1>4. CASE set_keymap
    BY <1>4 DEF set_keymap, Running, TypeOK, NamesDevice
  <1>5. CASE SwitchRole
    BY <1>5 DEF SwitchRole, Running, TypeOK, NamesDevice
  <1>6. CASE ClientConnected
    BY <1>6 DEF ClientConnected, Running, TypeOK, NamesDevice
  <1>7. CASE ClientDisconnected
    BY <1>7 DEF ClientDisconnected, Running, TypeOK, NamesDevice
  <1>8. CASE midi_ble_set_state_as_initial
    BY <1>8 DEF midi_ble_set_state_as_initial, midi_ble_get_state, OffState, Running,
                TypeOK, NamesDevice, Modes
  <1>9. CASE SaveUnchanged
    BY <1>9 DEF SaveUnchanged, vars, ram, TypeOK, NamesDevice
  <1>10. CASE SaveBegin
    <2>1. PICK padding \in Paddings : config' = Collected(padding)
      BY <1>10 DEF SaveBegin
    <2>2. config' \in PageFields
      BY <2>1, CollectedTyped
    <2>3. ~cut => NamesDevice(config')
      BY <2>1 DEF NamesDevice, Collected, Page
    <2> QED
      BY <1>10, <2>2, <2>3 DEF SaveBegin, Running, TypeOK, ram, NamesDevice
  <1>11. CASE flash_range_erase
    BY <1>11, ErasedTyped, ErasedNamesNone DEF flash_range_erase, TypeOK, ram, NamesDevice
  <1>12. CASE flash_range_program
    BY <1>12, ErasedTyped, ErasedNamesNone DEF flash_range_program, TypeOK, ram, NamesDevice
  <1>13. CASE PowerLoss
    <2>1. flash' \in PageFields
      BY <1>13, BetweenTyped, ErasedTyped DEF PowerLoss, TypeOK
    <2>2. ~cut' => NamesDevice(flash')
      BY <1>13 DEF PowerLoss, NamesDevice
    <2>3. TypeOK'
      BY <1>13, <2>1, ErasedTyped DEF PowerLoss, TypeOK, OffState, Modes
    <2> QED
      BY <1>13, <2>2, <2>3, ErasedNamesNone DEF PowerLoss, OffState, NamesDevice
  <1>14. CASE UNCHANGED vars
    BY <1>14 DEF vars, ram, TypeOK, NamesDevice
  <1> QED
    BY <1>1, <1>2, <1>3, <1>4, <1>5, <1>6, <1>7, <1>8, <1>9, <1>10, <1>11, <1>12, <1>13,
       <1>14 DEF Next

\* The inductive invariant of the configuration: RAM, flash and the page in the making
\* agree on what a remembered client needs.
THEOREM Invariance == Spec => []Inv
  BY InitInv, NextInv, PTL DEF Spec

\* Every field of the page keeps to its values whatever power losses leave, and the
\* selected layout is one of keymaps[].
THEOREM TypeCorrect == Spec => []TypeOK
  BY Invariance, PTL DEF Inv

\* A remembered client has the address of a device it was connected to.
THEOREM RemembersReal == Spec => []RemembersRealDevice
  BY Invariance, PTL DEF Inv
-------------------------------------------------------------------------------
(* Config implements SettingsStore: the settings a start finds are those in the page, *)
(* as load_internal and midi_ble_init take them. PowerOn, the start of Bluetooth and   *)
(* all that happens to the link are stutters.                                          *)

LEMMA PageSettings ==
  ASSUME NEW page \in PageFields
  PROVE  SettingsIn(page) \in Store!Settings
  <1> DEFINE k == IF page.keymap_index < N_KEYMAPS THEN page.keymap_index ELSE 0
  <1>1. k \in 0..(N_KEYMAPS - 1) /\ 0 \in 0..(N_KEYMAPS - 1)
    BY DEF PageFields, ErasedIndex
  <1>2. \A m : ModeOf(m) \in Modes
    BY DEF ModeOf, Modes
  <1>3. \A a : AddressOf(a) \in Devices \cup {"nobody"}
    BY DEF AddressOf
  <1> QED
    BY <1>1, <1>2, <1>3 DEF SettingsIn, Store!Settings, Modes

LEMMA DefaultSettings ==
  SettingsIn(Erased) = [keymap |-> 0, mode |-> "off", addr |-> "nobody"]
  BY DEF SettingsIn, ValidPage, Erased, Page

\* In a page that a write of new over an erased page, or an erase of old, left half done,
\* each setting is that of the page written or erased, or the default.
LEMMA BetweenBlends ==
  ASSUME NEW whole \in PageFields,
         NEW page \in Between(whole, Erased) \cup Between(Erased, whole)
  PROVE  Store!Blend(SettingsIn(page), {SettingsIn(whole), SettingsIn(Erased)})
  <1>1. CASE ~ValidPage(page)
    <2>1. SettingsIn(page) = SettingsIn(Erased)
      BY <1>1, DefaultSettings DEF SettingsIn
    <2> QED
      BY <2>1 DEF Store!Blend
  <1>2. CASE ValidPage(page)
    <2>1. ValidPage(whole)
      BY <1>2 DEF ValidPage, Between, Bytes, Erased, Page
    <2>2. /\ page.keymap_index \in {whole.keymap_index, ErasedIndex}
          /\ page.mode \in {whole.mode, "erased"}
          /\ page.addr \in {whole.addr, "erased", "mixed"}
      BY DEF Between, Bytes, Byte, Erased, Page
    <2>3. SettingsIn(page).keymap \in {SettingsIn(whole).keymap, 0}
      BY <1>2, <2>1, <2>2 DEF SettingsIn, ErasedIndex
    <2>4. SettingsIn(page).mode \in {SettingsIn(whole).mode, "off"}
      BY <1>2, <2>1, <2>2 DEF SettingsIn, ModeOf
    <2>5. SettingsIn(page).addr \in {SettingsIn(whole).addr, "nobody"}
      BY <1>2, <2>1, <2>2 DEF SettingsIn, AddressOf
    <2> QED
      BY <2>3, <2>4, <2>5, DefaultSettings DEF Store!Blend
  <1> QED
    BY <1>1, <1>2

LEMMA RefinesInit == Inv /\ Init => Store!Init
  BY PageSettings, DefaultSettings
     DEF Inv, TypeOK, Init, Store!Init, ModeOf, AddressOf, OffState

LEMMA RefinesStep == Inv /\ Inv' /\ [Next]_vars => [Store!Next]_Store!vars
  <1> SUFFICES ASSUME Inv, Inv', [Next]_vars PROVE [Store!Next]_Store!vars
    OBVIOUS
  <1> DEFINE Current == [keymap |-> keymap, mode |-> ModeOf(initial.mode),
                         addr |-> AddressOf(initial.addr)]
             Found == SettingsIn(flash)
             Saving == IF pc \in {"erase", "program"} THEN {SettingsIn(config)} ELSE {}
             On == pc \notin {"off", "load"}
  <1>a. /\ Current \in Store!Settings /\ Current' \in Store!Settings
        /\ Found \in Store!Settings /\ Found' \in Store!Settings
    BY PageSettings DEF Inv, TypeOK, Store!Settings, ModeOf, AddressOf, Modes
  <1>1. ASSUME PowerOn \/ midi_ble_init \/ SwitchRole \/ ClientConnected
               \/ ClientDisconnected \/ SaveUnchanged \/ UNCHANGED vars
        PROVE  UNCHANGED Store!vars
    BY <1>1 DEF PowerOn, midi_ble_init, SwitchRole, ClientConnected, ClientDisconnected,
                SaveUnchanged, Running, vars, ram, Store!vars
  <1>2. ASSUME config_init PROVE Store!Start
    <2>1. Current' = Found
      BY <1>2 DEF config_init, load_internal, Inv, OffState, SettingsIn, ModeOf, AddressOf
    <2> QED
      BY <1>2, <2>1 DEF config_init, Store!Start
  <1>3. ASSUME set_keymap \/ midi_ble_set_state_as_initial PROVE Store!Choose
    BY <1>3, <1>a DEF set_keymap, midi_ble_set_state_as_initial, Running, Store!Choose
  <1>4. ASSUME SaveBegin PROVE Store!BeginSave
    <2>1. PICK padding \in Paddings : config' = Collected(padding)
      BY <1>4 DEF SaveBegin
    <2>2. SettingsIn(config') = Current
      BY <2>1 DEF Collected, Page, SettingsIn, ValidPage, Inv, TypeOK
    <2> QED
      BY <1>4, <2>2 DEF SaveBegin, Running, ram, Store!BeginSave
  <1>5. ASSUME flash_range_erase PROVE Store!Clear
    BY <1>5 DEF flash_range_erase, ram, Store!Clear
  <1>6. ASSUME flash_range_program PROVE Store!Store
    BY <1>6 DEF flash_range_program, ram, Store!Store
  <1>7. ASSUME PowerLoss PROVE Store!PowerLoss \/ UNCHANGED Store!vars
    <2>1. Current' = SettingsIn(Erased) /\ Saving' = {} /\ ~On'
      BY <1>7, DefaultSettings DEF PowerLoss, OffState, ModeOf, AddressOf
    <2>2. CASE pc = "load"
      <3>1. Current = SettingsIn(Erased)
        BY <2>2, DefaultSettings DEF Inv, OffState, ModeOf, AddressOf
      <3> QED
        BY <1>7, <2>1, <2>2, <3>1 DEF PowerLoss, Store!vars
    <2>3. CASE pc \in {"start", "idle"}
      BY <1>7, <1>a, <2>1, <2>3 DEF PowerLoss, Store!PowerLoss
    <2>4. CASE pc = "erase"
      <3>1. Store!Blend(Found', {Found, SettingsIn(Erased)})
        BY <1>7, <2>4, BetweenBlends DEF PowerLoss, Inv, TypeOK
      <3>2. Store!Blend(Found', {Found, SettingsIn(Erased)} \cup Saving)
        BY <3>1 DEF Store!Blend
      <3> QED
        BY <1>7, <1>a, <2>1, <2>4, <3>2 DEF PowerLoss, Store!PowerLoss
    <2>5. CASE pc = "program"
      <3>1. Store!Blend(Found', {SettingsIn(config), SettingsIn(Erased)})
        BY <1>7, <2>5, BetweenBlends DEF PowerLoss, Inv, TypeOK
      <3>2. Store!Blend(Found', {Found, SettingsIn(Erased)} \cup Saving)
        BY <2>5, <3>1 DEF Store!Blend
      <3> QED
        BY <1>7, <1>a, <2>1, <2>5, <3>2 DEF PowerLoss, Store!PowerLoss
    <2> QED
      BY <1>7, <2>2, <2>3, <2>4, <2>5 DEF PowerLoss, Inv, TypeOK
  <1> QED
    BY <1>1, <1>2, <1>3, <1>4, <1>5, <1>6, <1>7 DEF Next, Store!Next

\* A start loads what was saved last; after a loss of power within a save each setting is
\* the old one, the new one or the default.
THEOREM Implementation == Spec => ImplementsStore
  BY RefinesInit, RefinesStep, Invariance, PTL DEF Spec, Store!Spec, ImplementsStore
===============================================================================
