-------------------------------- MODULE Config --------------------------------
(***************************************************************************)
(* config.c, with the start of the program (main.c) and the remembered      *)
(* Bluetooth state (midi_ble.c): what is loaded, what is remembered, what   *)
(* a save writes, and what a loss of power leaves.                          *)
(*                                                                          *)
(* A page of flash holds one config_t. A write erases the sector, then      *)
(* programs the page; power may be lost at any moment, and one that is lost *)
(* in an erase or a program leaves any part of the bytes changed. The       *)
(* program calls config_save nowhere yet; here it may be called whenever    *)
(* the main loop runs.                                                      *)
(***************************************************************************)
EXTENDS Integers

CONSTANTS
  Devices,      \* Bluetooth addresses of MIDI devices
  N_KEYMAPS,    \* layouts in keymaps[]
  Paddings      \* what the bytes of config_t between its fields may hold

ASSUME DevicesAssumption == {"nobody", "erased", "mixed"} \cap Devices = {}

ASSUME KeymapsAssumption == N_KEYMAPS \in 1..255

ErasedIndex == 255       \* keymap_index in an erased page

Modes == {"off", "client", "server"}

VARIABLES
  flash,       \* *saved_config, field by field
  pc,          \* "off"; "load" and "start" while main starts; "idle" in its loop;
               \* "erase" and "program" in save_internal
  config,      \* the local variable of save_internal
  keymap,      \* index of the selected layout
  initial,     \* initial_state: mode and connected_addr
  role, link,  \* the Bluetooth role that is on; "connected" for a client's connection
  last,        \* the library's last connected address
  cut,         \* power was lost within an erase or a program
  met          \* devices that a client was ever connected to

ram     == <<keymap, initial, role, link, last>>
history == <<cut, met>>
vars    == <<flash, pc, config, ram, history>>

Page(magic, version, index, padding, mode, addr) ==
  [magic |-> magic, version |-> version, keymap_index |-> index, padding |-> padding,
   mode |-> mode, addr |-> addr]

Erased == Page("erased", "erased", ErasedIndex, "erased", "erased", "erased")

OffState == [mode |-> "off", addr |-> "nobody"]

ValidPage(page) == page.magic = "CONFIG_MAGIC_NUMBER" /\ page.version = "CONFIG_VERSION"

\* A new chip, something else in the last sector, an older version, or an earlier save.
Init ==
  /\ flash \in {Erased,
                Page("other", "other", 0, "other", "off", "nobody"),
                Page("CONFIG_MAGIC_NUMBER", "other", 0, "other", "server", "nobody")}
       \cup {Page("CONFIG_MAGIC_NUMBER", "CONFIG_VERSION", 0, padding, "client", d) :
               padding \in Paddings, d \in Devices}
  /\ pc = "off"
  /\ config = Erased
  /\ keymap = 0
  /\ initial = OffState
  /\ role = "off" /\ link = "none" /\ last = "nobody"
  /\ cut = FALSE
  /\ met = IF ValidPage(flash) THEN {flash.addr} ELSE {}

-------------------------------------------------------------------------------
(* The start *)

\* An index that is not tested.
load_any_index ==
  IF ValidPage(flash)
  THEN /\ keymap' = flash.keymap_index
       /\ initial' = [mode |-> flash.mode, addr |-> flash.addr]
  ELSE UNCHANGED <<keymap, initial>>

\* No test of the version.
load_any_version ==
  IF flash.magic = "CONFIG_MAGIC_NUMBER"
  THEN /\ keymap' = IF flash.keymap_index < N_KEYMAPS THEN flash.keymap_index ELSE keymap
       /\ initial' = [mode |-> flash.mode, addr |-> flash.addr]
  ELSE UNCHANGED <<keymap, initial>>

\* set_keymap_by_index ignores an index that is too large; the mode and the address are
\* taken as they are.
load_internal ==
  IF ValidPage(flash)
  THEN /\ keymap' = IF flash.keymap_index < N_KEYMAPS THEN flash.keymap_index ELSE keymap
       /\ initial' = [mode |-> flash.mode, addr |-> flash.addr]
  ELSE UNCHANGED <<keymap, initial>>

PowerOn ==
  /\ pc = "off"
  /\ pc' = "load"
  /\ UNCHANGED <<flash, config, ram, history>>

config_init ==
  /\ pc = "load"
  /\ load_internal
  /\ pc' = "start"
  /\ UNCHANGED <<flash, config, role, link, last, history>>

\* cyw43_arch_init may fail; a client asks for the address it was given.
midi_ble_init ==
  /\ pc = "start"
  /\ \/ /\ initial.mode \in {"server", "client"}
        /\ role' = initial.mode
        /\ last' = IF initial.mode = "client" THEN initial.addr ELSE last
     \/ UNCHANGED <<role, last>>
  /\ pc' = "idle"
  /\ UNCHANGED <<flash, config, keymap, initial, link, history>>

-------------------------------------------------------------------------------
(* The main loop and the Bluetooth interrupts *)

Running == pc = "idle"

set_keymap ==
  /\ Running
  /\ keymap' \in 0..(N_KEYMAPS - 1)
  /\ UNCHANGED <<flash, pc, config, initial, role, link, last, history>>

\* start_server, start_client and stop, which may fail to start the radio
SwitchRole ==
  /\ Running
  /\ role' \in Modes
  /\ link' = "none"
  /\ UNCHANGED <<flash, pc, config, keymap, initial, last, history>>

ClientConnected ==
  /\ Running
  /\ role = "client" /\ link = "none"
  /\ link' = "connected"
  /\ last' \in Devices
  /\ met' = met \cup {last'}
  /\ UNCHANGED <<flash, pc, config, keymap, initial, role, cut>>

ClientDisconnected ==
  /\ Running
  /\ link = "connected"
  /\ link' = "none"
  /\ UNCHANGED <<flash, pc, config, keymap, initial, role, last, history>>

\* A client that is on counts as connected.
StateOfInitialized ==
  CASE role = "server" -> [mode |-> "server", addr |-> "nobody"]
    [] role = "client" -> [mode |-> "client", addr |-> last]
    [] OTHER -> OffState

\* The address of what is connected; the state of a client without a connection is off.
midi_ble_get_state ==
  CASE role = "server" -> [mode |-> "server", addr |-> "nobody"]
    [] role = "client" /\ link = "connected" -> [mode |-> "client", addr |-> last]
    [] OTHER -> OffState

\* The item "Remember connection". (An interrupt between its two questions may end the
\* connection, but leaves the last connected address.)
midi_ble_set_state_as_initial ==
  /\ Running
  /\ initial' = midi_ble_get_state
  /\ UNCHANGED <<flash, pc, config, keymap, role, link, last, history>>

-------------------------------------------------------------------------------
(* save_internal, with interrupts off *)

\* The padding of the local variable is whatever was on the stack.
Collected(padding) ==
  Page("CONFIG_MAGIC_NUMBER", "CONFIG_VERSION", keymap, padding, initial.mode, initial.addr)

SaveUnchanged ==
  /\ Running
  /\ \E padding \in Paddings : Collected(padding) = flash
  /\ UNCHANGED vars

SaveBegin ==
  /\ Running
  /\ \E padding \in Paddings :
       /\ Collected(padding) # flash
       /\ config' = Collected(padding)
  /\ pc' = "erase"
  /\ UNCHANGED <<flash, ram, history>>

flash_range_erase ==
  /\ pc = "erase"
  /\ flash' = Erased
  /\ pc' = "program"
  /\ UNCHANGED <<config, ram, history>>

flash_range_program ==
  /\ pc = "program"
  /\ flash' = config
  /\ pc' = "idle"
  /\ config' = Erased
  /\ UNCHANGED <<ram, history>>

\* A byte is changed or it is not (mode is one byte, the enumerations of the target are
\* short); a field of several bytes may be caught in between.
Byte(old, new)  == {old, new}
Bytes(old, new) == IF old = new THEN {old} ELSE {old, new, "mixed"}

Between(old, new) ==
  [magic : Bytes(old.magic, new.magic), version : Bytes(old.version, new.version),
   keymap_index : Byte(old.keymap_index, new.keymap_index),
   padding : Bytes(old.padding, new.padding), mode : Byte(old.mode, new.mode),
   addr : Bytes(old.addr, new.addr)]

PowerLoss ==
  /\ pc # "off"
  /\ pc' = "off"
  /\ flash' \in CASE pc = "erase"   -> Between(flash, Erased)
                  [] pc = "program" -> Between(flash, config)
                  [] OTHER          -> {flash}
  /\ cut' = (cut \/ pc \in {"erase", "program"})
  /\ config' = Erased
  /\ keymap' = 0
  /\ initial' = OffState
  /\ role' = "off" /\ link' = "none" /\ last' = "nobody"
  /\ UNCHANGED met

Next == \/ PowerOn \/ config_init \/ midi_ble_init
        \/ set_keymap \/ SwitchRole \/ ClientConnected \/ ClientDisconnected
        \/ midi_ble_set_state_as_initial
        \/ SaveUnchanged \/ SaveBegin \/ flash_range_erase \/ flash_range_program
        \/ PowerLoss

Spec == Init /\ [][Next]_vars
-------------------------------------------------------------------------------
(* Properties *)

PageFields ==
  [magic : {"CONFIG_MAGIC_NUMBER", "other", "erased", "mixed"},
   version : {"CONFIG_VERSION", "other", "erased", "mixed"},
   keymap_index : 0..(N_KEYMAPS - 1) \cup {ErasedIndex},
   padding : Paddings \cup {"other", "erased", "mixed"},
   mode : Modes \cup {"erased"},
   addr : Devices \cup {"nobody", "erased", "mixed"}]

TypeOK ==
  /\ flash \in PageFields /\ config \in PageFields
  /\ pc \in {"off", "load", "start", "idle", "erase", "program"}
  /\ keymap \in 0..(N_KEYMAPS - 1)
  /\ initial \in [mode : Modes \cup {"erased"},
                  addr : Devices \cup {"nobody", "erased", "mixed"}]
  /\ role \in Modes /\ link \in {"none", "connected"}
  /\ last \in Devices \cup {"nobody", "erased", "mixed"}
  /\ cut \in BOOLEAN
  /\ met \subseteq Devices

\* What midi_ble_init makes of a mode and of an address that nobody has.
ModeOf(m) == IF m \in {"client", "server"} THEN m ELSE "off"
AddressOf(a) == IF a \in Devices THEN a ELSE "nobody"

\* The settings in a page: an invalid page is as good as none.
SettingsIn(page) ==
  IF ValidPage(page)
  THEN [keymap |-> IF page.keymap_index < N_KEYMAPS THEN page.keymap_index ELSE 0,
        mode |-> ModeOf(page.mode), addr |-> AddressOf(page.addr)]
  ELSE [keymap |-> 0, mode |-> "off", addr |-> "nobody"]

Store == INSTANCE SettingsStore WITH
  Keymaps <- 0..(N_KEYMAPS - 1),
  Addresses <- Devices \cup {"nobody"},
  Default <- SettingsIn(Erased),
  on <- pc \notin {"off", "load"},
  found <- SettingsIn(flash),
  saving <- IF pc \in {"erase", "program"} THEN {SettingsIn(config)} ELSE {},
  current <- [keymap |-> keymap, mode |-> ModeOf(initial.mode),
              addr |-> AddressOf(initial.addr)]

\* A start loads what was saved last. Wherever power is lost in a save, and whatever was
\* in the sector before, each setting that is loaded is the old one, the new one or the
\* default: nothing but the magic number and the version guards a page of which a part
\* was written (config.c 28-42, 69-70), and the tests of index and mode do the rest.
ImplementsStore == Store!Spec

\* The device that a client is to connect to after the next start is one that a client was
\* connected to before, through saves, restarts, changes of the role and links that end,
\* unless power was lost within a write (midi_ble.c 215-227).
RemembersRealDevice ==
  (initial.mode = "client" /\ ~cut) => initial.addr \in met

\* config.c 59: "only write if necessary". So a sector is erased only for settings that
\* differ from those in it. (The comparison takes in the padding of config_t, which the
\* local variable does not set.)
WritesOnlyIfNecessary ==
  [][(pc = "idle" /\ pc' = "erase") =>
       \/ ~ValidPage(flash)
       \/ config'.keymap_index # flash.keymap_index
       \/ config'.mode # flash.mode \/ config'.addr # flash.addr]_vars
===============================================================================
