# A formal model of the keytar's firmware

The repository builds a keytar: an old USB keyboard, an analog strip and a
Raspberry Pi Pico W whose firmware (`src/firmware`, C) plays notes and
controllers over a MIDI UART and over Bluetooth, as a server or as a client,
with menus on a small display. This directory holds TLA+ modules of that
firmware, the configurations that check them with TLC, and proofs that TLAPS
checks.

    tlc -config MCKeyboard.cfg MCKeyboard        # one run; see "Runs"
    tlapm KeyboardProofs.tla                     # one module of proofs

`PROJECT.json` lists the runs, the source lines behind every definition, the
hazards of the code with the properties that cover them, and for every property
a small bug of the code that breaks it. Definitions with names such as
`ReleasedShort` or `start_server_uncleared`, which stand just before the
definition they differ from, are those bugs; nothing else uses them.

## 1. Inventory

Everything runs on one core. The main loop (`main.c` 63-66) alternates
`keyboard_task` (TinyUSB, which calls back on mounts and reports) and
`analog_strip_task`. Bluetooth runs in interrupts (`pico_cyw43_arch_none`,
`CMakeLists.txt` 95): a connection or disconnection preempts the main loop
between any two of its steps and runs to its end.

| Component | Keeps | Does | Talks to |
| --- | --- | --- | --- |
| Keyboard (`keyboard.c`) | previous report, connected flag, transposition (`settings.c`) | mount, report to presses and releases, octave keys, notes, navigation | layouts (call), MIDI (call), menus (call) |
| Layouts (`keyboard_matrix.c`, `key_positions.h`) | selected layout, static chord array | key to notes, select | read by keyboard, set by menus and configuration |
| Controller values (`midi_value.c`) | per value: value, sent value, force flag | set, sync, send all | MIDI (call); set by strip and menus, sent by interrupts |
| MIDI (`midi.c`, `midi_uart.c`) | nothing | send a message to UART (byte by byte, interrupts between them), server, client | Bluetooth |
| Bluetooth (`midi_ble.c`, `midi_ble_client.c`) | role flags, connection handle, state to remember | start, stop, connect, write; interrupts | controller values (send all), display (render) |
| Strip (`analog_strip.c`) | assigned value, reset flag | read, convert, set or reset the value | shared A/D converter |
| Battery (`battery.c`) | last level | level with a margin | shared A/D converter |
| Menus (`ui/`, `menu/`) | stack of menus, focus and scroll, copies of settings in items | navigate, open, close, act, render (main loop and interrupts) | all of the above |
| Configuration (`config.c`) | one flash sector | load at boot; collect, compare, erase and program in `config_save`, which nothing calls yet | layouts, Bluetooth |

Hard behaviours, and the property that makes each component correct:

* Keyboard: notes are turned off by recomputing them on release, from the
  layout and the transposition of that moment. Correct if every press is matched
  by a release of the same notes over every sequence of reports.
* Layouts: one static array for all chords. Correct if a chord depends on its
  key alone.
* Controller values: a cache over three outputs that fail separately, used by
  the main loop and by interrupts. Correct if what it calls clean was sent.
* MIDI on the UART: a message is three bytes and an interrupt sends eighteen of
  its own between any two of them. Correct if a synthesizer still has the notes
  and controllers that were sent.
* Bluetooth and menus: roles change from menus, the link changes by interrupt
  under open menus. Correct if one role is on at a time, no menu outlives the
  role it was built for, an interrupt never renders a menu that is half built or
  freed, and the display shows what is.
* Strip and battery: one converter, one input selector, two contexts. Correct
  if each reads its own input.
* Configuration: erase and program are two steps, and each may be cut. Correct
  if every setting that is loaded after a loss of power is the old one, the new
  one or the default, and a remembered device is one that was connected.

## 2. Modules

| Module | Models | Role |
| --- | --- | --- |
| `KeyPositions` | tables and lookup functions of the layouts | pure functions |
| `KeyPositionsProofs` | | lemmas about the layouts, for the next two proofs |
| `KeyboardMatrix` | selected layout, chord array | state machine over `KeyPositions` |
| `KeyboardMatrixProofs` | | proofs about `KeyboardMatrix` |
| `Layout` | what the key handling needs of a layout | constants and assumptions |
| `Instrument` | presses and releases without reports | abstract specification |
| `Keyboard` | `keyboard.c` | implements `Instrument` |
| `KeyboardProofs` | | proofs about `Keyboard` |
| `MidiValue` | `midi_value.c` over `midi.c`, strip, Envelope menu, Bluetooth interrupts | state machine |
| `MidiValueProofs` | | proofs about `MidiValue` |
| `MidiUart` | `midi_uart.c` and the messages of `midi.c`, byte by byte, with a synthesizer | state machine |
| `MidiUartProofs` | | proofs about `MidiUart` |
| `Menus` | `ui/`, `menu/`, Bluetooth roles, what is on the display | state machine |
| `MenusProofs` | | proofs about `Menus` |
| `AnalogInputs` | converter, strip reading, battery level | state machine |
| `AnalogInputsProofs` | | proofs about `AnalogInputs` |
| `SettingsStore` | settings that a start finds, saves, losses of power | abstract specification |
| `Config` | `config.c`, the start in `main.c`, the remembered state in `midi_ble.c` | implements `SettingsStore` |
| `ConfigProofs` | | proofs about `Config` |
| `MC...` | values of the constants for TLC | |

Correspondence with the code, where it is not one action per function:

* `Keyboard`: one step is one slot of a loop of `process_kbd_report`. `step`
  is the position in both loops: 1..Slots are the presses, the next Slots the
  releases. `Navigate` stands for `ui_navigate` whatever it does, since a menu
  has one effect on the key handling, a change of the layout (`SelectKeymap`).
  `sounding` is what a synthesizer on the UART makes of the messages.
* `MidiValue`: `pc`, `target` and `ok` are the main loop's position in
  `midi_value_sync` and `send` and their locals; between any two steps
  `Connected` may run `midi_value_send_all` to its end. `uart` and `peer` are
  what each receiver was sent last. `failed` and `forgotten` are history: a
  message of the value failed since it last got through, and the code lost
  track of it (see "What the checks show").
* `Menus`: a key press puts the steps of its action on `todo`, and each is
  taken off by an action: push, the two assignments of `menu_add`, the free and
  the unlink of `ui_pop`, each Bluetooth call. So a Bluetooth interrupt can find
  every intermediate state of the stack. Key presses without effect are left
  out, values of the Envelope menu are in `MidiValue`. The status is rendered in
  two steps, the question whether Bluetooth is connected (`StatusTest`) and the
  drawing (`StatusDraw`); a menu in one, since no interrupt changes what it shows. Renders
  that follow each other without a change stand as one. `screen` is what
  `ssd1306_show` last sent, as lines, cursor and icons. `lag` says that it may
  be out of date: "race", an interrupt drew between the two steps; "boot", a
  server was started at power on. Without an initialised display `ui_render`
  does nothing, and the module supposes one.
* `MidiUart`: `msg` and `i` are the main loop's position in `midi_uart_write`,
  `all` and `alli` the interrupt's in `midi_value_send_all` and the write below
  it. The synthesizer (`Hear`) is not in the repository: it follows the MIDI
  standard with running status, knows note on and off, all notes off, the six
  values and the damper pedal. `meant` is history: the notes that should sound;
  `torn`, how many bytes of `msg` had gone before the last interrupt in it;
  `lost` and `spoiled`, the notes and controllers that torn messages disturbed
  and nothing has mended since. Above it `pc` and `mv` are the main loop's
  position in `midi_value_sync`, with its test of the cache, so that a clean
  value sends nothing (`SyncClean`). Of Bluetooth there is only the outcome of a
  write after the UART's (`SendOk`, `SendFailed`), for the values in `Unreliable`;
  in the code that is any value, and so it is in the proofs. `failed` is history:
  the values whose latest message `send` reported as failed, though the
  synthesizer has it.
* `Config`: `flash` is the page field by field, `padding` included, because the
  comparison of `config.c` 60 takes it in. `pc` follows `main.c` ("load",
  "start", then "idle" in the loop) and `save_internal` ("erase", "program").
  Collecting and comparing are one step, for `flash_safe_execute` turns
  interrupts off; erasing and programming are one each, so that power can be lost
  before and within each. A loss of power in an erase or a program leaves each
  one-byte field old or new and each longer one old, new or "mixed", any bytes
  of both. `mode` is one byte: the ARM EABI of the target has short
  enumerations. `config_save` has no caller; the module lets it be called
  whenever the main loop runs. `flash_safe_execute`, external, runs its function.
* `AnalogInputs`: selection and reading are steps of the main loop;
  `RenderInterrupt` is the status screen rendered by an interrupt, as a whole.
  What stands in memory after `voltage_thresholds[]` is chosen once, in `Init`.

Assumed of what is not in the repository: a keyboard in boot protocol lists a
key once in a report, unless it reports a rollover; the UART takes each message;
a Bluetooth write takes all bytes of a message or fails; `tusb_config.h` and the
missing hub driver allow one keyboard; a write fails or succeeds freely, and so
does `cyw43_arch_init`. `MidiUart` takes notes up to 144, not only data bytes:
that no other is sent is proved from the layouts (`SoundsDataBytes`).

## 3. Runs

| Run | Checks | Bounds |
| --- | --- | --- |
| `MCKeyboard.cfg` | `TypeOK`, `NotesFollowOffset`, `OnlyKeymapStrandsNotes`, `ImplementsInstrument` | 2 slots; 6 keys: two of the same note, one at the top of the range, both octave keys, one that changes the layout; piano and chords; 436,052 states |
| `MCKeyboardMenu.cfg` | `ImplementsInstrument`, `KeepsListening` (fair) | 3 slots; a note, LEFT, RIGHT, rollover; 287,354 states |
| `MCKeyboardMatrix.cfg` | `TypeOK`, `ChordMatchesKey`, `ChordInRange`, `TransposedIsDataByte` | all 7 layouts; keys of every row and both ends of it, without position, beyond the tables; 59,605 states |
| `MCMidiValue.cfg` | `TypeOK`, `CacheTellsTruth` | 2 values with 3 and 2 steps, all roles; 851,760 states |
| `MCMidiValueLive.cfg` | `ReleaseSettles`, `ReleaseIsHeard` (fair) | the same without the client role; 155,794 states |
| `MCMidiUart.cfg` | `TypeOK`, `NotesHeard`, `ControlsHeard` | 3 notes, numbered as the damper pedal (64), as a controller (72) and as the status byte of a note on (144); a bend whose low byte is that of all notes off; 2 of the 6 values are set, the bend and the release, and the writes of the release may fail; an interrupt sends all; 4,882,148 states |
| `MCMenus.cfg` | `TypeOK`, `OneRole`, `MenusFitRole`, `RenderReadsLive`, `FocusOnScreen`, `SettingsShown`, `DepthBounded`, `ScreenTrue` | 2 lines of display, so that every menu scrolls; 2 layouts, 2 values, up to 2 devices; 115,576 states |
| `MCConfig.cfg` | `TypeOK`, `RemembersRealDevice`, `ImplementsStore` | 2 devices, 2 layouts; flash at first erased, foreign, of an older version or valid; 497,938 states |
| `MCConfig_WritesOnlyIfNecessary.cfg` | violated | the same with 2 contents of the padding; see below |
| `MCAnalogInputs.cfg` | `TypeOK`, `BatteryReadsBattery`, `StripReadsStrip`, `RiseTakesMargin`, `NoFlicker` | a strip touched low or released; 5 voltages around the thresholds and margins, two of them less than a margin apart; memory after the table below or above all of them; 1,603,040 states |
| `MCAnalogInputs_NextThresholdCounts.cfg` | violated | see below |
| `MCAnalogInputs_MarginOnlyWhenCharging.cfg` | violated | see below |

Why the bounds are enough. Two slots let one key stay while another changes in
the same report, the case that a comparison of reports can get wrong; three let
a key move to another slot between two that change. The octave keys walk over
all eight transpositions. Two values let one be in flight while an interrupt
sends both; three steps give the pitch bend both sides of its default. Every
interval that the thresholds and margins cut out of the voltages has a member,
but the lowest, which is EMPTY under each reading of the table. The theorems
cover the rest where they exist.

Two devices and two layouts give every setting an old, a new and a default value
that differ. The notes and the bend of `MCMidiUart.cfg` are those whose numbers mean
something to a control change: another note, torn, moves nothing that is looked at,
and another bend does, torn, what the note with the number of its low byte does. The release takes its default and one other value, which is what it
takes to return to an acknowledged value after a failed write.

The state spaces are finite without bounds on steps: no run has a constraint.
`MCMenus.cfg` alone turns the deadlock check off: a key in an empty Connect menu
calls through an item that does not exist, and the processor may not return.

Fairness. `Keyboard` assumes that a report that was begun is worked off
(`WF(Process)`): its loops have fixed bounds and nothing in them waits.
`MidiValue` assumes that the main loop goes on (`WF(Sync)`), that it comes back
to the strip however often menus come between (`SF(StripTask)`: the loop calls
the task in each turn), and that a write of a value that is tried again and
again succeeds at last (`SF` of a successful `WriteServer`), without which no
retry can promise anything. Interrupts are not fair: no property needs one.

## 4. What the checks show

* A change of the layout is the one way to strand a note
  (`OnlyKeymapStrandsNotes`): a key held over it is released in the new layout.
  Octave keys, rollover reports and an unplugged keyboard strand none, though
  notes sound on while the keyboard is away, until its next report.
* Not every layout fits the transpositions (`TransposedIsDataByte`). The octave
  keys count with notes from 35 to 67 (`keyboard.c` 62-67), but piano goes up to
  69 and Wicki-Hayden to 84: at the highest transposition four layouts, at the
  one below it Wicki-Hayden, have notes above 127. Such a note is a status byte
  on the UART; `NotesHeard` shows that it costs itself and no other note.
* A clean value was sent (`CacheTellsTruth`), also in the middle of its own sync,
  where an interrupt would find it, save in two situations that the
  code has and the property names, by `forgotten`: (1) a write fails, and the
  value returns to the last acknowledged one before it is retried
  (`midi_value.c` 10), while the UART had got the one in between; (2) an
  interrupt fails to send a value while the main loop is at the end of a
  message of its own, which then clears the force flag (`midi_value.c` 18).
* A released strip is heard at last, by the synthesizer and by a Bluetooth
  client whose connection stays (`ReleaseIsHeard`), because its task sets the
  default in each turn. That is also the only retry: another value whose write
  failed waits until somebody sets it again. And situation (1) above is an
  exception: a bend whose write failed, released before it is retried, stays
  bent at the synthesizer. As a client `send` never
  returns true (`midi.c` 35: the server has no connection to write to), so no
  value becomes clean and the strip's is sent in each turn; the liveness
  properties are stated for the other roles.
* Roles and menus agree through every sequence of keys, failures to start and
  links that come and go (`OneRole`, `MenusFitRole`); it is the clearing of the
  menus after each change that makes it so.
* On the UART nothing protects a message from an interrupt. `NotesHeard` and
  `ControlsHeard` bound the damage. A torn note message loses its note, and if
  one byte of it was out, the interrupt's last control change is the running
  status of the rest: the number of the note is taken for a controller's
  (note 64 for the damper pedal, 123 for all notes off), and so is the low byte
  of a bend. A torn controller message is made good, for the interrupt sends its
  value, or sends the status that makes it whole: that holds because
  `midi_values` ends with a control change (`midi_value.c` 66) and fails when
  the bend is last. A controller that was moved stays so until its value is sent
  again, for which the cache sees no reason. Without anything torn a controller
  is off its value in one case, named `Forgotten`: A is acknowledged, B gets to
  the synthesizer while its Bluetooth write fails (`midi.c` 31-40), A is set
  again, found clean and not sent (`midi_value.c` 10).
* The display is true between two keys (`ScreenTrue`), although the actions of
  the menus change roles without rendering, because `ui_navigate` renders last.
  Two exceptions are in the property: an interrupt that draws in the middle of
  the main loop's status may leave an icon too many, never one too few; and a
  server that was started at power on is not shown before the next render.
* Whatever was in the sector and wherever power is lost, a start finds for each
  setting the last one saved, or after a loss within a write the old, the new
  or the default (`ImplementsStore`), field by field: the layout may be the new one and
  the Bluetooth mode the old one. Nothing but the magic number and the version
  guards the page, and the tests of index and mode do the rest.
* A client that is remembered has the address of a device that was connected
  before (`RemembersRealDevice`; `met` keeps those devices), unless power was lost within a write: then the
  address may be a mixture. To remember a connection when there is none stores
  OFF (`midi_ble.c` 223-227), as does the client that still looks for its device.
* The comment of `config.c` 59, "only write if necessary", is not what the code
  does: `memcmp` takes in the padding of `config_t`, which the local variable
  does not set, so the same settings are erased and programmed again when the
  stack held something else (run `config_rewrite`).
* The battery's level does not flicker: every rise is above its threshold by
  the margin (`RiseTakesMargin`), and a reading that lifts the level right after
  one that lowered it is higher than that one by the margin (`NoFlicker`), but
  for a charger that reports a full battery and an interrupt within the main
  loop's reading.
* Interrupts render sound menus but for the window in `ui_pop` between free
  and unlink (`ui/stack.c` 48-51); they disturb a reading of the strip, and
  only that, in the window between selection and reading (`analog_strip.c` 62).
* Two comments of `battery.c` disagree with its code. Line 63, "if we are below
  the threshold of the next level, return target level": the code takes the
  threshold after that, so a battery of 3.58 V, above the 3.2 V of LOW, falls to
  EMPTY, and the last comparison reads past the table. Line 68, "if charging, VOLTAGE_HISTERESIS has
  to be surpassed as well": the code does not ask whether it is charging, and
  one that goes from 3.58 V to 3.62 V without a charger stays at the lower level.

## 5. What is proved

For every value of the constants that satisfies the named assumptions of the
modules (`TablesAssumption` of `KeyboardMatrix`, for instance, that the tables
and what lies behind them hold what the C types can). Every safety property of
the passing runs is a theorem; the strengthenings and the reason for each:

* `KeyPositionsProofs` has the lemmas that the next two modules share: what the
  position tables hold for each code (`Positions`), which notes a layout reaches
  from any row and column the table or the memory behind it can give
  (`VoicingInReach`), and how far a transposition carries them
  (`ReachTransposed`).
* `KeyboardProofs`: `TypeCorrect`, `OnlyKeymapStrands`, `OnlyHeldKeysSound`,
  `OffsetFollowed`, `LayoutsMeetAssumptions`, `SoundsDataBytes`,
  `Implementation`. The invariant `Inv` adds to `TypeOK` that both reports are
  well formed and that an idle loop holds no report. `Held`, the set of keys that are down in the
  abstract instrument, is derived from both reports and the loop position; that
  a key enters and leaves it once follows from well-formed reports only. In the
  refinement a slot that is skipped and the end of a report are stutters, a
  press of a new key is a press, a shift or a switch of the instrument, a
  release a release. `OnlyHeldKeysSound` is what a player expects, while the
  layout stays: only held keys sound, and with all keys up none does.
  `LayoutsMeetAssumptions` and `SoundsDataBytes` tie the abstract layouts of
  `Layout` to the seven of `keymaps[]`: these meet its assumptions for every key
  code, whatever memory holds behind the position tables, and what then
  sounds is what `MidiUart` assumes of notes. The hypothesis `RealLayouts` says
  that the layouts in use are some of the seven.
* `KeyboardMatrixProofs`: `TypeCorrect`, `ChordIsOfKey`, `ChordFitsRange`,
  `TransposedFits`.
  The properties are nearly inductive, since they speak of what a reader sees up
  to the terminating zero and not of the old entries behind it; `AskedOK` adds that
  the chord layout was asked for a key code, and `PlayedInReach` that what was
  played is within the reach of its layout. The work is in the lemmas: every
  chord is written to its end for every row and column, also those read beyond
  the tables.
* `MidiValueProofs`: `TypeCorrect`, `CacheTruth`, `OffCacheTruth`. `CacheTellsTruth` is not
  inductive: it says nothing of a message in flight. `AckedIsTold` (what was
  acknowledged was told, whatever was set since), `FlightInv` (which output has
  been told at which step) and `DirtyInv` (a sync works on a dirty value, unless
  an interrupt told it meanwhile) close the gap. With Bluetooth off nothing
  fails and nothing is forgotten (`OffInv`), so that the cache is right without
  exception.
* `MidiUartProofs`: `TypeCorrect`, `NotesAreHeard`, `ControlsAreHeard`.
  `LineInv` says at which byte the synthesizer is, from the positions of both
  writers and from `torn`: with the writer, or within a torn message under the
  status of a control change. `NotesInv` and `ControlsInv` then say of each
  note and controller what is still to come (`Pending`). A sync that finds its
  value clean sends nothing, so the synthesizer must have it already: `AckedInv`
  says that it has what was acknowledged, unless `send` failed since, and
  `FailedInv` that a value whose send failed is not clean while it is sent again.
* `AnalogInputsProofs`: `TypeCorrect`, `BatteryIsRead`, `MarginIsTaken`,
  `StripIsRead`, `FallIsKept`, `LevelMonotone`, `LevelSettles`. `Passed` is the invariant of the loop in `battery_get_level`:
  all levels below the target were passed against the level it is compared
  with, unless an interrupt moved that level; `FallsBelow` adds that a
  level that fell did so below its end. A fall and the rise after it then have
  the margin between them. The last two are about `LevelFor`, the level as a
  function of the voltage: it is monotone, and a second reading changes nothing,
  though the last comparison reads memory behind the table.
* `MenusProofs`: `TypeCorrect`, `RolesExclude`, `LiveIsRendered`,
  `DepthIsBounded`, `MenusFit`, `FocusShown`, `SettingsAreShown`, `ScreenIsTrue`.
  None of these is inductive, because a key press in progress has most of its
  work in `todo`. `TodoOK` gives it a form: what is left of the function that
  runs (`Pushing`, `Popping`, `Drawing`, `Rendering` or `Calling`), then a list
  of later calls, of which each states what it needs of roles and menus when its
  turn comes (`LaterOK`: a role that is to be started must be off, a Bluetooth
  menu is opened on the roles as they will be). `StackOK` orders the menus on
  the stack by a rank from 1 to 3, each above one of lower rank, which bounds
  the depth for any numbers of layouts, values, lines and devices;
  `BelowCounted` and `TopCounted` say which items are written. `MenusFit` and
  `ScreenIsTrue` have strengthenings of their own on top of it (`AllFit`, which
  knows the items a menu has still to be given, and `ScreenInv`, which knows
  that a render is among the calls to come).
* `ConfigProofs`: `TypeCorrect`, `RemembersReal`, `Implementation`. The
  invariant says that wherever a client is kept, in RAM, in flash or in the page
  in the making, its address is that of a device that was connected, unless a
  write was cut. In
  the refinement `PowerOn`, `midi_ble_init`, roles and links are stutters,
  the erase is `Clear`, the program `Store`, and a page of which a part changed
  is a `Blend` of the old, the new and the default settings.

Only model-checked: the liveness properties `KeepsListening`, `ReleaseSettles`
and `ReleaseIsHeard` (fairness and ENABLED are beyond the prover). Nothing is
assumed without proof but the constants' assumptions, which TLC evaluates in the
runs.

## 6. Not modelled

* The layout of what is drawn and the display driver; two transfers to the
  display that cut into each other (`ui/stack.c` 78), whose outcome depends on
  hardware and a driver that are not in the repository.
* Scanning, pairing and advertising (BTstack and the client library, not in the
  repository), which device an index of the client library names, and what the
  library makes of a write with the handle of a connection that has just ended
  (`midi_ble.c` 194): for `MidiValue` such a write may fail.
* Code without use in the program: `settings_value`, `analog_strip_read_uint16`,
  `midi_program_change`, the uint8 menu item, `menu/keymap.c`, `control.c`,
  `midi_note_table.h`.
* Configuration of the build and of vendor code; the enclosure and the boards.

## 7. Plan

What the modules leave open:

1. A composition of `Menus` with `MidiValue`: role changes under a message in
   flight, with an abstract "receiver knows" specification that both roles
   implement.
2. A Bluetooth receiver beside the synthesizer of `MidiUart`. That module has
   the cache and the outcome of the writes, `MidiValue` what the Bluetooth client
   was sent; what both receivers have, byte by byte, is stated nowhere.
3. The client role as a receiver of its own: `send` never succeeds for it
   (`midi.c` 35), so `ReleaseSettles` is stated for the other roles only.
