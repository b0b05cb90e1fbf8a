-------------------------------- MODULE Menus --------------------------------
(***************************************************************************)
(* The user interface: the stack of menus of ui/stack.c and ui/menu.c, the  *)
(* menus of menu/ and what their items do to the layout, to the analog      *)
(* strip and to the role of the Bluetooth radio.                            *)
(*                                                                          *)
(* A key press runs on the main loop. todo holds the steps it still has to  *)
(* make; between any two of them a Bluetooth interrupt may change the link  *)
(* and render what is on top of the stack at that moment, over a rendering  *)
(* of the main loop if one is going on.                                     *)
(***************************************************************************)
EXTENDS Integers, Sequences, SequencesExt

CONSTANTS
  N_KEYMAPS,   \* layouts in keymaps[]
  N_VALUES,    \* values in midi_values[]
  Lines,       \* lines of the display, 8
  MaxDevices   \* entries of the Connect menu, 16 at most

ASSUME SizesAssumption ==
  /\ N_KEYMAPS \in Nat \ {0} /\ N_VALUES \in Nat \ {0}
  /\ Lines \in Nat \ {0}     /\ MaxDevices \in Nat

VARIABLES
  stack,            \* ui_stack: menus, the current one last
  todo,             \* steps of the key press in progress
  shown,            \* the fields index and value of the items of the main menu
  keymap,           \* index of the selected layout
  strip, reset,     \* index of the value the strip controls; reset_on_release
  server, client,   \* ble_server_is_initialized, ble_client_is_initialized
  radio,            \* calls of cyw43_arch_init that were not undone
  link,             \* of the role that is on: "none"; "asked" (a client requested a
                    \* connection); "connected"
  initial_mode,     \* initial_state.mode
  screen,           \* what ui_render last put on the display
  lag               \* whether that may differ from what it would put there now: "boot",
                    \* a server was started at power on, which renders nothing; "race",
                    \* an interrupt rendered in the middle of the main loop's status

settings  == <<keymap, strip, reset>>
bluetooth == <<server, client, radio, link, initial_mode>>
display   == <<screen, lag>>
vars      == <<stack, todo, shown, settings, bluetooth, display>>

-------------------------------------------------------------------------------
(* Pictures *)

Lower(a, b) == IF a < b THEN a ELSE b
Higher(a, b) == IF a > b THEN a ELSE b

Step(op) == [op |-> op, arg |-> ""]

ui_render == <<Step("render")>>

Top == Last(stack)

ui_menu_item_default_render(label) == <<label>>

ui_menu_item_select_render(label, index) == <<label, index>>

checkbox_render(label, value) == <<label, value>>

Line(item) ==
  CASE item = "Keymap"           -> ui_menu_item_select_render(item, shown.keymap)
    [] item = "Strip control"    -> ui_menu_item_select_render(item, shown.strip)
    [] item = "Reset on release" -> checkbox_render(item, shown.reset)
    [] OTHER                     -> ui_menu_item_default_render(item)

\* The items between scroll and the last line, and the line of the cursor.
render_menu(menu) ==
  [kind   |-> IF menu.freed THEN "freed" ELSE menu.kind,
   lines  |-> [i \in 1..Lower(Lines, menu.length - menu.scroll) |->
                 Line(menu.items[menu.scroll + i])],
   cursor |-> menu.index - menu.scroll]

Icons(is_connected) ==
  IF is_connected THEN {"Bluetooth"}
  ELSE IF server THEN {"Bluetooth", "..."} ELSE {}

Status(icons) == [kind |-> "status", layout |-> keymap, icons |-> icons]

\* What ui_render, as a whole, puts on the display.
Picture(is_connected) ==
  IF stack # << >> THEN render_menu(Top) ELSE Status(Icons(is_connected))

Init ==
  /\ stack = << >>
  /\ keymap \in 0..(N_KEYMAPS - 1)        \* as config_init found it
  /\ strip = 0 /\ reset = TRUE            \* main assigns the pitch bend
  /\ shown = [keymap |-> 0, strip |-> 0, reset |-> FALSE]
  /\ initial_mode \in {"off", "server", "client"}
  /\ server \in {FALSE, initial_mode = "server"}   \* the radio may fail to start
  /\ client \in {FALSE, initial_mode = "client"}
  /\ radio = IF server \/ client THEN 1 ELSE 0
  /\ link = IF client THEN "asked" ELSE "none"
  /\ screen = Status({})                  \* config_init has rendered it
  /\ lag = IF server THEN "boot" ELSE "none"
  /\ todo = IF client THEN ui_render ELSE << >>

-------------------------------------------------------------------------------
(* Steps *)

Push(kind) == [op |-> "push", arg |-> kind]
Fill(items) == [op |-> "fill", arg |-> items]
Slot(item) == [op |-> "slot", arg |-> item]
Draw(is_connected) == [op |-> "draw", arg |-> is_connected]

Doing(op) == todo # << >> /\ Head(todo).op = op

Done == todo' = Tail(todo)

OnTop(menu) == stack' = Append(Front(stack), menu)

\* ui_pop frees the element before it takes it off the stack.
ui_pop == <<Step("free"), Step("unlink")>>

push_menu_main == <<"Bluetooth", "Keymap", "Envelope", "Strip control", "Reset on release">>

push_menu_envelope == <<"Attack", "Decay", "Sustain", "Release">>

push_menu_bluetooth ==
  IF client
  THEN <<IF link = "connected" THEN "Disconnect" ELSE "Connect",
         "Remember connection", "Switch to server", "Disable">>
  ELSE IF server THEN <<"Switch to client", "Disable">>
                 ELSE <<"Start server", "Start client">>

Items(kind) ==
  CASE kind = "main"      -> {push_menu_main}
    [] kind = "envelope"  -> {push_menu_envelope}
    [] kind = "bluetooth" -> {push_menu_bluetooth}
    [] kind = "connect"   -> {[i \in 1..n |-> "device"] : n \in 0..MaxDevices}

\* The item is counted before it is written.
menu_add_late(item) == <<Step("count"), Slot(item)>>

menu_add(item) == <<Slot(item), Step("count")>>

\* The items of the main menu start from what is set.
NewItems == [keymap |-> keymap, strip |-> strip, reset |-> reset]

\* push_menu puts an empty menu on the stack, which then gets its items one by one.
PushMenu ==
  /\ Doing("push")
  /\ LET kind == Head(todo).arg
     IN  /\ stack' = Append(stack, [kind |-> kind, items |-> << >>, length |-> 0,
                                    index |-> 0, scroll |-> 0, freed |-> FALSE])
         /\ \E items \in Items(kind) : todo' = <<Fill(items)>> \o Tail(todo)
         /\ shown' = IF kind = "main" THEN NewItems ELSE shown
  /\ UNCHANGED <<settings, bluetooth, display>>

FillMenu ==
  /\ Doing("fill")
  /\ LET items == Head(todo).arg
     IN  todo' = IF items = << >> THEN Tail(todo)
                 ELSE menu_add(Head(items)) \o <<Fill(Tail(items))>> \o Tail(todo)
  /\ UNCHANGED <<stack, shown, settings, bluetooth, display>>

MenuAddSlot ==
  /\ Doing("slot")
  /\ OnTop([Top EXCEPT !.items = Append(@, Head(todo).arg)])
  /\ Done
  /\ UNCHANGED <<shown, settings, bluetooth, display>>

MenuAddCount ==
  /\ Doing("count")
  /\ OnTop([Top EXCEPT !.length = @ + 1])
  /\ Done
  /\ UNCHANGED <<shown, settings, bluetooth, display>>

FreeMenu ==
  /\ Doing("free")
  /\ OnTop([Top EXCEPT !.freed = TRUE])
  /\ Done
  /\ UNCHANGED <<shown, settings, bluetooth, display>>

Unlink ==
  /\ Doing("unlink")
  /\ stack' = Front(stack)
  /\ Done
  /\ UNCHANGED <<shown, settings, bluetooth, display>>

\* ui_clear: one turn of its loop.
ui_clear ==
  /\ Doing("clear")
  /\ todo' = IF stack = << >> THEN Tail(todo) ELSE ui_pop \o todo
  /\ UNCHANGED <<stack, shown, settings, bluetooth, display>>

\* cyw43_arch_init may fail, and both inits return then. The client's init and deinit
\* render, the server's do not.
midi_ble_server_init ==
  /\ Doing("server_init")
  /\ \/ server' = TRUE /\ radio' = radio + 1
     \/ UNCHANGED <<server, radio>>
  /\ Done
  /\ UNCHANGED <<stack, shown, settings, client, link, initial_mode, display>>

midi_ble_client_init ==
  /\ Doing("client_init")
  /\ \/ client' = TRUE /\ radio' = radio + 1 /\ todo' = ui_render \o Tail(todo)
     \/ UNCHANGED <<client, radio>> /\ Done
  /\ UNCHANGED <<stack, shown, settings, server, link, initial_mode, display>>

\* Each deinit is called only if its role is on.
midi_ble_deinit ==
  /\ Doing("server_deinit")
  /\ server' = FALSE
  /\ radio' = IF server THEN radio - 1 ELSE radio
  /\ link' = IF server THEN "none" ELSE link
  /\ Done
  /\ UNCHANGED <<stack, shown, settings, client, initial_mode, display>>

midi_ble_client_deinit ==
  /\ Doing("client_deinit")
  /\ client' = FALSE
  /\ radio' = IF client THEN radio - 1 ELSE radio
  /\ link' = IF client THEN "none" ELSE link
  /\ todo' = IF client THEN ui_render \o Tail(todo) ELSE Tail(todo)
  /\ UNCHANGED <<stack, shown, settings, server, initial_mode, display>>

midi_ble_client_connect ==
  /\ Doing("connect")
  /\ link' = IF link = "none" THEN "asked" ELSE link
  /\ Done
  /\ UNCHANGED <<stack, shown, settings, server, client, radio, initial_mode, display>>

\* A client without a connection is remembered as off.
midi_ble_set_state_as_initial ==
  /\ Doing("remember")
  /\ initial_mode' = IF server THEN "server"
                     ELSE IF client /\ link = "connected" THEN "client" ELSE "off"
  /\ Done
  /\ UNCHANGED <<stack, shown, settings, server, client, radio, link, display>>

\* A menu changes with the main loop alone, so that an interrupt in the middle of its
\* rendering draws the same once more.
RenderMenu ==
  /\ Doing("render") /\ stack # << >>
  /\ screen' = render_menu(Top) /\ lag' = "none"
  /\ Done
  /\ UNCHANGED <<stack, shown, settings, bluetooth>>

\* render_status up to its question whether Bluetooth is connected.
StatusTest ==
  /\ Doing("render") /\ stack = << >>
  /\ todo' = <<Draw(link = "connected")>> \o Tail(todo)
  /\ lag' = "none"
  /\ UNCHANGED <<stack, shown, settings, bluetooth, screen>>

\* The rest of render_status, over what an interrupt drew since the display's buffer
\* was cleared, and ssd1306_show.
StatusDraw ==
  /\ Doing("draw")
  /\ screen' = Status(Icons(Head(todo).arg)
                      \cup IF lag = "race" THEN screen.icons ELSE {})
  /\ Done
  /\ UNCHANGED <<stack, shown, settings, bluetooth, lag>>

-------------------------------------------------------------------------------
(* ui_navigate, from handle_key: it renders at its end, whatever it did. *)

Idle == todo = << >>

\* A key that the status or the menu ignores, a value of the Envelope menu (see
\* MidiValue), or a keyboard that was plugged in, which the status shows.
OnlyRender ==
  /\ Idle
  /\ todo' = ui_render
  /\ UNCHANGED <<stack, shown, settings, bluetooth, display>>

\* navigate_status
OpenMainMenu ==
  /\ Idle /\ stack = << >>
  /\ todo' = <<Push("main")>> \o ui_render
  /\ UNCHANGED <<stack, shown, settings, bluetooth, display>>

Return ==
  /\ Idle /\ stack # << >>
  /\ todo' = ui_pop \o ui_render
  /\ UNCHANGED <<stack, shown, settings, bluetooth, display>>

Close ==
  /\ Idle /\ stack # << >>
  /\ todo' = <<Step("clear")>> \o ui_render
  /\ UNCHANGED <<stack, shown, settings, bluetooth, display>>

\* A way up that leaves the screen where it is.
NavigateUpUnscrolled ==
  /\ Idle /\ stack # << >>
  /\ OnTop([Top EXCEPT !.index = Higher(Top.index - 1, 0)])
  /\ todo' = ui_render
  /\ UNCHANGED <<shown, settings, bluetooth, display>>

\* navigate_menu
NavigateUp ==
  /\ Idle /\ stack # << >>
  /\ LET index == Higher(Top.index - 1, 0)
     IN  OnTop([Top EXCEPT !.index = index, !.scroll = Lower(@, index)])
  /\ todo' = ui_render
  /\ UNCHANGED <<shown, settings, bluetooth, display>>

NavigateDown ==
  /\ Idle /\ stack # << >>
  /\ LET index == Lower(Top.index + 1, Higher(Top.length - 1, 0))
     IN  OnTop([Top EXCEPT !.index = index, !.scroll = Higher(@, index - Lines + 1)])
  /\ todo' = ui_render
  /\ UNCHANGED <<shown, settings, bluetooth, display>>

Focus(item) ==
  /\ Idle /\ stack # << >>
  /\ Top.index < Top.length
  /\ Top.items[Top.index + 1] = item

\* No test of the ends.
NeighboursBeyond(index, max) == {index - 1, index + 1}

\* ui_menu_item_select_navigate: one to the left or to the right of index.
Neighbours(index, max) == {index - 1, index + 1} \cap 0..max

NavigateKeymap ==
  /\ Focus("Keymap")
  /\ \E i \in Neighbours(shown.keymap, N_KEYMAPS - 1) :
       /\ shown' = [shown EXCEPT !.keymap = i]
       /\ keymap' = i
  /\ todo' = ui_render
  /\ UNCHANGED <<stack, strip, reset, bluetooth, display>>

\* A select that shows another value and assigns the one before.
NavigateStripLate ==
  /\ Focus("Strip control")
  /\ \E i \in Neighbours(shown.strip, N_VALUES - 1) : shown' = [shown EXCEPT !.strip = i]
  /\ strip' = shown.strip
  /\ todo' = ui_render
  /\ UNCHANGED <<stack, keymap, reset, bluetooth, display>>

\* set_analog_strip_mv
NavigateStrip ==
  /\ Focus("Strip control")
  /\ \E i \in Neighbours(shown.strip, N_VALUES - 1) :
       /\ shown' = [shown EXCEPT !.strip = i]
       /\ strip' = i
  /\ todo' = ui_render
  /\ UNCHANGED <<stack, keymap, reset, bluetooth, display>>

\* set_analog_strip_reset_on_release
NavigateReset ==
  /\ Focus("Reset on release")
  /\ shown' = [shown EXCEPT !.reset = ~@]
  /\ reset' = shown'.reset
  /\ todo' = ui_render
  /\ UNCHANGED <<stack, keymap, strip, bluetooth, display>>

\* Three slips: the menus stay open over a server that was started, a client is started
\* without stopping the server, a menu is opened over those that should be closed.
start_server_uncleared == <<Step("client_deinit"), Step("server_init")>>
start_client_over_server == <<Step("client_init"), Step("clear"), Push("bluetooth")>>
start_client_uncleared == <<Step("server_deinit"), Step("client_init"), Push("bluetooth")>>

start_server == <<Step("client_deinit"), Step("server_init"), Step("clear")>>
start_client == <<Step("server_deinit"), Step("client_init"), Step("clear"),
                  Push("bluetooth")>>
stop == <<Step("server_deinit"), Step("client_deinit"), Step("clear")>>

\* What ENTER does with an item that has an action. (The event that ends a connection
\* comes by interrupt.)
Action(item) ==
  CASE item = "Bluetooth" -> <<Push("bluetooth")>>
    [] item = "Envelope"  -> <<Push("envelope")>>
    [] item = "Connect"   -> <<Push("connect")>>
    [] item = "device"    -> <<Step("connect"), Step("clear")>>
    [] item = "Disconnect" -> <<Step("clear")>>
    [] item = "Remember connection" -> <<Step("remember")>>
    [] item \in {"Start server", "Switch to server"} -> start_server
    [] item \in {"Start client", "Switch to client"} -> start_client
    [] item = "Disable" -> stop

WithAction == {"Bluetooth", "Envelope", "Connect", "device", "Disconnect",
               "Remember connection", "Start server", "Switch to server",
               "Start client", "Switch to client", "Disable"}

Enter(item) ==
  /\ Focus(item)
  /\ todo' = Action(item) \o ui_render
  /\ UNCHANGED <<stack, shown, settings, bluetooth, display>>

\* LEFT, RIGHT and ENTER in a menu without items read items[0] of an empty array:
\* the processor comes back or it does not.
NavigateNothing ==
  /\ Idle /\ stack # << >>
  /\ Top.length = 0
  /\ todo' \in {ui_render, <<Step("lost")>>}
  /\ UNCHANGED <<stack, shown, settings, bluetooth, display>>

-------------------------------------------------------------------------------
(* Bluetooth interrupts; each of them renders what is on top of the stack. *)

\* ui_render, run by the interrupt as a whole.
Rendered ==
  /\ screen' = Picture(link' = "connected")
  /\ lag' = IF Doing("draw") THEN "race" ELSE "none"

Connected ==
  /\ ~Doing("lost")
  /\ \/ server /\ link = "none"
     \/ client /\ link = "asked"
  /\ link' = "connected"
  /\ Rendered
  /\ UNCHANGED <<stack, todo, shown, settings, server, client, radio, initial_mode>>

\* The handler forgets the connection and renders nothing.
DisconnectedUnseen ==
  /\ ~Doing("lost")
  /\ link = "connected"
  /\ link' = "none"
  /\ UNCHANGED <<stack, todo, shown, settings, server, client, radio, initial_mode, display>>

Disconnected ==
  /\ ~Doing("lost")
  /\ link = "connected"
  /\ link' = "none"
  /\ Rendered
  /\ UNCHANGED <<stack, todo, shown, settings, server, client, radio, initial_mode>>

Next ==
  \/ PushMenu \/ FillMenu \/ MenuAddSlot \/ MenuAddCount \/ FreeMenu \/ Unlink \/ ui_clear
  \/ midi_ble_server_init \/ midi_ble_client_init
  \/ midi_ble_deinit \/ midi_ble_client_deinit
  \/ midi_ble_client_connect \/ midi_ble_set_state_as_initial
  \/ RenderMenu \/ StatusTest \/ StatusDraw
  \/ OnlyRender \/ OpenMainMenu \/ Return \/ Close \/ NavigateUp \/ NavigateDown
  \/ NavigateKeymap \/ NavigateStrip \/ NavigateReset
  \/ \E item \in WithAction : Enter(item)
  \/ NavigateNothing
  \/ Connected \/ Disconnected

Spec == Init /\ [][Next]_vars
-------------------------------------------------------------------------------
(* Properties *)

Kinds == {"main", "envelope", "bluetooth", "connect"}

TypeOK ==
  /\ \A menu \in Range(stack) :
       /\ menu.kind \in Kinds
       /\ menu.length \in Nat /\ menu.index \in Nat /\ menu.scroll \in Nat
       /\ menu.freed \in BOOLEAN
  /\ shown \in [keymap : 0..(N_KEYMAPS - 1), strip : 0..(N_VALUES - 1), reset : BOOLEAN]
  /\ keymap \in 0..(N_KEYMAPS - 1) /\ strip \in 0..(N_VALUES - 1) /\ reset \in BOOLEAN
  /\ server \in BOOLEAN /\ client \in BOOLEAN /\ radio \in Nat
  /\ link \in {"none", "asked", "connected"}
  /\ initial_mode \in {"off", "server", "client"}
  /\ lag \in {"none", "boot", "race"}

\* The radio is started once, for one role at a time, whatever sequence of menu items
\* is chosen, whatever fails to start and whenever the peer comes or goes: no role is
\* initialised over the other or over itself (menu/bluetooth.c 17-42, where start_server
\* and start_client rely on the menus never to offer what is on already).
OneRole ==
  /\ ~(server /\ client)
  /\ radio = IF server \/ client THEN 1 ELSE 0

\* No menu outlives what it was built for: every Bluetooth menu on the stack offers
\* what fits the present role, up to the link, which an interrupt may have changed
\* since; a list of devices is open only while the keytar is a client.
MenusFitRole ==
  Idle =>
    \A menu \in Range(stack) :
      /\ menu.kind = "bluetooth" =>
           Range(menu.items) \ {"Connect", "Disconnect"}
             = Range(push_menu_bluetooth) \ {"Connect", "Disconnect"}
      /\ menu.kind = "connect" => client

\* At any moment at which an interrupt can render the top of the stack, the menu is
\* allocated and each item it counts was written, also while the menu is being filled,
\* save between the two halves of ui_pop, which frees first (ui/stack.c 47-51).
RenderReadsLive ==
  stack # << >> =>
    /\ Top.length <= Len(Top.items)
    /\ Top.freed => Doing("unlink")

\* A key press acts on an item the user sees: the index of every menu is on the screen
\* and within the items, and the one way to navigate in nothing is an empty Connect
\* menu.
FocusOnScreen ==
  /\ Idle => (\A menu \in Range(stack) :
                /\ menu.index \in menu.scroll..(menu.scroll + Lines - 1)
                /\ menu.index < menu.length \/ (menu.kind = "connect" /\ menu.length = 0))
  /\ Doing("lost") => Top.kind = "connect"

\* The main menu shows what is set, as long as it is open, under whatever menus: its
\* items keep indexes of their own and nothing tells them of a change.
SettingsShown ==
  (Idle /\ \E menu \in Range(stack) : menu.kind = "main") =>
    /\ shown.keymap = keymap /\ shown.strip = strip /\ shown.reset = reset

\* No sequence of key presses grows the stack: what a menu opens replaces what was
\* there or is at most the third above the status.
DepthBounded == Len(stack) <= 3

\* The display is true: between two keys it shows the menu, or the role and the link, as
\* they are, although the main loop and the interrupts draw in one buffer and the menus'
\* actions change roles without rendering. When an interrupt has drawn in the middle of
\* the main loop's status, the display may show an icon too many, of a connection that
\* is over, but it never hides a connection (ui/status.c 56-65).
ScreenTrue ==
  Idle =>
    CASE lag = "none" -> screen = Picture(link = "connected")
      [] lag = "race" -> \E icons \in SUBSET {"Bluetooth", "..."} :
                           /\ Icons(link = "connected") \subseteq icons
                           /\ screen = Status(icons)
      [] lag = "boot" -> server /\ screen = Status({})
===============================================================================
