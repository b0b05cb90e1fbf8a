------------------------------ MODULE MenusProofs ------------------------------
(***************************************************************************)
(* Proofs about Menus, for any number of layouts, values, lines and devices. *)
(*                                                                          *)
(* The invariant reads todo in two parts: what is left of the function the  *)
(* key press is in (rendering, drawing, pushing or popping), and the calls  *)
(* that come later. Each later call states what it needs of the roles and   *)
(* of the menus. Both parts are named sequences of steps: the provers see   *)
(* the names, and lemmas say of each what its first step and its rest are.  *)
(***************************************************************************)
EXTENDS Menus, TLAPS

\* The steps a key press consists of.
Ops == {"count", "free", "unlink", "clear", "server_init", "client_init", "server_deinit",
        "client_deinit", "connect", "remember", "render", "lost"}

Labels == {"Bluetooth", "Keymap", "Envelope", "Strip control", "Reset on release", "Attack",
           "Decay", "Sustain", "Release", "Disconnect", "Connect", "Remember connection",
           "Switch to server", "Disable", "Switch to client", "Start server",
           "Start client", "device"}

Steps == {Step(op) : op \in Ops} \cup {Push(kind) : kind \in Kinds}
           \cup {Slot(item) : item \in Labels} \cup {Fill(items) : items \in Seq(Labels)}
           \cup {Draw(answer) : answer \in BOOLEAN}

Menu == [kind : Kinds, items : Seq(Labels), length : Nat, index : Nat, scroll : Nat,
         freed : BOOLEAN]

\* A menu opens menus of higher rank only.
Rank(kind) == IF kind = "main" THEN 1 ELSE IF kind = "connect" THEN 3 ELSE 2

\* The cursor is on the screen and on an item, if there is one.
Placed(menu) ==
  /\ menu.scroll <= menu.index /\ menu.index < menu.scroll + Lines
  /\ menu.index < menu.length \/ menu.index = 0

StackOK ==
  /\ stack \in Seq(Menu)
  /\ \A i \in 1..Len(stack) : Placed(stack[i])
  /\ \A i, j \in 1..Len(stack) : i < j => Rank(stack[i].kind) < Rank(stack[j].kind)

Counted(menu) == menu.length = Len(menu.items) /\ ~menu.freed

BelowCounted == \A i \in 1..Len(stack) : i # Len(stack) => Counted(stack[i])

TopCounted == stack # << >> => Counted(Top)

BluetoothItems ==
  IF client THEN {<<"Disconnect", "Remember connection", "Switch to server", "Disable">>,
                  <<"Connect", "Remember connection", "Switch to server", "Disable">>}
  ELSE IF server THEN {<<"Switch to client", "Disable">>}
                 ELSE {<<"Start server", "Start client">>}

\* The items of a menu are those its kind has in the present role.
Fits(kind, items) ==
  /\ kind = "main" => items = push_menu_main
  /\ kind = "envelope" => items = push_menu_envelope
  /\ kind = "bluetooth" => items \in BluetoothItems
  /\ kind = "connect" => client /\ items \in Seq({"device"})

\* The top menu once it has got the items that are missing, and those below it.
AllFit(missing) ==
  /\ stack # << >> => Fits(Top.kind, Top.items \o missing)
  /\ \A i \in 1..Len(stack) : i # Len(stack) => Fits(stack[i].kind, stack[i].items)

\* What the handlers of ui_navigate have still to call.
remembering == <<Step("remember")>> \o ui_render
losing == <<Step("lost")>>
closing == <<Step("clear")>> \o ui_render
opening(kind) == <<Push(kind)>> \o ui_render
connecting == <<Step("connect"), Step("clear")>> \o ui_render
reopening == <<Step("clear"), Push("bluetooth")>> \o ui_render
starting_server == <<Step("server_init"), Step("clear")>> \o ui_render
switching_to_server == start_server \o ui_render
starting_client == <<Step("client_init"), Step("clear"), Push("bluetooth")>> \o ui_render
switching_to_client == start_client \o ui_render
stopping_client == <<Step("client_deinit"), Step("clear")>> \o ui_render
stopping == stop \o ui_render

\* The calls that may follow a ui_pop.
AfterPop == {ui_render, closing, reopening}

\* What is left of the functions they call, before what comes later.
rendering(later) == ui_render \o later
drawing(answer, later) == <<Draw(answer)>> \o later
popping(later) == ui_pop \o later
unlinking(later) == <<Step("unlink")>> \o later
filling(missing) == <<Fill(missing)>> \o ui_render
slotting(missing) == <<Slot(Head(missing)), Step("count"), Fill(Tail(missing))>> \o ui_render
counting(missing) == <<Step("count"), Fill(missing)>> \o ui_render

Opens(kind) ==
  /\ stack # << >> => Rank(Top.kind) < Rank(kind)
  /\ kind = "connect" => client

\* What holds of the roles and of the stack as long as these calls are to come.
LaterOK(later) ==
  \/ later \in {<< >>, ui_render, remembering} /\ AllFit(<< >>)
  \/ later = losing /\ AllFit(<< >>) /\ stack # << >> /\ Top.kind = "connect"
  \/ \E kind \in Kinds : later = opening(kind) /\ AllFit(<< >>) /\ Opens(kind)
  \/ later \in {closing, connecting, reopening, stopping_client, stopping}
  \/ later = switching_to_server /\ ~server
  \/ later = switching_to_client /\ ~client
  \/ later \in {starting_server, starting_client} /\ ~server /\ ~client

\* In the middle of a push, of menu_add and of ui_pop.
Pushing ==
  \E missing \in Seq(Labels) :
    /\ stack # << >> /\ AllFit(missing)
    /\ \/ todo = filling(missing) /\ TopCounted
       \/ todo = slotting(missing) /\ missing # << >> /\ TopCounted
       \/ todo = counting(missing) /\ Top.length + 1 = Len(Top.items) /\ ~Top.freed

Popping ==
  \E later \in AfterPop :
    /\ stack # << >> /\ LaterOK(later)
    /\ \/ todo = popping(later) /\ TopCounted
       \/ todo = unlinking(later) /\ Top.length = Len(Top.items)

Drawing ==
  \E answer \in BOOLEAN, later \in Seq(Steps) :
    todo = drawing(answer, later) /\ LaterOK(later) /\ stack = << >>

Rendering == TopCounted /\ \E later \in Seq(Steps) : todo = rendering(later) /\ LaterOK(later)

Calling == TopCounted /\ LaterOK(todo)

TodoOK == Calling \/ Rendering \/ Drawing \/ Pushing \/ Popping

SettingsOK ==
  /\ shown \in [keymap : 0..(N_KEYMAPS - 1), strip : 0..(N_VALUES - 1), reset : BOOLEAN]
  /\ keymap \in 0..(N_KEYMAPS - 1) /\ strip \in 0..(N_VALUES - 1) /\ reset \in BOOLEAN

FlagsOK ==
  /\ server \in BOOLEAN /\ client \in BOOLEAN /\ radio \in Nat
  /\ link \in {"none", "asked", "connected"}
  /\ initial_mode \in {"off", "server", "client"}
  /\ lag \in {"none", "boot", "race"}

MainShown ==
  (\E i \in 1..Len(stack) : stack[i].kind = "main") =>
    shown.keymap = keymap /\ shown.strip = strip /\ shown.reset = reset

IInv == SettingsOK /\ FlagsOK /\ OneRole /\ StackOK /\ BelowCounted /\ MainShown /\ TodoOK

-------------------------------------------------------------------------------
(* Sequences *)

LEMMA Cons1 ==
  ASSUME NEW S, NEW x \in S, NEW r \in Seq(S)
  PROVE  /\ <<x>> \o r \in Seq(S) /\ <<x>> \o r # << >>
         /\ Head(<<x>> \o r) = x /\ Tail(<<x>> \o r) = r
OBVIOUS

LEMMA Cons2 ==
  ASSUME NEW S, NEW x \in S, NEW y \in S, NEW r \in Seq(S)
  PROVE  /\ <<x, y>> \o r \in Seq(S) /\ <<x, y>> \o r # << >>
         /\ Head(<<x, y>> \o r) = x /\ Tail(<<x, y>> \o r) = <<y>> \o r
OBVIOUS

LEMMA Cons3 ==
  ASSUME NEW S, NEW x \in S, NEW y \in S, NEW z \in S, NEW r \in Seq(S)
  PROVE  /\ <<x, y, z>> \o r \in Seq(S) /\ <<x, y, z>> \o r # << >>
         /\ Head(<<x, y, z>> \o r) = x /\ Tail(<<x, y, z>> \o r) = <<y, z>> \o r
OBVIOUS

LEMMA Join ==
  ASSUME NEW S, NEW x \in S, NEW y \in S, NEW z \in S
  PROVE  <<x, y>> \o <<z>> = <<x, y, z>>
<1>1. /\ <<x, y>> \o <<z>> \in Seq(S) /\ Len(<<x, y>> \o <<z>>) = 3
      /\ (<<x, y>> \o <<z>>)[1] = x /\ (<<x, y>> \o <<z>>)[2] = y
      /\ (<<x, y>> \o <<z>>)[3] = z
  OBVIOUS
<1>2. ASSUME NEW s \in Seq(S), Len(s) = 3 PROVE s = <<s[1], s[2], s[3]>>
  BY <1>2
<1> QED BY <1>1, <1>2

LEMMA EmptyConcat == ASSUME NEW S, NEW r \in Seq(S) PROVE << >> \o r = r /\ r \o << >> = r
OBVIOUS

LEMMA ShiftItem ==
  ASSUME NEW S, NEW s \in Seq(S), NEW t \in Seq(S), t # << >>
  PROVE  /\ Head(t) \in S /\ Tail(t) \in Seq(S)
         /\ Append(s, Head(t)) \o Tail(t) = s \o t
OBVIOUS

LEMMA PrefixIs ==
  ASSUME NEW S, NEW s \in Seq(S), NEW n \in Nat, n <= Len(s)
  PROVE  /\ SubSeq(s, 1, n) \in Seq(S)
         /\ Len(SubSeq(s, 1, n)) = n
         /\ \A i \in 1..n : SubSeq(s, 1, n)[i] = s[i]
<1>1. SubSeq(s, 1, n) \in Seq(S)
  OBVIOUS
<1>2. Len(SubSeq(s, 1, n)) = n
  OBVIOUS
<1>3. \A i \in 1..n : SubSeq(s, 1, n)[i] = s[i]
  OBVIOUS
<1> QED BY <1>1, <1>2, <1>3

LEMMA FrontIs ==
  ASSUME NEW S, NEW s \in Seq(S), s # << >>
  PROVE  /\ Front(s) \in Seq(S)
         /\ Len(Front(s)) = Len(s) - 1
         /\ \A i \in 1..(Len(s) - 1) : Front(s)[i] = s[i]
<1>1. Len(s) - 1 \in Nat /\ Len(s) - 1 <= Len(s)
  OBVIOUS
<1> QED BY <1>1, PrefixIs DEF Front

LEMMA OnTopIs ==
  ASSUME NEW S, NEW s \in Seq(S), s # << >>, NEW m \in S
  PROVE  /\ Append(Front(s), m) \in Seq(S)
         /\ Len(Append(Front(s), m)) = Len(s)
         /\ Append(Front(s), m) # << >>
         /\ Last(Append(Front(s), m)) = m
         /\ Append(Front(s), m)[Len(s)] = m
         /\ \A i \in 1..Len(s) : i # Len(s) => Append(Front(s), m)[i] = s[i]
<1>1. /\ Front(s) \in Seq(S)
      /\ Len(Front(s)) = Len(s) - 1
      /\ \A i \in 1..(Len(s) - 1) : Front(s)[i] = s[i]
  BY FrontIs
<1> QED BY <1>1 DEF Last

-------------------------------------------------------------------------------
(* Steps *)

LEMMA StepsAre ==
  /\ \A op \in Ops : Step(op) \in Steps
  /\ \A kind \in Kinds : Push(kind) \in Steps
  /\ \A item \in Labels : Slot(item) \in Steps
  /\ \A items \in Seq(Labels) : Fill(items) \in Steps
  /\ \A answer \in BOOLEAN : Draw(answer) \in Steps
BY DEF Steps

LEMMA FieldsAre ==
  /\ \A op : Step(op).op = op
  /\ \A kind : Push(kind).op = "push" /\ Push(kind).arg = kind
  /\ \A item : Slot(item).op = "slot" /\ Slot(item).arg = item
  /\ \A items : Fill(items).op = "fill" /\ Fill(items).arg = items
  /\ \A answer : Draw(answer).op = "draw" /\ Draw(answer).arg = answer
BY DEF Step, Push, Slot, Fill, Draw

\* A sequence of steps, its first step and the others.
Cut(steps, first, rest) ==
  steps \in Seq(Steps) /\ steps # << >> /\ Head(steps) = first /\ Tail(steps) = rest

LEMMA RenderIs == Cut(ui_render, Step("render"), << >>)
<1>1. Step("render") \in Steps
  BY StepsAre DEF Ops
<1> QED BY <1>1 DEF ui_render, Cut

LEMMA RenderSeq == ui_render \in Seq(Steps)
BY RenderIs DEF Cut

LEMMA ConsCuts ==
  /\ \A x, y \in Steps, r \in Seq(Steps) : Cut(<<x, y>> \o r, x, <<y>> \o r)
  /\ \A x, y, z \in Steps, r \in Seq(Steps) : Cut(<<x, y, z>> \o r, x, <<y, z>> \o r)
  /\ \A w, x, y, z \in Steps, r \in Seq(Steps) :
       Cut(<<w, x, y, z>> \o r, w, <<x, y, z>> \o r)
<1>1. ASSUME NEW x \in Steps, NEW y \in Steps, NEW r \in Seq(Steps)
      PROVE  Cut(<<x, y>> \o r, x, <<y>> \o r)
  BY Cons2 DEF Cut
<1>2. ASSUME NEW x \in Steps, NEW y \in Steps, NEW z \in Steps, NEW r \in Seq(Steps)
      PROVE  Cut(<<x, y, z>> \o r, x, <<y, z>> \o r)
  BY Cons3 DEF Cut
<1>3. ASSUME NEW w \in Steps, NEW x \in Steps, NEW y \in Steps, NEW z \in Steps,
             NEW r \in Seq(Steps)
      PROVE  Cut(<<w, x, y, z>> \o r, w, <<x, y, z>> \o r)
  BY DEF Cut
<1> QED BY <1>1, <1>2, <1>3

LEMMA Cuts ==
  /\ Cut(remembering, Step("remember"), ui_render)
  /\ Cut(losing, Step("lost"), << >>)
  /\ \A kind \in Kinds : Cut(opening(kind), Push(kind), ui_render)
  /\ Cut(closing, Step("clear"), ui_render)
  /\ Cut(connecting, Step("connect"), closing)
  /\ Cut(reopening, Step("clear"), opening("bluetooth"))
  /\ Cut(starting_server, Step("server_init"), closing)
  /\ Cut(switching_to_server, Step("client_deinit"), starting_server)
  /\ Cut(starting_client, Step("client_init"), reopening)
  /\ Cut(switching_to_client, Step("server_deinit"), starting_client)
  /\ Cut(stopping_client, Step("client_deinit"), closing)
  /\ Cut(stopping, Step("server_deinit"), stopping_client)
<1>1. /\ Step("remember") \in Steps /\ Step("lost") \in Steps /\ Step("clear") \in Steps
      /\ Step("connect") \in Steps /\ Step("server_init") \in Steps
      /\ Step("client_init") \in Steps /\ Step("client_deinit") \in Steps
      /\ Step("server_deinit") \in Steps
  BY StepsAre DEF Ops
<1>2. \A kind \in Kinds : Push(kind) \in Steps
  BY StepsAre
<1>3. Push("bluetooth") \in Steps
  BY <1>2 DEF Kinds
<1>4. Cut(losing, Step("lost"), << >>)
  BY <1>1 DEF Cut, losing
<1>5. /\ Cut(remembering, Step("remember"), ui_render)
      /\ Cut(closing, Step("clear"), ui_render)
  BY <1>1, RenderSeq, Cons1 DEF Cut, remembering, closing
<1>6. \A kind \in Kinds : Cut(opening(kind), Push(kind), ui_render)
  BY <1>2, RenderSeq, Cons1 DEF Cut, opening
<1>7. Cut(connecting, Step("connect"), closing)
  BY <1>1, RenderSeq, ConsCuts, Zenon DEF connecting, closing
<1>8. Cut(reopening, Step("clear"), opening("bluetooth"))
  BY <1>1, <1>3, RenderSeq, ConsCuts, Zenon DEF reopening, opening
<1>9. Cut(starting_server, Step("server_init"), closing)
  BY <1>1, RenderSeq, ConsCuts, Zenon DEF starting_server, closing
<1>10. Cut(switching_to_server, Step("client_deinit"), starting_server)
  BY <1>1, RenderSeq, ConsCuts, Zenon DEF switching_to_server, start_server, starting_server
<1>11. Cut(starting_client, Step("client_init"), reopening)
  BY <1>1, <1>3, RenderSeq, ConsCuts, Zenon DEF starting_client, reopening
<1>12. Cut(switching_to_client, Step("server_deinit"), starting_client)
  BY <1>1, <1>3, RenderSeq, ConsCuts, Zenon
     DEF switching_to_client, start_client, starting_client
<1>13. Cut(stopping_client, Step("client_deinit"), closing)
  BY <1>1, RenderSeq, ConsCuts, Zenon DEF stopping_client, closing
<1>14. Cut(stopping, Step("server_deinit"), stopping_client)
  BY <1>1, RenderSeq, ConsCuts, Zenon DEF stopping, stop, stopping_client
<1> QED BY <1>4, <1>5, <1>6, <1>7, <1>8, <1>9, <1>10, <1>11, <1>12, <1>13, <1>14

LEMMA CutReads ==
  ASSUME NEW op, NEW steps, NEW rest, Cut(steps, Step(op), rest)
  PROVE  /\ steps \in Seq(Steps) /\ steps # << >>
         /\ Head(steps).op = op /\ Tail(steps) = rest
<1>1. Step(op).op = op
  BY FieldsAre
<1> QED BY <1>1 DEF Cut

\* The same of each of the sequences by name.
Reads(steps, op, rest) ==
  steps \in Seq(Steps) /\ steps # << >> /\ Head(steps).op = op /\ Tail(steps) = rest

LEMMA AllRead ==
  /\ Reads(ui_render, "render", << >>)
  /\ Reads(remembering, "remember", ui_render)
  /\ Reads(losing, "lost", << >>)
  /\ Reads(closing, "clear", ui_render)
  /\ Reads(connecting, "connect", closing)
  /\ Reads(reopening, "clear", opening("bluetooth"))
  /\ Reads(starting_server, "server_init", closing)
  /\ Reads(switching_to_server, "client_deinit", starting_server)
  /\ Reads(starting_client, "client_init", reopening)
  /\ Reads(switching_to_client, "server_deinit", starting_client)
  /\ Reads(stopping_client, "client_deinit", closing)
  /\ Reads(stopping, "server_deinit", stopping_client)
  /\ \A kind \in Kinds : Reads(opening(kind), "push", ui_render)
                           /\ Head(opening(kind)).arg = kind
<1>1. \A op, steps, rest : Cut(steps, Step(op), rest) => Reads(steps, op, rest)
  BY CutReads DEF Reads
<1>2. ASSUME NEW kind \in Kinds
      PROVE  Reads(opening(kind), "push", ui_render) /\ Head(opening(kind)).arg = kind
  BY Cuts, FieldsAre DEF Cut, Reads
<1>3. /\ Reads(ui_render, "render", << >>)
      /\ Reads(remembering, "remember", ui_render)
      /\ Reads(losing, "lost", << >>)
      /\ Reads(closing, "clear", ui_render)
      /\ Reads(connecting, "connect", closing)
      /\ Reads(reopening, "clear", opening("bluetooth"))
      /\ Reads(starting_server, "server_init", closing)
      /\ Reads(switching_to_server, "client_deinit", starting_server)
      /\ Reads(starting_client, "client_init", reopening)
      /\ Reads(switching_to_client, "server_deinit", starting_client)
      /\ Reads(stopping_client, "client_deinit", closing)
      /\ Reads(stopping, "server_deinit", stopping_client)
  BY <1>1, Cuts, RenderIs, Zenon
<1> QED BY <1>2, <1>3

\* What the first of the calls to come says of the others, of the roles and of the menus.
HeadSays(later) ==
  LET op == Head(later).op
      rest == Tail(later)
  IN  /\ op = "render" => rest = << >> /\ AllFit(<< >>)
      /\ op = "remember" => rest = ui_render /\ AllFit(<< >>)
      /\ op = "lost" =>
           rest = << >> /\ AllFit(<< >>) /\ stack # << >> /\ Top.kind = "connect"
      /\ op = "push" => \E kind \in Kinds : /\ Head(later).arg = kind /\ rest = ui_render
                                            /\ AllFit(<< >>) /\ Opens(kind)
      /\ op = "clear" => \/ later = closing /\ rest = ui_render
                         \/ later = reopening /\ rest = opening("bluetooth")
      /\ op = "connect" => rest = closing
      /\ op = "server_init" => ~server /\ ~client /\ rest = closing
      /\ op = "client_init" => ~server /\ ~client /\ rest = reopening
      /\ op = "server_deinit" => rest = stopping_client \/ (~client /\ rest = starting_client)
      /\ op = "client_deinit" => rest = closing \/ (~server /\ rest = starting_server)
      /\ op \notin {"fill", "slot", "count", "free", "unlink", "draw"}

LEMMA LaterHead ==
  ASSUME NEW later, LaterOK(later), later # << >>
  PROVE  HeadSays(later) /\ later \in Seq(Steps)
<1> USE AllRead DEF Reads, HeadSays
<1>1. CASE later = ui_render /\ AllFit(<< >>)
  BY <1>1
<1>2. CASE later = remembering /\ AllFit(<< >>)
  BY <1>2
<1>3. CASE later = losing /\ AllFit(<< >>) /\ stack # << >> /\ Top.kind = "connect"
  BY <1>3
<1>4. CASE \E kind \in Kinds : later = opening(kind) /\ AllFit(<< >>) /\ Opens(kind)
  BY <1>4
<1>5. CASE later = closing
  BY <1>5
<1>6. CASE later = connecting
  BY <1>6
<1>7. CASE later = reopening
  BY <1>7
<1>8. CASE later = starting_server /\ ~server /\ ~client
  BY <1>8
<1>9. CASE later = switching_to_server /\ ~server
  BY <1>9
<1>10. CASE later = starting_client /\ ~server /\ ~client
  BY <1>10
<1>11. CASE later = switching_to_client /\ ~client
  BY <1>11
<1>12. CASE later = stopping_client
  BY <1>12
<1>13. CASE later = stopping
  BY <1>13
<1> QED BY <1>1, <1>2, <1>3, <1>4, <1>5, <1>6, <1>7, <1>8, <1>9, <1>10, <1>11, <1>12, <1>13
        DEF LaterOK

LEMMA LaterIsSteps == ASSUME NEW later, LaterOK(later) PROVE later \in Seq(Steps)
<1>1. CASE later = << >>
  BY <1>1
<1>2. CASE later # << >>
  BY <1>2, LaterHead
<1> QED BY <1>1, <1>2

LEMMA NowReads ==
  /\ \A later \in Seq(Steps) : /\ Reads(rendering(later), "render", later)
                               /\ Reads(popping(later), "free", unlinking(later))
                               /\ Reads(unlinking(later), "unlink", later)
  /\ \A answer \in BOOLEAN, later \in Seq(Steps) :
       Reads(drawing(answer, later), "draw", later) /\ Head(drawing(answer, later)).arg = answer
  /\ \A missing \in Seq(Labels) :
       /\ Reads(filling(missing), "fill", ui_render) /\ Head(filling(missing)).arg = missing
       /\ Reads(counting(missing), "count", filling(missing))
       /\ missing # << >> => /\ Reads(slotting(missing), "slot", counting(Tail(missing)))
                             /\ Head(slotting(missing)).arg = Head(missing)
<1>1. Step("render") \in Steps /\ Step("free") \in Steps /\ Step("unlink") \in Steps
        /\ Step("count") \in Steps
  BY StepsAre DEF Ops
<1>2. \A op, steps, rest : Cut(steps, Step(op), rest) => Reads(steps, op, rest)
  BY CutReads DEF Reads
<1>3. ASSUME NEW later \in Seq(Steps)
      PROVE  /\ Reads(rendering(later), "render", later)
             /\ Reads(popping(later), "free", unlinking(later))
             /\ Reads(unlinking(later), "unlink", later)
  <2>1. Cut(rendering(later), Step("render"), later)
    BY <1>1, Cons1 DEF Cut, rendering, ui_render
  <2>2. Cut(popping(later), Step("free"), unlinking(later))
    BY <1>1, ConsCuts, Zenon DEF popping, unlinking, ui_pop
  <2>3. Cut(unlinking(later), Step("unlink"), later)
    BY <1>1, Cons1 DEF Cut, unlinking
  <2> QED BY <1>2, <2>1, <2>2, <2>3, Zenon
<1>4. ASSUME NEW answer \in BOOLEAN, NEW later \in Seq(Steps)
      PROVE  /\ Reads(drawing(answer, later), "draw", later)
             /\ Head(drawing(answer, later)).arg = answer
  <2>1. Cut(drawing(answer, later), Draw(answer), later)
    BY StepsAre, Cons1 DEF Cut, drawing
  <2> QED BY <2>1, FieldsAre DEF Cut, Reads
<1>5. ASSUME NEW missing \in Seq(Labels)
      PROVE  /\ Reads(filling(missing), "fill", ui_render)
             /\ Head(filling(missing)).arg = missing
             /\ Reads(counting(missing), "count", filling(missing))
  <2>1. Cut(filling(missing), Fill(missing), ui_render)
    BY StepsAre, RenderSeq, Cons1 DEF Cut, filling
  <2>2. Cut(counting(missing), Step("count"), filling(missing))
    BY <1>1, StepsAre, RenderSeq, ConsCuts, Zenon DEF counting, filling
  <2>3. Reads(counting(missing), "count", filling(missing))
    BY <1>2, <2>2, Zenon
  <2> QED BY <2>1, <2>3, FieldsAre DEF Cut, Reads
<1>6. ASSUME NEW missing \in Seq(Labels), missing # << >>
      PROVE  /\ Reads(slotting(missing), "slot", counting(Tail(missing)))
             /\ Head(slotting(missing)).arg = Head(missing)
  <2>1. Head(missing) \in Labels /\ Tail(missing) \in Seq(Labels)
    BY <1>6
  <2>2. Slot(Head(missing)) \in Steps /\ Fill(Tail(missing)) \in Steps
    BY <2>1, StepsAre
  <2>3. Cut(slotting(missing), Slot(Head(missing)), counting(Tail(missing)))
    BY <1>1, <2>2, RenderSeq, ConsCuts, Zenon DEF counting, slotting
  <2> QED BY <2>3, FieldsAre DEF Cut, Reads
<1> QED BY <1>3, <1>4, <1>5, <1>6

\* What the step to be made says of the others, of the roles and of the menus.
StepSays ==
  LET op == Head(todo).op
      rest == Tail(todo)
  IN  /\ op = "render" => TopCounted /\ LaterOK(rest)
      /\ op = "draw" => /\ stack = << >> /\ LaterOK(rest)
                        /\ \E answer \in BOOLEAN : Head(todo).arg = answer
      /\ op = "free" => \E later \in AfterPop : /\ stack # << >> /\ LaterOK(later)
                                                /\ rest = unlinking(later) /\ TopCounted
      /\ op = "unlink" => /\ stack # << >> /\ rest \in AfterPop /\ LaterOK(rest)
                          /\ Top.length = Len(Top.items)
      /\ op \in {"fill", "slot", "count"} =>
           \E missing \in Seq(Labels) :
             /\ stack # << >> /\ AllFit(missing)
             /\ op = "fill" => Head(todo).arg = missing /\ rest = ui_render /\ TopCounted
             /\ op = "slot" => /\ missing # << >> /\ Head(todo).arg = Head(missing)
                               /\ rest = counting(Tail(missing)) /\ TopCounted
             /\ op = "count" => /\ rest = filling(missing) /\ Top.length + 1 = Len(Top.items)
                                /\ ~Top.freed
      /\ op \notin {"render", "draw", "free", "unlink", "fill", "slot", "count"} =>
           TopCounted /\ LaterOK(todo) /\ HeadSays(todo)

LEMMA TodoHead ==
  ASSUME TodoOK, todo # << >>
  PROVE  StepSays
<1>1. CASE Calling
  <2>1. TopCounted /\ LaterOK(todo) /\ HeadSays(todo)
    BY <1>1, LaterHead DEF Calling
  <2>2. Head(todo).op \notin {"fill", "slot", "count", "free", "unlink", "draw"}
    BY <2>1, Zenon DEF HeadSays
  <2>3. ASSUME Head(todo).op = "render" PROVE LaterOK(Tail(todo))
    BY <2>1, <2>3 DEF HeadSays, LaterOK
  <2> QED BY <2>1, <2>2, <2>3 DEF StepSays
<1>2. CASE Rendering
  <2>1. PICK later \in Seq(Steps) : todo = rendering(later) /\ LaterOK(later)
    BY <1>2 DEF Rendering
  <2>2. Head(todo).op = "render" /\ Tail(todo) = later /\ TopCounted
    BY <1>2, <2>1, NowReads DEF Reads, Rendering
  <2> QED BY <2>1, <2>2 DEF StepSays
<1>3. CASE Drawing
  <2>1. PICK answer \in BOOLEAN, later \in Seq(Steps) :
          todo = drawing(answer, later) /\ LaterOK(later) /\ stack = << >>
    BY <1>3 DEF Drawing
  <2>2. Head(todo).op = "draw" /\ Head(todo).arg = answer /\ Tail(todo) = later
    BY <2>1, NowReads DEF Reads
  <2> QED BY <2>1, <2>2 DEF StepSays
<1>4. CASE Pushing
  <2>1. PICK missing \in Seq(Labels) :
          /\ stack # << >> /\ AllFit(missing)
          /\ \/ todo = filling(missing) /\ TopCounted
             \/ todo = slotting(missing) /\ missing # << >> /\ TopCounted
             \/ todo = counting(missing) /\ Top.length + 1 = Len(Top.items) /\ ~Top.freed
    BY <1>4 DEF Pushing
  <2>2. CASE todo = filling(missing) /\ TopCounted
    <3>1. Head(todo).op = "fill" /\ Head(todo).arg = missing /\ Tail(todo) = ui_render
      BY <2>2, NowReads DEF Reads
    <3> QED BY <2>1, <2>2, <3>1 DEF StepSays
  <2>3. CASE todo = slotting(missing) /\ missing # << >> /\ TopCounted
    <3>1. /\ Head(todo).op = "slot" /\ Head(todo).arg = Head(missing)
          /\ Tail(todo) = counting(Tail(missing))
      BY <2>3, NowReads DEF Reads
    <3> QED BY <2>1, <2>3, <3>1 DEF StepSays
  <2>4. CASE todo = counting(missing) /\ Top.length + 1 = Len(Top.items) /\ ~Top.freed
    <3>1. Head(todo).op = "count" /\ Tail(todo) = filling(missing)
      BY <2>4, NowReads DEF Reads
    <3> QED BY <2>1, <2>4, <3>1 DEF StepSays
  <2> QED BY <2>1, <2>2, <2>3, <2>4
<1>5. CASE Popping
  <2>1. PICK later \in AfterPop :
          /\ stack # << >> /\ LaterOK(later)
          /\ \/ todo = popping(later) /\ TopCounted
             \/ todo = unlinking(later) /\ Top.length = Len(Top.items)
    BY <1>5 DEF Popping
  <2>2. later \in Seq(Steps)
    BY <2>1, LaterIsSteps
  <2>3. CASE todo = popping(later) /\ TopCounted
    <3>1. Head(todo).op = "free" /\ Tail(todo) = unlinking(later)
      BY <2>2, <2>3, NowReads DEF Reads
    <3> QED BY <2>1, <2>3, <3>1 DEF StepSays
  <2>4. CASE todo = unlinking(later) /\ Top.length = Len(Top.items)
    <3>1. Head(todo).op = "unlink" /\ Tail(todo) = later
      BY <2>2, <2>4, NowReads DEF Reads
    <3> QED BY <2>1, <2>4, <3>1 DEF StepSays
  <2> QED BY <2>1, <2>3, <2>4
<1> QED BY <1>1, <1>2, <1>3, <1>4, <1>5 DEF TodoOK

-------------------------------------------------------------------------------
(* The stack *)

\* Steps that change neither the stack nor the roles.
Kept == stack' = stack /\ server' = server /\ client' = client

LEMMA KeptFits == ASSUME Kept, NEW missing PROVE AllFit(missing)' <=> AllFit(missing)
BY DEF Kept, AllFit, Fits, BluetoothItems, Top

LEMMA KeptLater == ASSUME Kept, NEW later PROVE LaterOK(later)' <=> LaterOK(later)
<1>1. AllFit(<< >>)' <=> AllFit(<< >>)
  BY KeptFits
<1> QED BY <1>1 DEF Kept, LaterOK, Opens, Top

LEMMA KeptStack ==
  ASSUME Kept
  PROVE  /\ StackOK' <=> StackOK
         /\ BelowCounted' <=> BelowCounted
         /\ TopCounted' <=> TopCounted
BY DEF Kept, StackOK, BelowCounted, TopCounted, Top

LEMMA KeptTodo ==
  ASSUME Kept, todo' = todo, TodoOK
  PROVE  TodoOK'
BY KeptLater, KeptFits, KeptStack
   DEF Kept, TodoOK, Calling, Rendering, Drawing, Pushing, Popping, Top

\* A step to later calls.
LEMMA ToCalling ==
  ASSUME Kept, NEW later, LaterOK(later), TopCounted, todo' = later
  PROVE  TodoOK'
<1>1. LaterOK(later)' /\ TopCounted'
  BY KeptLater, KeptStack
<1> QED BY <1>1 DEF TodoOK, Calling

LEMMA TopIs ==
  ASSUME StackOK, stack # << >>
  PROVE  /\ Len(stack) \in Nat \ {0} /\ Top = stack[Len(stack)]
         /\ Top \in Menu /\ Placed(Top) /\ Top.kind \in Kinds
<1>1. Len(stack) \in Nat \ {0} /\ stack \in Seq(Menu)
  BY DEF StackOK
<1>2. Len(stack) \in 1..Len(stack) /\ Top = stack[Len(stack)]
  BY <1>1 DEF Top, Last
<1>3. stack[Len(stack)] \in Menu /\ Placed(stack[Len(stack)])
  BY <1>1, <1>2 DEF StackOK
<1> QED BY <1>1, <1>2, <1>3 DEF Menu

\* The current menu changes in its contents or its cursor.
LEMMA TopChanges ==
  ASSUME StackOK, BelowCounted, stack # << >>, NEW menu \in Menu, Placed(menu),
         menu.kind = Top.kind, OnTop(menu)
  PROVE  /\ StackOK' /\ BelowCounted' /\ stack' # << >> /\ Top' = menu
         /\ Len(stack') = Len(stack)
         /\ \A i \in 1..Len(stack) : stack'[i].kind = stack[i].kind
         /\ \A i \in 1..Len(stack) : i # Len(stack) => stack'[i] = stack[i]
<1>1. stack \in Seq(Menu) /\ Len(stack) \in Nat \ {0} /\ Top = stack[Len(stack)]
  BY TopIs DEF StackOK
<1>2. /\ stack' \in Seq(Menu) /\ Len(stack') = Len(stack) /\ stack' # << >>
      /\ Last(stack') = menu /\ stack'[Len(stack)] = menu
      /\ \A i \in 1..Len(stack) : i # Len(stack) => stack'[i] = stack[i]
  BY <1>1, OnTopIs DEF OnTop
<1>3. \A i \in 1..Len(stack) : stack'[i].kind = stack[i].kind
  BY <1>1, <1>2
<1>4. \A i \in 1..Len(stack) : Placed(stack'[i])
  BY <1>2 DEF StackOK
<1>5. \A i, j \in 1..Len(stack) : i < j => Rank(stack'[i].kind) < Rank(stack'[j].kind)
  BY <1>3 DEF StackOK
<1>6. \A i \in 1..Len(stack) : i # Len(stack) => Counted(stack'[i])
  BY <1>2 DEF BelowCounted
<1>7. StackOK'
  BY <1>2, <1>4, <1>5 DEF StackOK
<1>8. BelowCounted'
  BY <1>2, <1>6 DEF BelowCounted
<1> QED BY <1>2, <1>3, <1>7, <1>8 DEF Top

\* A menu is closed.
LEMMA TopGoes ==
  ASSUME StackOK, BelowCounted, stack # << >>, stack' = Front(stack)
  PROVE  /\ StackOK' /\ BelowCounted' /\ TopCounted'
         /\ Len(stack') = Len(stack) - 1
         /\ \A i \in 1..Len(stack') : stack'[i] = stack[i]
<1>1. stack \in Seq(Menu) /\ Len(stack) \in Nat \ {0}
  BY TopIs DEF StackOK
<1>2. /\ stack' \in Seq(Menu) /\ Len(stack') = Len(stack) - 1
      /\ \A i \in 1..(Len(stack) - 1) : stack'[i] = stack[i]
  BY <1>1, FrontIs
<1>3. \A i \in 1..Len(stack') : i \in 1..Len(stack) /\ i # Len(stack) /\ stack'[i] = stack[i]
  BY <1>1, <1>2
<1>4. \A i \in 1..Len(stack') : Counted(stack'[i])
  BY <1>3 DEF BelowCounted
<1>5. StackOK'
  BY <1>2, <1>3 DEF StackOK
<1>6. BelowCounted'
  BY <1>4 DEF BelowCounted
<1>7. TopCounted'
  <2>1. stack' # << >> => Len(stack') \in 1..Len(stack')
    BY <1>2
  <2> QED BY <2>1, <1>4 DEF TopCounted, Top, Last
<1> QED BY <1>2, <1>3, <1>5, <1>6, <1>7

\* A menu of higher rank is opened.
LEMMA TopComes ==
  ASSUME StackOK, BelowCounted, TopCounted, NEW menu \in Menu, Placed(menu),
         stack # << >> => Rank(Top.kind) < Rank(menu.kind), stack' = Append(stack, menu)
  PROVE  /\ StackOK' /\ BelowCounted' /\ stack' # << >> /\ Top' = menu
         /\ Len(stack') = Len(stack) + 1
         /\ \A i \in 1..Len(stack) : stack'[i] = stack[i]
<1>1. stack \in Seq(Menu) /\ Len(stack) \in Nat
  BY DEF StackOK
<1>2. /\ stack' \in Seq(Menu) /\ Len(stack') = Len(stack) + 1 /\ stack' # << >>
      /\ \A i \in 1..Len(stack) : stack'[i] = stack[i]
      /\ stack'[Len(stack) + 1] = menu
  BY <1>1
<1>3. Last(stack') = menu
  BY <1>2 DEF Last
<1>4. \A i \in 1..Len(stack') : i \in 1..Len(stack) \/ i = Len(stack')
  BY <1>1, <1>2
<1>5. \A i \in 1..Len(stack') : Placed(stack'[i])
  BY <1>2, <1>4 DEF StackOK
<1>6. \A i \in 1..Len(stack) : Rank(stack[i].kind) < Rank(menu.kind)
  <2> SUFFICES ASSUME NEW i \in 1..Len(stack)
               PROVE  Rank(stack[i].kind) < Rank(menu.kind)
    OBVIOUS
  <2>1. stack # << >> /\ Len(stack) \in 1..Len(stack)
    BY <1>1
  <2>2. Top = stack[Len(stack)] /\ Rank(Top.kind) < Rank(menu.kind)
    BY <2>1, TopIs
  <2>3. i < Len(stack) => Rank(stack[i].kind) < Rank(Top.kind)
    BY <2>1, <2>2 DEF StackOK
  <2>4. \A k : Rank(k) \in Nat
    BY DEF Rank
  <2> QED BY <2>1, <2>2, <2>3, <2>4
<1>7. \A i, j \in 1..Len(stack') : i < j => Rank(stack'[i].kind) < Rank(stack'[j].kind)
  <2> SUFFICES ASSUME NEW i \in 1..Len(stack'), NEW j \in 1..Len(stack'), i < j
               PROVE  Rank(stack'[i].kind) < Rank(stack'[j].kind)
    OBVIOUS
  <2>1. i \in 1..Len(stack) /\ stack'[i] = stack[i]
    BY <1>1, <1>2
  <2>2. CASE j \in 1..Len(stack)
    BY <1>2, <2>1, <2>2 DEF StackOK
  <2>3. CASE j = Len(stack')
    BY <1>2, <1>6, <2>1, <2>3
  <2> QED BY <1>4, <2>2, <2>3
<1>8. \A i \in 1..Len(stack) : Counted(stack[i])
  <2>1. \A i \in 1..Len(stack) : i = Len(stack) => stack # << >> /\ Top = stack[i]
    BY <1>1, TopIs
  <2> QED BY <2>1 DEF BelowCounted, TopCounted
<1>9. StackOK'
  BY <1>2, <1>5, <1>7 DEF StackOK
<1>10. BelowCounted'
  BY <1>2, <1>4, <1>8 DEF BelowCounted
<1> QED BY <1>2, <1>3, <1>9, <1>10 DEF Top

LEMMA Complete ==
  ASSUME StackOK, stack # << >>, AllFit(<< >>)
  PROVE  \A i \in 1..Len(stack) : Fits(stack[i].kind, stack[i].items)
<1>1. Len(stack) \in Nat \ {0} /\ Top = stack[Len(stack)] /\ Top.items \in Seq(Labels)
  BY TopIs DEF Menu
<1>2. Fits(Top.kind, Top.items)
  BY <1>1, EmptyConcat DEF AllFit
<1> QED BY <1>1, <1>2 DEF AllFit

LEMMA GoesFits ==
  ASSUME StackOK, BelowCounted, stack # << >>, AllFit(<< >>), stack' = Front(stack),
         server' = server, client' = client
  PROVE  AllFit(<< >>)'
<1>1. StackOK' /\ \A i \in 1..Len(stack') : stack'[i] = stack[i] /\ i \in 1..Len(stack)
  <2>1. Len(stack') = Len(stack) - 1 /\ Len(stack) \in Nat
    BY TopGoes, TopIs
  <2> QED BY <2>1, TopGoes
<1>2. \A kind, items : Fits(kind, items)' <=> Fits(kind, items)
  BY DEF Fits, BluetoothItems
<1>3. \A i \in 1..Len(stack') : Fits(stack'[i].kind, stack'[i].items)
  BY <1>1, Complete
<1>4. ASSUME stack' # << >> PROVE Fits(Top'.kind, Top'.items \o << >>)
  <2>1. /\ Len(stack') \in 1..Len(stack') /\ Top' = stack'[Len(stack')]
        /\ Top'.items \in Seq(Labels)
    <3>1. stack' \in Seq(Menu) /\ Len(stack') \in 1..Len(stack')
      BY <1>1, <1>4 DEF StackOK
    <3>2. stack'[Len(stack')] \in Menu /\ Top' = stack'[Len(stack')]
      BY <3>1 DEF Top, Last
    <3> QED BY <3>1, <3>2 DEF Menu
  <2>2. Top'.items \o << >> = Top'.items
    BY <2>1, EmptyConcat
  <2> QED BY <1>3, <2>1, <2>2
<1> QED BY <1>2, <1>3, <1>4 DEF AllFit

Rest == SettingsOK /\ FlagsOK /\ OneRole

LEMMA RestKept ==
  ASSUME Rest, UNCHANGED <<shown, settings, bluetooth, display>>
  PROVE  Rest'
BY DEF Rest, SettingsOK, FlagsOK, OneRole, settings, bluetooth, display

LEMMA MainKept ==
  ASSUME MainShown, UNCHANGED <<shown, settings>>,
         \A i \in 1..Len(stack') : \E j \in 1..Len(stack) : stack'[i].kind = stack[j].kind
  PROVE  MainShown'
BY DEF MainShown, settings

LEMMA Parts == IInv <=> Rest /\ StackOK /\ BelowCounted /\ MainShown /\ TodoOK
BY DEF IInv, Rest

LEMMA Whole ==
  ASSUME Rest', StackOK', BelowCounted', MainShown', TodoOK'
  PROVE  IInv'
BY DEF IInv, Rest

LEMMA HeadRender == ASSUME LaterOK(ui_render) PROVE AllFit(<< >>)
BY LaterHead, AllRead DEF HeadSays, Reads

LEMMA KeptAll ==
  ASSUME IInv, UNCHANGED <<stack, shown, settings, bluetooth, display>>
  PROVE  Kept /\ Rest' /\ StackOK' /\ BelowCounted' /\ MainShown'
<1>1. Kept
  BY DEF Kept, bluetooth
<1>2. MainShown'
  BY Parts DEF MainShown, settings
<1> QED BY <1>1, <1>2, Parts, RestKept, KeptStack

-------------------------------------------------------------------------------
(* Push, menu_add and ui_pop *)

LEMMA FillMenuGoes ==
  ASSUME IInv, FillMenu
  PROVE  \E missing \in Seq(Labels) :
           /\ stack # << >> /\ AllFit(missing) /\ TopCounted
           /\ \/ missing = << >> /\ todo' = ui_render
              \/ missing # << >> /\ todo' = slotting(missing)
<1>1. PICK missing \in Seq(Labels) :
        /\ stack # << >> /\ AllFit(missing) /\ TopCounted
        /\ Head(todo).arg = missing /\ Tail(todo) = ui_render
  BY TodoHead DEF IInv, FillMenu, Doing, StepSays
<1>2. ASSUME missing # << >> PROVE todo' = slotting(missing)
  <2>1. /\ Slot(Head(missing)) \in Steps /\ Fill(Tail(missing)) \in Steps
        /\ Step("count") \in Steps
    <3>1. Head(missing) \in Labels /\ Tail(missing) \in Seq(Labels)
      BY <1>2
    <3>2. "count" \in Ops
      BY DEF Ops
    <3> QED BY <3>1, <3>2, StepsAre
  <2>2. todo' = menu_add(Head(missing)) \o <<Fill(Tail(missing))>> \o ui_render
    BY <1>1, <1>2 DEF FillMenu
  <2>3. menu_add(Head(missing)) \o <<Fill(Tail(missing))>>
          = <<Slot(Head(missing)), Step("count"), Fill(Tail(missing))>>
    BY <2>1, Join DEF menu_add
  <2> QED BY <2>1, <2>2, <2>3 DEF slotting
<1>3. missing = << >> => todo' = ui_render
  BY <1>1 DEF FillMenu
<1> QED BY <1>1, <1>2, <1>3

LEMMA FillMenuKeeps == IInv /\ FillMenu => IInv'
<1> SUFFICES ASSUME IInv, FillMenu PROVE IInv'
  OBVIOUS
<1>1. PICK missing \in Seq(Labels) :
        /\ stack # << >> /\ AllFit(missing) /\ TopCounted
        /\ \/ missing = << >> /\ todo' = ui_render
           \/ missing # << >> /\ todo' = slotting(missing)
  BY FillMenuGoes
<1>2. Kept /\ Rest' /\ StackOK' /\ BelowCounted' /\ MainShown'
  BY KeptAll DEF FillMenu
<1>3. CASE missing = << >>
  <2>1. LaterOK(ui_render) /\ todo' = ui_render
    BY <1>1, <1>3 DEF LaterOK
  <2> QED BY <1>1, <1>2, <2>1, ToCalling, Whole
<1>4. CASE missing # << >>
  <2>1. AllFit(missing)' /\ TopCounted' /\ stack' # << >>
    BY <1>1, <1>2, KeptFits, KeptStack DEF Kept
  <2>2. Pushing'
    BY <1>1, <1>4, <2>1 DEF Pushing
  <2> QED BY <1>2, <2>2, Whole DEF TodoOK
<1> QED BY <1>3, <1>4

LEMMA MenuAddSlotKeeps == IInv /\ MenuAddSlot => IInv'
<1> SUFFICES ASSUME IInv, MenuAddSlot PROVE IInv'
  OBVIOUS
<1>1. PICK missing \in Seq(Labels) :
        /\ stack # << >> /\ AllFit(missing) /\ TopCounted /\ missing # << >>
        /\ Head(todo).arg = Head(missing) /\ Tail(todo) = counting(Tail(missing))
  BY TodoHead DEF IInv, MenuAddSlot, Doing, StepSays
<1> DEFINE menu == [Top EXCEPT !.items = Append(@, Head(missing))]
<1>2. Top \in Menu /\ Placed(Top) /\ Counted(Top)
  BY <1>1, TopIs, Parts DEF TopCounted
<1>3. /\ Head(missing) \in Labels /\ Tail(missing) \in Seq(Labels)
      /\ Append(Top.items, Head(missing)) \o Tail(missing) = Top.items \o missing
  BY <1>1, <1>2, ShiftItem DEF Menu
<1>4. /\ menu \in Menu /\ Placed(menu) /\ menu.kind = Top.kind
      /\ menu.items = Append(Top.items, Head(missing)) /\ menu.length = Top.length
      /\ menu.freed = Top.freed
  <2>1. Append(Top.items, Head(missing)) \in Seq(Labels)
    BY <1>2, <1>3 DEF Menu
  <2>2. menu \in Menu
    BY <1>2, <2>1 DEF Menu
  <2>3. /\ menu.kind = Top.kind /\ menu.items = Append(Top.items, Head(missing))
        /\ menu.length = Top.length /\ menu.freed = Top.freed
        /\ menu.index = Top.index /\ menu.scroll = Top.scroll
    BY <1>2 DEF Menu
  <2> QED BY <1>2, <2>2, <2>3 DEF Placed
<1>5. OnTop(menu) /\ todo' = counting(Tail(missing))
  BY <1>1 DEF MenuAddSlot, Done
<1>6. /\ StackOK' /\ BelowCounted' /\ stack' # << >> /\ Top' = menu
      /\ Len(stack') = Len(stack)
      /\ \A i \in 1..Len(stack) : stack'[i].kind = stack[i].kind
      /\ \A i \in 1..Len(stack) : i # Len(stack) => stack'[i] = stack[i]
  BY <1>1, <1>4, <1>5, TopChanges, Parts
<1>7. Top'.length + 1 = Len(Top'.items) /\ ~Top'.freed
  BY <1>2, <1>4, <1>6 DEF Counted, Menu
<1>8. \A kind, items : Fits(kind, items)' <=> Fits(kind, items)
  BY DEF Fits, BluetoothItems, MenuAddSlot, bluetooth
<1>9. AllFit(Tail(missing))'
  BY <1>1, <1>3, <1>4, <1>6, <1>8 DEF AllFit
<1>10. Pushing'
  BY <1>3, <1>5, <1>6, <1>7, <1>9 DEF Pushing
<1>11. MainShown' /\ Rest'
  BY <1>6, MainKept, RestKept, Parts DEF MenuAddSlot
<1> QED BY <1>6, <1>10, <1>11, Whole DEF TodoOK

LEMMA MenuAddCountKeeps == IInv /\ MenuAddCount => IInv'
<1> SUFFICES ASSUME IInv, MenuAddCount PROVE IInv'
  OBVIOUS
<1>1. PICK missing \in Seq(Labels) :
        /\ stack # << >> /\ AllFit(missing) /\ Tail(todo) = filling(missing)
        /\ Top.length + 1 = Len(Top.items) /\ ~Top.freed
  BY TodoHead DEF IInv, MenuAddCount, Doing, StepSays
<1> DEFINE menu == [Top EXCEPT !.length = @ + 1]
<1>2. Top \in Menu /\ Placed(Top)
  BY <1>1, TopIs, Parts
<1>3. /\ menu \in Menu /\ menu.kind = Top.kind /\ menu.items = Top.items
      /\ menu.length = Top.length + 1 /\ menu.freed = Top.freed
      /\ menu.index = Top.index /\ menu.scroll = Top.scroll
  BY <1>2 DEF Menu
<1>4. Placed(menu) /\ Counted(menu)
  BY <1>1, <1>2, <1>3 DEF Placed, Counted, Menu
<1>5. OnTop(menu) /\ todo' = filling(missing)
  BY <1>1 DEF MenuAddCount, Done
<1>6. /\ StackOK' /\ BelowCounted' /\ stack' # << >> /\ Top' = menu
      /\ Len(stack') = Len(stack)
      /\ \A i \in 1..Len(stack) : stack'[i].kind = stack[i].kind
      /\ \A i \in 1..Len(stack) : i # Len(stack) => stack'[i] = stack[i]
  BY <1>1, <1>3, <1>4, <1>5, TopChanges, Parts
<1>7. TopCounted'
  BY <1>4, <1>6 DEF TopCounted
<1>8. \A kind, items : Fits(kind, items)' <=> Fits(kind, items)
  BY DEF Fits, BluetoothItems, MenuAddCount, bluetooth
<1>9. AllFit(missing)'
  BY <1>1, <1>3, <1>6, <1>8 DEF AllFit
<1>10. Pushing'
  BY <1>5, <1>6, <1>7, <1>9 DEF Pushing
<1>11. MainShown' /\ Rest'
  BY <1>6, MainKept, RestKept, Parts DEF MenuAddCount
<1> QED BY <1>6, <1>10, <1>11, Whole DEF TodoOK

LEMMA FreeMenuKeeps == IInv /\ FreeMenu => IInv'
<1> SUFFICES ASSUME IInv, FreeMenu PROVE IInv'
  OBVIOUS
<1>1. PICK later \in AfterPop :
        stack # << >> /\ LaterOK(later) /\ Tail(todo) = unlinking(later) /\ TopCounted
  BY TodoHead DEF IInv, FreeMenu, Doing, StepSays
<1> DEFINE menu == [Top EXCEPT !.freed = TRUE]
<1>2. Top \in Menu /\ Placed(Top) /\ Counted(Top)
  BY <1>1, TopIs, Parts DEF TopCounted
<1>3. /\ menu \in Menu /\ menu.kind = Top.kind /\ menu.items = Top.items
      /\ menu.length = Top.length /\ menu.index = Top.index /\ menu.scroll = Top.scroll
  BY <1>2 DEF Menu
<1>4. Placed(menu) /\ menu.length = Len(menu.items)
  BY <1>2, <1>3 DEF Placed, Counted
<1>5. OnTop(menu) /\ todo' = unlinking(later)
  BY <1>1 DEF FreeMenu, Done
<1>6. /\ StackOK' /\ BelowCounted' /\ stack' # << >> /\ Top' = menu
      /\ Len(stack') = Len(stack)
      /\ \A i \in 1..Len(stack) : stack'[i].kind = stack[i].kind
      /\ \A i \in 1..Len(stack) : i # Len(stack) => stack'[i] = stack[i]
  BY <1>1, <1>3, <1>4, <1>5, TopChanges, Parts
<1>7. \A kind, items : Fits(kind, items)' <=> Fits(kind, items)
  BY DEF Fits, BluetoothItems, FreeMenu, bluetooth
<1>8. AllFit(<< >>) => AllFit(<< >>)'
  BY <1>1, <1>3, <1>6, <1>7 DEF AllFit
<1>9. LaterOK(later)'
  <2>1. later = ui_render => AllFit(<< >>)
    BY <1>1, HeadRender
  <2> QED BY <1>8, <2>1 DEF LaterOK, AfterPop
<1>10. Popping'
  BY <1>4, <1>5, <1>6, <1>9 DEF Popping
<1>11. MainShown' /\ Rest'
  BY <1>6, MainKept, RestKept, Parts DEF FreeMenu
<1> QED BY <1>6, <1>10, <1>11, Whole DEF TodoOK

LEMMA UnlinkKeeps == IInv /\ Unlink => IInv'
<1> SUFFICES ASSUME IInv, Unlink PROVE IInv'
  OBVIOUS
<1>1. PICK later \in AfterPop : stack # << >> /\ later = Tail(todo) /\ LaterOK(later)
  BY TodoHead DEF IInv, Unlink, Doing, StepSays
<1>2. stack' = Front(stack) /\ todo' = later /\ server' = server /\ client' = client
  BY <1>1 DEF Unlink, Done, bluetooth
<1>3. /\ StackOK' /\ BelowCounted' /\ TopCounted' /\ Len(stack') = Len(stack) - 1
      /\ Len(stack) \in Nat /\ \A i \in 1..Len(stack') : stack'[i] = stack[i]
  BY <1>1, <1>2, TopGoes, TopIs, Parts
<1>4. later = ui_render => AllFit(<< >>)'
  BY <1>1, <1>2, HeadRender, GoesFits, Parts
<1>5. LaterOK(later)'
  BY <1>1, <1>4 DEF LaterOK, AfterPop
<1>6. Calling'
  BY <1>2, <1>3, <1>5 DEF Calling
<1>7. MainShown' /\ Rest'
  BY <1>3, MainKept, RestKept, Parts DEF Unlink
<1> QED BY <1>3, <1>6, <1>7, Whole DEF TodoOK

LEMMA ClearKeeps == IInv /\ ui_clear => IInv'
<1> SUFFICES ASSUME IInv, ui_clear PROVE IInv'
  OBVIOUS
<1>1. /\ TopCounted /\ LaterOK(todo)
      /\ \/ todo = closing /\ Tail(todo) = ui_render
         \/ todo = reopening /\ Tail(todo) = opening("bluetooth")
  BY TodoHead DEF IInv, ui_clear, Doing, StepSays, HeadSays
<1>2. Kept /\ Rest' /\ StackOK' /\ BelowCounted' /\ MainShown'
  BY KeptAll DEF ui_clear
<1>3. CASE stack = << >>
  <2>1. AllFit(<< >>) /\ Opens("bluetooth") /\ "bluetooth" \in Kinds
    BY <1>3 DEF AllFit, Opens, Kinds
  <2>2. LaterOK(Tail(todo)) /\ todo' = Tail(todo)
    BY <1>1, <1>3, <2>1 DEF LaterOK, ui_clear
  <2> QED BY <1>1, <1>2, <2>2, ToCalling, Whole
<1>4. CASE stack # << >>
  <2>1. todo' = popping(todo) /\ todo \in AfterPop
    BY <1>1, <1>4 DEF ui_clear, popping, AfterPop
  <2>2. PICK later \in AfterPop : later = todo /\ LaterOK(later) /\ todo' = popping(later)
    BY <1>1, <2>1
  <2>3. LaterOK(later)' /\ TopCounted' /\ stack' # << >>
    BY <1>1, <1>2, <1>4, <2>2, KeptLater, KeptStack DEF Kept
  <2>4. Popping'
    BY <2>2, <2>3 DEF Popping, AfterPop
  <2> QED BY <1>2, <2>4, Whole DEF TodoOK
<1> QED BY <1>3, <1>4

LEMMA ItemsFit ==
  ASSUME NEW kind \in Kinds, kind = "connect" => client, NEW items \in Items(kind)
  PROVE  items \in Seq(Labels) /\ Fits(kind, items)
<1>1. CASE kind = "main"
  <2>1. items = push_menu_main
    BY <1>1 DEF Items
  <2>2. push_menu_main \in Seq(Labels)
    BY DEF push_menu_main, Labels
  <2> QED BY <1>1, <2>1, <2>2 DEF Fits
<1>2. CASE kind = "envelope"
  <2>1. items = push_menu_envelope
    BY <1>2 DEF Items
  <2>2. push_menu_envelope \in Seq(Labels)
    BY DEF push_menu_envelope, Labels
  <2> QED BY <1>2, <2>1, <2>2 DEF Fits
<1>3. CASE kind = "bluetooth"
  <2>1. items = push_menu_bluetooth
    BY <1>3 DEF Items
  <2>2. push_menu_bluetooth \in BluetoothItems
    BY DEF push_menu_bluetooth, BluetoothItems
  <2>3. \A list \in BluetoothItems : list \in Seq(Labels)
    <3>1. /\ <<"Disconnect", "Remember connection", "Switch to server", "Disable">>
               \in Seq(Labels)
          /\ <<"Connect", "Remember connection", "Switch to server", "Disable">>
               \in Seq(Labels)
      BY DEF Labels
    <3>2. /\ <<"Switch to client", "Disable">> \in Seq(Labels)
          /\ <<"Start server", "Start client">> \in Seq(Labels)
      BY DEF Labels
    <3> QED BY <3>1, <3>2 DEF BluetoothItems
  <2> QED BY <1>3, <2>1, <2>2, <2>3 DEF Fits
<1>4. CASE kind = "connect"
  <2>1. PICK n \in 0..MaxDevices : items = [i \in 1..n |-> "device"]
    BY <1>4 DEF Items
  <2>2. items \in Seq({"device"}) /\ items \in Seq(Labels)
    <3>1. n \in Nat
      BY SizesAssumption
    <3> QED BY <2>1, <3>1 DEF Labels
  <2> QED BY <1>4, <2>2 DEF Fits
<1> QED BY <1>1, <1>2, <1>3, <1>4 DEF Kinds

LEMMA PushMenuKeeps == IInv /\ PushMenu => IInv'
<1> SUFFICES ASSUME IInv, PushMenu PROVE IInv'
  OBVIOUS
<1>1. PICK kind \in Kinds : /\ Head(todo).arg = kind /\ Tail(todo) = ui_render
                            /\ AllFit(<< >>) /\ Opens(kind) /\ TopCounted
  BY TodoHead DEF IInv, PushMenu, Doing, StepSays, HeadSays
<1> DEFINE menu == [kind |-> kind, items |-> << >>, length |-> 0,
                    index |-> 0, scroll |-> 0, freed |-> FALSE]
<1>2. /\ menu \in Menu /\ menu.kind = kind /\ menu.items = << >> /\ menu.length = 0
      /\ menu.index = 0 /\ menu.scroll = 0 /\ ~menu.freed
  BY DEF Menu
<1>3. Placed(menu) /\ Counted(menu)
  BY <1>2, SizesAssumption DEF Placed, Counted
<1>4. /\ stack' = Append(stack, menu)
      /\ shown' = IF kind = "main" THEN NewItems ELSE shown
      /\ UNCHANGED <<settings, bluetooth, display>>
  BY <1>1 DEF PushMenu
<1>5. PICK items \in Items(kind) : todo' = filling(items)
  BY <1>1 DEF PushMenu, filling
<1> HIDE DEF menu
<1>6. /\ StackOK' /\ BelowCounted' /\ stack' # << >> /\ Top' = menu
      /\ Len(stack') = Len(stack) + 1 /\ Len(stack) \in Nat
      /\ \A i \in 1..Len(stack) : stack'[i] = stack[i]
  <2>1. StackOK /\ BelowCounted /\ Len(stack) \in Nat
    BY Parts DEF StackOK
  <2>2. stack # << >> => Rank(Top.kind) < Rank(menu.kind)
    BY <1>1, <1>2 DEF Opens
  <2> QED BY <1>1, <1>2, <1>3, <1>4, <2>1, <2>2, TopComes
<1>7. items \in Seq(Labels) /\ Fits(kind, items)
  BY <1>1, ItemsFit DEF Opens
<1>8. AllFit(items)'
  <2>1. \A k, list : Fits(k, list)' <=> Fits(k, list)
    BY <1>4 DEF Fits, BluetoothItems, bluetooth
  <2>2. << >> \o items = items
    BY <1>7, EmptyConcat
  <2>3. Fits(Top'.kind, Top'.items \o items)
    BY <1>2, <1>6, <1>7, <2>2
  <2>4. ASSUME NEW i \in 1..Len(stack'), i # Len(stack')
        PROVE  Fits(stack'[i].kind, stack'[i].items)
    <3>1. i \in 1..Len(stack) /\ stack # << >> /\ stack'[i] = stack[i]
      BY <1>6, <2>4
    <3> QED BY <1>1, <3>1, Complete, Parts
  <2> QED BY <2>1, <2>3, <2>4 DEF AllFit
<1>9. TopCounted'
  BY <1>3, <1>6 DEF TopCounted
<1>10. Pushing'
  BY <1>5, <1>6, <1>7, <1>8, <1>9 DEF Pushing
<1>11. MainShown'
  <2>1. CASE kind = "main"
    BY <1>4, <2>1 DEF MainShown, NewItems, settings
  <2>2. CASE kind # "main"
    <3>1. \A i \in 1..Len(stack') : i \in 1..Len(stack) \/ stack'[i].kind # "main"
      <4>1. stack'[Len(stack')] = menu
        BY <1>4, <1>6
      <4> QED BY <1>2, <1>6, <2>2, <4>1
    <3>2. \A i \in 1..Len(stack') :
            stack'[i].kind = "main" => i \in 1..Len(stack) /\ stack[i].kind = "main"
      BY <1>6, <3>1
    <3> QED BY <1>4, <2>2, <3>2, Parts DEF MainShown, settings
  <2> QED BY <2>1, <2>2
<1>12. Rest'
  <2>1. SettingsOK'
    BY <1>4, Parts DEF Rest, SettingsOK, NewItems, settings
  <2>2. FlagsOK' /\ OneRole'
    BY <1>4, Parts DEF Rest, FlagsOK, OneRole, bluetooth, display
  <2> QED BY <2>1, <2>2 DEF Rest
<1> QED BY <1>6, <1>10, <1>11, <1>12, Whole DEF TodoOK

-------------------------------------------------------------------------------
(* Bluetooth calls *)

LEMMA SameStack ==
  ASSUME IInv, UNCHANGED <<stack, shown, settings>>
  PROVE  /\ StackOK' /\ BelowCounted' /\ MainShown' /\ SettingsOK'
         /\ TopCounted' <=> TopCounted
BY DEF IInv, StackOK, BelowCounted, MainShown, SettingsOK, TopCounted, Top, settings

LEMMA ServerInitKeeps == IInv /\ midi_ble_server_init => IInv'
<1> SUFFICES ASSUME IInv, midi_ble_server_init PROVE IInv'
  OBVIOUS
<1>1. TopCounted /\ ~server /\ ~client /\ Tail(todo) = closing
  BY TodoHead DEF IInv, midi_ble_server_init, Doing, StepSays, HeadSays
<1>2. StackOK' /\ BelowCounted' /\ MainShown' /\ SettingsOK' /\ TopCounted'
  BY <1>1, SameStack DEF midi_ble_server_init
<1>3. FlagsOK' /\ OneRole'
  <2>1. radio = 0
    BY <1>1 DEF IInv, OneRole
  <2>2. UNCHANGED <<client, initial_mode, link, lag>>
    BY DEF midi_ble_server_init, display
  <2>3. CASE server' = TRUE /\ radio' = radio + 1
    BY <1>1, <2>1, <2>2, <2>3 DEF IInv, FlagsOK, OneRole
  <2>4. CASE UNCHANGED <<server, radio>>
    BY <2>2, <2>4 DEF IInv, FlagsOK, OneRole
  <2> QED BY <2>3, <2>4 DEF midi_ble_server_init
<1>4. LaterOK(closing)' /\ todo' = closing
  BY <1>1 DEF LaterOK, midi_ble_server_init, Done
<1>5. TodoOK'
  BY <1>2, <1>4 DEF TodoOK, Calling
<1> QED BY <1>2, <1>3, <1>5, Whole DEF Rest

LEMMA ClientInitKeeps == IInv /\ midi_ble_client_init => IInv'
<1> SUFFICES ASSUME IInv, midi_ble_client_init PROVE IInv'
  OBVIOUS
<1>1. TopCounted /\ ~server /\ ~client /\ Tail(todo) = reopening
  BY TodoHead DEF IInv, midi_ble_client_init, Doing, StepSays, HeadSays
<1>2. StackOK' /\ BelowCounted' /\ MainShown' /\ SettingsOK' /\ TopCounted'
  BY <1>1, SameStack DEF midi_ble_client_init
<1>3. FlagsOK' /\ OneRole'
  <2>1. radio = 0
    BY <1>1 DEF IInv, OneRole
  <2>2. UNCHANGED <<server, initial_mode, link, lag>>
    BY DEF midi_ble_client_init, display
  <2>3. CASE client' = TRUE /\ radio' = radio + 1
    BY <1>1, <2>1, <2>2, <2>3 DEF IInv, FlagsOK, OneRole
  <2>4. CASE UNCHANGED <<client, radio>>
    BY <2>2, <2>4 DEF IInv, FlagsOK, OneRole
  <2> QED BY <2>3, <2>4 DEF midi_ble_client_init
<1>4. LaterOK(reopening)' /\ reopening \in Seq(Steps)
  BY AllRead DEF LaterOK, Reads
<1>5. todo' = reopening \/ todo' = rendering(reopening)
  BY <1>1 DEF midi_ble_client_init, Done, rendering
<1>6. TodoOK'
  BY <1>2, <1>4, <1>5 DEF TodoOK, Calling, Rendering
<1> QED BY <1>2, <1>3, <1>6, Whole DEF Rest

LEMMA ServerDeinitKeeps == IInv /\ midi_ble_deinit => IInv'
<1> SUFFICES ASSUME IInv, midi_ble_deinit PROVE IInv'
  OBVIOUS
<1>1. PICK later : /\ TopCounted /\ Tail(todo) = later
                   /\ later = stopping_client \/ (~client /\ later = starting_client)
  BY TodoHead DEF IInv, midi_ble_deinit, Doing, StepSays, HeadSays
<1>2. StackOK' /\ BelowCounted' /\ MainShown' /\ SettingsOK' /\ TopCounted'
  BY <1>1, SameStack DEF midi_ble_deinit
<1>3. FlagsOK' /\ OneRole'
  <2>1. UNCHANGED <<client, initial_mode, lag>> /\ server' = FALSE
    BY DEF midi_ble_deinit, display
  <2>2. CASE server
    <3>1. radio = 1 /\ radio' = 0 /\ link' = "none" /\ ~client
      BY <2>2 DEF IInv, FlagsOK, OneRole, midi_ble_deinit
    <3> QED BY <2>1, <3>1 DEF IInv, FlagsOK, OneRole
  <2>3. CASE ~server
    <3>1. radio' = radio /\ link' = link
      BY <2>3 DEF midi_ble_deinit
    <3> QED BY <2>1, <2>3, <3>1 DEF IInv, FlagsOK, OneRole
  <2> QED BY <2>2, <2>3
<1>4. LaterOK(later)' /\ todo' = later
  BY <1>1 DEF LaterOK, midi_ble_deinit, Done
<1>5. TodoOK'
  BY <1>2, <1>4 DEF TodoOK, Calling
<1> QED BY <1>2, <1>3, <1>5, Whole DEF Rest

LEMMA ClientDeinitKeeps == IInv /\ midi_ble_client_deinit => IInv'
<1> SUFFICES ASSUME IInv, midi_ble_client_deinit PROVE IInv'
  OBVIOUS
<1>1. PICK later : /\ TopCounted /\ Tail(todo) = later
                   /\ later = closing \/ (~server /\ later = starting_server)
  BY TodoHead DEF IInv, midi_ble_client_deinit, Doing, StepSays, HeadSays
<1>2. StackOK' /\ BelowCounted' /\ MainShown' /\ SettingsOK' /\ TopCounted'
  BY <1>1, SameStack DEF midi_ble_client_deinit
<1>3. FlagsOK' /\ OneRole'
  <2>1. UNCHANGED <<server, initial_mode, lag>> /\ client' = FALSE
    BY DEF midi_ble_client_deinit, display
  <2>2. CASE client
    <3>1. radio = 1 /\ radio' = 0 /\ link' = "none" /\ ~server
      BY <2>2 DEF IInv, FlagsOK, OneRole, midi_ble_client_deinit
    <3> QED BY <2>1, <3>1 DEF IInv, FlagsOK, OneRole
  <2>3. CASE ~client
    <3>1. radio' = radio /\ link' = link
      BY <2>3 DEF midi_ble_client_deinit
    <3> QED BY <2>1, <2>3, <3>1 DEF IInv, FlagsOK, OneRole
  <2> QED BY <2>2, <2>3
<1>4. LaterOK(later)' /\ later \in Seq(Steps)
  <2>1. closing \in Seq(Steps) /\ starting_server \in Seq(Steps)
    BY AllRead DEF Reads
  <2> QED BY <1>1, <2>1 DEF LaterOK, midi_ble_client_deinit
<1>5. todo' = later \/ todo' = rendering(later)
  BY <1>1 DEF midi_ble_client_deinit, rendering
<1>6. TodoOK'
  BY <1>2, <1>4, <1>5 DEF TodoOK, Calling, Rendering
<1> QED BY <1>2, <1>3, <1>6, Whole DEF Rest

LEMMA ConnectKeeps == IInv /\ midi_ble_client_connect => IInv'
<1> SUFFICES ASSUME IInv, midi_ble_client_connect PROVE IInv'
  OBVIOUS
<1>1. TopCounted /\ Tail(todo) = closing
  BY TodoHead DEF IInv, midi_ble_client_connect, Doing, StepSays, HeadSays
<1>2. StackOK' /\ BelowCounted' /\ MainShown' /\ SettingsOK' /\ TopCounted'
  BY <1>1, SameStack DEF midi_ble_client_connect
<1>3. FlagsOK' /\ OneRole'
  BY DEF IInv, FlagsOK, OneRole, midi_ble_client_connect, display
<1>4. LaterOK(closing)' /\ todo' = closing
  BY <1>1 DEF LaterOK, midi_ble_client_connect, Done
<1>5. TodoOK'
  BY <1>2, <1>4 DEF TodoOK, Calling
<1> QED BY <1>2, <1>3, <1>5, Whole DEF Rest

LEMMA RememberKeeps == IInv /\ midi_ble_set_state_as_initial => IInv'
<1> SUFFICES ASSUME IInv, midi_ble_set_state_as_initial PROVE IInv'
  OBVIOUS
<1>1. TopCounted /\ Tail(todo) = ui_render /\ AllFit(<< >>)
  BY TodoHead DEF IInv, midi_ble_set_state_as_initial, Doing, StepSays, HeadSays
<1>2. StackOK' /\ BelowCounted' /\ MainShown' /\ SettingsOK'
  BY SameStack DEF midi_ble_set_state_as_initial
<1>3. FlagsOK' /\ OneRole'
  BY DEF IInv, FlagsOK, OneRole, midi_ble_set_state_as_initial, display
<1>4. Kept /\ LaterOK(ui_render) /\ todo' = ui_render
  BY <1>1 DEF Kept, LaterOK, midi_ble_set_state_as_initial, Done
<1>5. TodoOK'
  BY <1>1, <1>4, ToCalling
<1> QED BY <1>2, <1>3, <1>5, Whole DEF Rest

-------------------------------------------------------------------------------
(* Rendering and interrupts *)

LEMMA RenderMenuKeeps == IInv /\ RenderMenu => IInv'
<1> SUFFICES ASSUME IInv, RenderMenu PROVE IInv'
  OBVIOUS
<1>1. TopCounted /\ LaterOK(Tail(todo))
  BY TodoHead DEF IInv, RenderMenu, Doing, StepSays
<1>2. StackOK' /\ BelowCounted' /\ MainShown' /\ SettingsOK'
  BY SameStack DEF RenderMenu
<1>3. FlagsOK' /\ OneRole'
  BY DEF IInv, FlagsOK, OneRole, RenderMenu, bluetooth
<1>4. Kept /\ todo' = Tail(todo)
  BY DEF Kept, RenderMenu, Done, bluetooth
<1>5. TodoOK'
  BY <1>1, <1>4, ToCalling
<1> QED BY <1>2, <1>3, <1>5, Whole DEF Rest

LEMMA StatusTestKeeps == IInv /\ StatusTest => IInv'
<1> SUFFICES ASSUME IInv, StatusTest PROVE IInv'
  OBVIOUS
<1>1. PICK later : later = Tail(todo) /\ LaterOK(later)
  BY TodoHead DEF IInv, StatusTest, Doing, StepSays
<1>2. StackOK' /\ BelowCounted' /\ MainShown' /\ SettingsOK'
  BY SameStack DEF StatusTest
<1>3. FlagsOK' /\ OneRole'
  BY DEF IInv, FlagsOK, OneRole, StatusTest, bluetooth
<1>4. Kept /\ stack' = << >>
  BY DEF Kept, StatusTest, bluetooth
<1>5. PICK answer \in BOOLEAN : todo' = drawing(answer, later)
  BY <1>1 DEF StatusTest, drawing
<1>6. LaterOK(later)' /\ later \in Seq(Steps)
  BY <1>1, <1>4, KeptLater, LaterIsSteps
<1>7. TodoOK'
  BY <1>4, <1>5, <1>6 DEF TodoOK, Drawing
<1> QED BY <1>2, <1>3, <1>7, Whole DEF Rest

LEMMA StatusDrawKeeps == IInv /\ StatusDraw => IInv'
<1> SUFFICES ASSUME IInv, StatusDraw PROVE IInv'
  OBVIOUS
<1>1. stack = << >> /\ LaterOK(Tail(todo))
  BY TodoHead DEF IInv, StatusDraw, Doing, StepSays
<1>2. StackOK' /\ BelowCounted' /\ MainShown' /\ SettingsOK'
  BY SameStack DEF StatusDraw
<1>3. FlagsOK' /\ OneRole'
  BY DEF IInv, FlagsOK, OneRole, StatusDraw, bluetooth
<1>4. Kept /\ todo' = Tail(todo)
  BY DEF Kept, StatusDraw, Done, bluetooth
<1>5. TodoOK'
  BY <1>1, <1>4, ToCalling DEF TopCounted
<1> QED BY <1>2, <1>3, <1>5, Whole DEF Rest

LEMMA InterruptKeeps == IInv /\ (Connected \/ Disconnected) => IInv'
<1> SUFFICES ASSUME IInv, Connected \/ Disconnected PROVE IInv'
  OBVIOUS
<1>1. StackOK' /\ BelowCounted' /\ MainShown' /\ SettingsOK'
  BY SameStack DEF Connected, Disconnected
<1>2. FlagsOK' /\ OneRole'
  BY DEF IInv, FlagsOK, OneRole, Connected, Disconnected, Rendered
<1>3. Kept /\ todo' = todo
  BY DEF Kept, Connected, Disconnected
<1>4. TodoOK'
  BY <1>3, KeptTodo DEF IInv
<1> QED BY <1>1, <1>2, <1>4, Whole DEF Rest

LEMMA StutterKeeps == IInv /\ UNCHANGED vars => IInv'
<1> SUFFICES ASSUME IInv, UNCHANGED vars PROVE IInv'
  OBVIOUS
<1>1. Kept /\ Rest' /\ StackOK' /\ BelowCounted' /\ MainShown'
  BY KeptAll DEF vars
<1>2. TodoOK'
  BY <1>1, KeptTodo DEF IInv, vars
<1> QED BY <1>1, <1>2, Whole

-------------------------------------------------------------------------------
(* Keys *)

LEMMA IdleIs == ASSUME TodoOK, Idle PROVE TopCounted /\ AllFit(<< >>)
<1>1. ~Rendering /\ ~Drawing
  BY NowReads DEF Rendering, Drawing, Reads, Idle
<1>2. ~Pushing
  BY NowReads DEF Pushing, Reads, Idle
<1>3. ~Popping
  BY NowReads, LaterIsSteps DEF Popping, Reads, Idle
<1>4. LaterOK(<< >>) => AllFit(<< >>)
  BY AllRead DEF LaterOK, Reads
<1> QED BY <1>1, <1>2, <1>3, <1>4 DEF TodoOK, Calling, Idle

LEMMA OnlyRenderKeeps == IInv /\ OnlyRender => IInv'
<1> SUFFICES ASSUME IInv, OnlyRender PROVE IInv'
  OBVIOUS
<1>1. TopCounted /\ LaterOK(ui_render)
  BY IdleIs DEF IInv, OnlyRender, LaterOK
<1>2. Kept /\ Rest' /\ StackOK' /\ BelowCounted' /\ MainShown'
  BY KeptAll DEF OnlyRender
<1>3. TodoOK'
  BY <1>1, <1>2, ToCalling DEF OnlyRender
<1> QED BY <1>2, <1>3, Whole

LEMMA OpenMainMenuKeeps == IInv /\ OpenMainMenu => IInv'
<1> SUFFICES ASSUME IInv, OpenMainMenu PROVE IInv'
  OBVIOUS
<1>1. TopCounted /\ AllFit(<< >>) /\ Opens("main") /\ "main" \in Kinds
  BY IdleIs DEF IInv, OpenMainMenu, Opens, Kinds
<1>2. Kept /\ Rest' /\ StackOK' /\ BelowCounted' /\ MainShown'
  BY KeptAll DEF OpenMainMenu
<1>3. LaterOK(opening("main")) /\ todo' = opening("main")
  BY <1>1 DEF LaterOK, OpenMainMenu, opening
<1>4. TodoOK'
  BY <1>1, <1>2, <1>3, ToCalling
<1> QED BY <1>2, <1>4, Whole

LEMMA ReturnKeeps == IInv /\ Return => IInv'
<1> SUFFICES ASSUME IInv, Return PROVE IInv'
  OBVIOUS
<1>1. TopCounted /\ LaterOK(ui_render) /\ stack # << >>
  BY IdleIs DEF IInv, Return, LaterOK
<1>2. Kept /\ Rest' /\ StackOK' /\ BelowCounted' /\ MainShown'
  BY KeptAll DEF Return
<1>3. LaterOK(ui_render)' /\ TopCounted' /\ stack' # << >>
  BY <1>1, <1>2, KeptLater, KeptStack DEF Kept
<1>4. Popping'
  BY <1>3 DEF Popping, AfterPop, Return, popping
<1> QED BY <1>2, <1>4, Whole DEF TodoOK

LEMMA CloseKeeps == IInv /\ Close => IInv'
<1> SUFFICES ASSUME IInv, Close PROVE IInv'
  OBVIOUS
<1>1. TopCounted /\ LaterOK(closing) /\ todo' = closing
  BY IdleIs DEF IInv, Close, LaterOK, closing
<1>2. Kept /\ Rest' /\ StackOK' /\ BelowCounted' /\ MainShown'
  BY KeptAll DEF Close
<1>3. TodoOK'
  BY <1>1, <1>2, ToCalling
<1> QED BY <1>2, <1>3, Whole

\* The cursor of the current menu moves.
LEMMA CursorKeeps ==
  ASSUME IInv, Idle, stack # << >>, NEW menu \in Menu, Placed(menu),
         menu.kind = Top.kind, menu.items = Top.items, menu.length = Top.length,
         menu.freed = Top.freed, OnTop(menu), todo' = ui_render,
         UNCHANGED <<shown, settings, bluetooth, display>>
  PROVE  IInv'
<1>1. TopCounted /\ AllFit(<< >>)
  BY IdleIs DEF IInv
<1>2. /\ StackOK' /\ BelowCounted' /\ stack' # << >> /\ Top' = menu
      /\ Len(stack') = Len(stack)
      /\ \A i \in 1..Len(stack) : stack'[i].kind = stack[i].kind
      /\ \A i \in 1..Len(stack) : i # Len(stack) => stack'[i] = stack[i]
  BY TopChanges, Parts
<1>3. TopCounted'
  BY <1>1, <1>2 DEF TopCounted, Counted
<1>4. \A kind, items : Fits(kind, items)' <=> Fits(kind, items)
  BY DEF Fits, BluetoothItems, bluetooth
<1>5. AllFit(<< >>)'
  BY <1>1, <1>2, <1>4 DEF AllFit
<1>6. Calling'
  BY <1>3, <1>5 DEF Calling, LaterOK
<1>7. MainShown' /\ Rest'
  BY <1>2, MainKept, RestKept, Parts
<1> QED BY <1>2, <1>6, <1>7, Whole DEF TodoOK

LEMMA NavigateUpKeeps == IInv /\ NavigateUp => IInv'
<1> SUFFICES ASSUME IInv, NavigateUp PROVE IInv'
  OBVIOUS
<1> DEFINE index == Higher(Top.index - 1, 0)
           scroll == Lower(Top.scroll, index)
           menu == [Top EXCEPT !.index = index, !.scroll = scroll]
<1>1. Idle /\ stack # << >> /\ OnTop(menu) /\ todo' = ui_render
  BY DEF NavigateUp
<1>2. Top \in Menu /\ Placed(Top)
  BY <1>1, TopIs, Parts
<1>3. index \in Nat /\ scroll \in Nat
  BY <1>2 DEF Menu, Higher, Lower
<1>4. /\ menu \in Menu /\ menu.kind = Top.kind /\ menu.items = Top.items
      /\ menu.length = Top.length /\ menu.freed = Top.freed
      /\ menu.index = index /\ menu.scroll = scroll
  <2> HIDE DEF index, scroll
  <2> QED BY <1>2, <1>3 DEF Menu
<1>5. /\ scroll <= index /\ index < scroll + Lines
      /\ index < Top.length \/ index = 0
  BY <1>2, SizesAssumption DEF Menu, Placed, Higher, Lower
<1>6. Placed(menu)
  BY <1>4, <1>5 DEF Placed
<1> HIDE DEF menu
<1> QED BY <1>1, <1>4, <1>6, CursorKeeps DEF NavigateUp

LEMMA NavigateDownKeeps == IInv /\ NavigateDown => IInv'
<1> SUFFICES ASSUME IInv, NavigateDown PROVE IInv'
  OBVIOUS
<1> DEFINE index == Lower(Top.index + 1, Higher(Top.length - 1, 0))
           scroll == Higher(Top.scroll, index - Lines + 1)
           menu == [Top EXCEPT !.index = index, !.scroll = scroll]
<1>1. Idle /\ stack # << >> /\ OnTop(menu) /\ todo' = ui_render
  BY DEF NavigateDown
<1>2. Top \in Menu /\ Placed(Top)
  BY <1>1, TopIs, Parts
<1>3. index \in Nat /\ scroll \in Nat
  BY <1>2, SizesAssumption DEF Menu, Higher, Lower
<1>4. /\ menu \in Menu /\ menu.kind = Top.kind /\ menu.items = Top.items
      /\ menu.length = Top.length /\ menu.freed = Top.freed
      /\ menu.index = index /\ menu.scroll = scroll
  <2> HIDE DEF index, scroll
  <2> QED BY <1>2, <1>3 DEF Menu
<1>5. /\ scroll <= index /\ index < scroll + Lines
      /\ index < Top.length \/ index = 0
  BY <1>2, SizesAssumption DEF Menu, Placed, Higher, Lower
<1>6. Placed(menu)
  BY <1>4, <1>5 DEF Placed
<1> HIDE DEF menu
<1> QED BY <1>1, <1>4, <1>6, CursorKeeps DEF NavigateDown

\* A key of an item that holds a setting: the item and the setting change together.
LEMMA SettingKeeps ==
  ASSUME IInv, Idle, UNCHANGED <<stack, bluetooth, display>>, todo' = ui_render,
         SettingsOK',
         shown.keymap = keymap /\ shown.strip = strip /\ shown.reset = reset
           => shown'.keymap = keymap' /\ shown'.strip = strip' /\ shown'.reset = reset'
  PROVE  IInv'
<1>1. TopCounted /\ LaterOK(ui_render)
  BY IdleIs DEF IInv, LaterOK
<1>2. Kept
  BY DEF Kept, bluetooth
<1>3. StackOK' /\ BelowCounted' /\ TodoOK'
  BY <1>1, <1>2, KeptStack, ToCalling, Parts
<1>4. MainShown'
  BY Parts DEF MainShown
<1>5. FlagsOK' /\ OneRole'
  BY DEF IInv, FlagsOK, OneRole, bluetooth, display
<1> QED BY <1>3, <1>4, <1>5, Whole DEF Rest

LEMMA NavigateSettingKeeps ==
  IInv /\ (NavigateKeymap \/ NavigateStrip \/ NavigateReset) => IInv'
<1>1. ASSUME IInv, NavigateKeymap PROVE IInv'
  <2>1. PICK i \in 0..(N_KEYMAPS - 1) : shown' = [shown EXCEPT !.keymap = i] /\ keymap' = i
    BY <1>1 DEF NavigateKeymap, Neighbours
  <2>2. /\ UNCHANGED <<stack, bluetooth, display, strip, reset>> /\ todo' = ui_render
        /\ Idle /\ SettingsOK
    BY <1>1 DEF NavigateKeymap, Focus, IInv
  <2>3. SettingsOK' /\ shown'.keymap = i /\ shown'.strip = shown.strip
          /\ shown'.reset = shown.reset
    BY <2>1, <2>2 DEF SettingsOK
  <2> QED BY <1>1, <2>1, <2>2, <2>3, SettingKeeps
<1>2. ASSUME IInv, NavigateStrip PROVE IInv'
  <2>1. PICK i \in 0..(N_VALUES - 1) : shown' = [shown EXCEPT !.strip = i] /\ strip' = i
    BY <1>2 DEF NavigateStrip, Neighbours
  <2>2. /\ UNCHANGED <<stack, bluetooth, display, keymap, reset>> /\ todo' = ui_render
        /\ Idle /\ SettingsOK
    BY <1>2 DEF NavigateStrip, Focus, IInv
  <2>3. SettingsOK' /\ shown'.strip = i /\ shown'.keymap = shown.keymap
          /\ shown'.reset = shown.reset
    BY <2>1, <2>2 DEF SettingsOK
  <2> QED BY <1>2, <2>1, <2>2, <2>3, SettingKeeps
<1>3. ASSUME IInv, NavigateReset PROVE IInv'
  <2>1. shown' = [shown EXCEPT !.reset = ~@] /\ reset' = shown'.reset
    BY <1>3 DEF NavigateReset
  <2>2. /\ UNCHANGED <<stack, bluetooth, display, keymap, strip>> /\ todo' = ui_render
        /\ Idle /\ SettingsOK
    BY <1>3 DEF NavigateReset, Focus, IInv
  <2>3. SettingsOK' /\ shown'.strip = shown.strip /\ shown'.keymap = shown.keymap
    BY <2>1, <2>2 DEF SettingsOK
  <2> QED BY <1>3, <2>1, <2>2, <2>3, SettingKeeps
<1> QED BY <1>1, <1>2, <1>3

LEMMA MembersOf ==
  /\ \A x, y : \A i \in 1..Len(<<x, y>>) : <<x, y>>[i] \in {x, y}
  /\ \A w, x, y, z : \A i \in 1..Len(<<w, x, y, z>>) : <<w, x, y, z>>[i] \in {w, x, y, z}
  /\ \A v, w, x, y, z : \A i \in 1..Len(<<v, w, x, y, z>>) :
       <<v, w, x, y, z>>[i] \in {v, w, x, y, z}
OBVIOUS

\* The items of each menu.
LEMMA MembersAre ==
  ASSUME NEW kind \in Kinds, NEW items, Fits(kind, items), NEW i \in 1..Len(items)
  PROVE  \/ /\ kind = "main"
            /\ items[i] \in {"Bluetooth", "Keymap", "Envelope", "Strip control",
                             "Reset on release"}
         \/ kind = "envelope" /\ items[i] \in {"Attack", "Decay", "Sustain", "Release"}
         \/ /\ kind = "bluetooth" /\ client
            /\ items[i] \in {"Disconnect", "Connect", "Remember connection",
                             "Switch to server", "Disable"}
         \/ /\ kind = "bluetooth" /\ ~client
            /\ items[i] \in {"Switch to client", "Disable"}
         \/ /\ kind = "bluetooth" /\ ~client /\ ~server
            /\ items[i] \in {"Start server", "Start client"}
         \/ kind = "connect" /\ items[i] = "device"
<1>1. CASE kind = "main"
  <2>1. items[i] \in {"Bluetooth", "Keymap", "Envelope", "Strip control",
                      "Reset on release"}
    BY <1>1, MembersOf DEF Fits, push_menu_main
  <2> QED BY <1>1, <2>1
<1>2. CASE kind = "envelope"
  <2>1. items[i] \in {"Attack", "Decay", "Sustain", "Release"}
    BY <1>2, MembersOf DEF Fits, push_menu_envelope
  <2> QED BY <1>2, <2>1
<1>3. CASE kind = "bluetooth"
  <2>1. items \in BluetoothItems
    BY <1>3 DEF Fits
  <2>2. CASE items = <<"Disconnect", "Remember connection", "Switch to server", "Disable">>
               /\ client
    <3>1. items[i] \in {"Disconnect", "Remember connection", "Switch to server", "Disable"}
      BY <2>2, MembersOf
    <3> QED BY <1>3, <2>2, <3>1
  <2>3. CASE items = <<"Connect", "Remember connection", "Switch to server", "Disable">>
               /\ client
    <3>1. items[i] \in {"Connect", "Remember connection", "Switch to server", "Disable"}
      BY <2>3, MembersOf
    <3> QED BY <1>3, <2>3, <3>1
  <2>4. CASE items = <<"Switch to client", "Disable">> /\ ~client
    <3>1. items[i] \in {"Switch to client", "Disable"}
      BY <2>4, MembersOf
    <3> QED BY <1>3, <2>4, <3>1
  <2>5. CASE items = <<"Start server", "Start client">> /\ ~client /\ ~server
    <3>1. items[i] \in {"Start server", "Start client"}
      BY <2>5, MembersOf
    <3> QED BY <1>3, <2>5, <3>1
  <2> QED BY <2>1, <2>2, <2>3, <2>4, <2>5 DEF BluetoothItems
<1>4. CASE kind = "connect"
  <2>1. items \in Seq({"device"})
    BY <1>4 DEF Fits
  <2>2. items[i] = "device"
    BY <2>1
  <2> QED BY <1>4, <2>2
<1> QED BY <1>1, <1>2, <1>3, <1>4 DEF Kinds

\* Which menu, and which role, an item belongs to.
LEMMA ItemsAre ==
  ASSUME NEW kind \in Kinds, NEW items, Fits(kind, items), NEW i \in 1..Len(items)
  PROVE  /\ items[i] \in {"Bluetooth", "Envelope"} => kind = "main"
         /\ items[i] = "Connect" => kind = "bluetooth" /\ client
         /\ items[i] \in {"Start server", "Start client"} => ~client /\ ~server
         /\ items[i] = "Switch to server" => client
         /\ items[i] = "Switch to client" => ~client
BY MembersAre

LEMMA NoItems ==
  ASSUME NEW kind \in Kinds, NEW items, Fits(kind, items), Len(items) = 0
  PROVE  kind = "connect"
<1>1. /\ Len(push_menu_main) = 5 /\ Len(push_menu_envelope) = 4
      /\ Len(<<"Disconnect", "Remember connection", "Switch to server", "Disable">>) = 4
      /\ Len(<<"Connect", "Remember connection", "Switch to server", "Disable">>) = 4
      /\ Len(<<"Switch to client", "Disable">>) = 2
      /\ Len(<<"Start server", "Start client">>) = 2
  BY DEF push_menu_main, push_menu_envelope
<1>2. \A list \in BluetoothItems : Len(list) \in {2, 4}
  BY <1>1 DEF BluetoothItems
<1> QED BY <1>1, <1>2 DEF Fits, Kinds

LEMMA FocusIs ==
  ASSUME IInv, NEW item, Focus(item)
  PROVE  /\ stack # << >> /\ TopCounted /\ AllFit(<< >>)
         /\ item \in {"Bluetooth", "Envelope"} => Top.kind = "main"
         /\ item = "Connect" => Top.kind = "bluetooth" /\ client
         /\ item \in {"Start server", "Start client"} => ~client /\ ~server
         /\ item = "Switch to server" => client
         /\ item = "Switch to client" => ~client
<1>1. stack # << >> /\ TopCounted /\ AllFit(<< >>)
  BY IdleIs DEF IInv, Focus
<1>2. Top \in Menu /\ Top.kind \in Kinds /\ Top.length = Len(Top.items)
  BY <1>1, TopIs, Parts DEF TopCounted, Counted
<1>3. Top.index + 1 \in 1..Len(Top.items) /\ Top.items[Top.index + 1] = item
  BY <1>2 DEF Focus, Menu
<1>4. Fits(Top.kind, Top.items)
  BY <1>1, <1>2, EmptyConcat DEF AllFit, Menu
<1> QED BY <1>1, <1>2, <1>3, <1>4, ItemsAre

LEMMA EnterGoes ==
  ASSUME IInv, NEW item \in WithAction, Enter(item)
  PROVE  TopCounted /\ \E later : LaterOK(later) /\ later # << >> /\ todo' = later
<1>1. /\ stack # << >> /\ TopCounted /\ AllFit(<< >>)
      /\ item \in {"Bluetooth", "Envelope"} => Top.kind = "main"
      /\ item = "Connect" => Top.kind = "bluetooth" /\ client
      /\ item \in {"Start server", "Start client"} => ~client /\ ~server
      /\ item = "Switch to server" => client
      /\ item = "Switch to client" => ~client
  BY FocusIs DEF Enter
<1>2. todo' = Action(item) \o ui_render /\ ~(server /\ client)
  BY Parts DEF Enter, Rest, OneRole
<1>3. ASSUME NEW kind \in Kinds, todo' = opening(kind), Opens(kind)
      PROVE  \E later : LaterOK(later) /\ later # << >> /\ todo' = later
  BY <1>1, <1>3, AllRead DEF LaterOK, Reads
<1>4. CASE item = "Bluetooth"
  <2>1. todo' = opening("bluetooth") /\ Opens("bluetooth") /\ "bluetooth" \in Kinds
    BY <1>1, <1>2, <1>4 DEF Action, opening, Opens, Rank, Kinds
  <2> QED BY <1>1, <1>3, <2>1
<1>5. CASE item = "Envelope"
  <2>1. todo' = opening("envelope") /\ Opens("envelope") /\ "envelope" \in Kinds
    BY <1>1, <1>2, <1>5 DEF Action, opening, Opens, Rank, Kinds
  <2> QED BY <1>1, <1>3, <2>1
<1>6. CASE item = "Connect"
  <2>1. todo' = opening("connect") /\ Opens("connect") /\ "connect" \in Kinds
    BY <1>1, <1>2, <1>6 DEF Action, opening, Opens, Rank, Kinds
  <2> QED BY <1>1, <1>3, <2>1
<1>7. CASE item = "device"
  <2>1. todo' = connecting /\ LaterOK(connecting)
    BY <1>2, <1>7 DEF Action, connecting, LaterOK
  <2> QED BY <1>1, <2>1, AllRead DEF Reads
<1>8. CASE item = "Disconnect"
  <2>1. todo' = closing /\ LaterOK(closing)
    BY <1>2, <1>8 DEF Action, closing, LaterOK
  <2> QED BY <1>1, <2>1, AllRead DEF Reads
<1>9. CASE item = "Remember connection"
  <2>1. todo' = remembering /\ LaterOK(remembering)
    BY <1>1, <1>2, <1>9 DEF Action, remembering, LaterOK
  <2> QED BY <1>1, <2>1, AllRead DEF Reads
<1>10. CASE item \in {"Start server", "Switch to server"}
  <2>1. todo' = switching_to_server /\ LaterOK(switching_to_server)
    BY <1>1, <1>2, <1>10 DEF Action, switching_to_server, LaterOK
  <2> QED BY <1>1, <2>1, AllRead DEF Reads
<1>11. CASE item \in {"Start client", "Switch to client"}
  <2>1. todo' = switching_to_client /\ LaterOK(switching_to_client)
    BY <1>1, <1>2, <1>11 DEF Action, switching_to_client, LaterOK
  <2> QED BY <1>1, <2>1, AllRead DEF Reads
<1>12. CASE item = "Disable"
  <2>1. todo' = stopping /\ LaterOK(stopping)
    BY <1>2, <1>12 DEF Action, stopping, LaterOK
  <2> QED BY <1>1, <2>1, AllRead DEF Reads
<1> QED BY <1>1, <1>4, <1>5, <1>6, <1>7, <1>8, <1>9, <1>10, <1>11, <1>12 DEF WithAction

LEMMA EnterKeeps == ASSUME IInv, NEW item \in WithAction, Enter(item) PROVE IInv'
<1>1. PICK later : TopCounted /\ LaterOK(later) /\ todo' = later
  BY EnterGoes
<1>2. Kept /\ Rest' /\ StackOK' /\ BelowCounted' /\ MainShown'
  BY KeptAll DEF Enter
<1>3. TodoOK'
  BY <1>1, <1>2, ToCalling
<1> QED BY <1>2, <1>3, Whole

LEMMA NavigateNothingKeeps == IInv /\ NavigateNothing => IInv'
<1> SUFFICES ASSUME IInv, NavigateNothing PROVE IInv'
  OBVIOUS
<1>1. stack # << >> /\ TopCounted /\ AllFit(<< >>) /\ Top.length = 0
  BY IdleIs DEF IInv, NavigateNothing
<1>2. Top \in Menu /\ Top.kind \in Kinds /\ Len(Top.items) = 0
  BY <1>1, TopIs, Parts DEF TopCounted, Counted
<1>3. Fits(Top.kind, Top.items)
  BY <1>1, <1>2, EmptyConcat DEF AllFit, Menu
<1>4. Top.kind = "connect"
  BY <1>2, <1>3, NoItems
<1>5. Kept /\ Rest' /\ StackOK' /\ BelowCounted' /\ MainShown'
  BY KeptAll DEF NavigateNothing
<1>6. LaterOK(ui_render) /\ LaterOK(losing) /\ todo' \in {ui_render, losing}
  BY <1>1, <1>4 DEF LaterOK, NavigateNothing, losing
<1>7. TodoOK'
  BY <1>1, <1>5, <1>6, ToCalling
<1> QED BY <1>5, <1>7, Whole

-------------------------------------------------------------------------------
(* Theorems *)

\* What the present role offers, whatever the link.
OfRole ==
  IF client THEN {"Remember connection", "Switch to server", "Disable"}
  ELSE IF server THEN {"Switch to client", "Disable"}
                 ELSE {"Start server", "Start client"}

LEMMA OfRoleIs ==
  \A list \in BluetoothItems : Range(list) \ {"Connect", "Disconnect"} = OfRole
<1>1. \A x, y : Range(<<x, y>>) = {x, y}
  BY DEF Range
<1>2. \A w, x, y, z : Range(<<w, x, y, z>>) = {w, x, y, z}
  BY DEF Range
<1>3. ASSUME NEW list \in BluetoothItems
      PROVE  Range(list) \ {"Connect", "Disconnect"} = OfRole
  <2>1. CASE list = <<"Disconnect", "Remember connection", "Switch to server", "Disable">>
               /\ client
    <3> DEFINE w == "Disconnect"
               x == "Remember connection"
               y == "Switch to server"
               z == "Disable"
    <3>1. list = <<w, x, y, z>>
      BY <2>1
    <3> HIDE DEF w, x, y, z
    <3>2. Range(list) = {w, x, y, z}
      BY <1>2, <3>1
    <3> QED BY <2>1, <3>2 DEF OfRole, w, x, y, z
  <2>2. CASE list = <<"Connect", "Remember connection", "Switch to server", "Disable">>
               /\ client
    <3> DEFINE w == "Connect"
               x == "Remember connection"
               y == "Switch to server"
               z == "Disable"
    <3>1. list = <<w, x, y, z>>
      BY <2>2
    <3> HIDE DEF w, x, y, z
    <3>2. Range(list) = {w, x, y, z}
      BY <1>2, <3>1
    <3> QED BY <2>2, <3>2 DEF OfRole, w, x, y, z
  <2>3. CASE list = <<"Switch to client", "Disable">> /\ ~client /\ server
    <3>1. Range(list) = {"Switch to client", "Disable"}
      BY <1>1, <2>3
    <3> QED BY <2>3, <3>1 DEF OfRole
  <2>4. CASE list = <<"Start server", "Start client">> /\ ~client /\ ~server
    <3>1. Range(list) = {"Start server", "Start client"}
      BY <1>1, <2>4
    <3> QED BY <2>4, <3>1 DEF OfRole
  <2> QED BY <2>1, <2>2, <2>3, <2>4 DEF BluetoothItems
<1> QED BY <1>3

LEMMA InitInv == Init => IInv
<1> SUFFICES ASSUME Init PROVE IInv
  OBVIOUS
<1>1. stack = << >> /\ stack \in Seq(Menu) /\ Len(stack) = 0
  BY DEF Init
<1>2. StackOK /\ BelowCounted /\ MainShown /\ TopCounted /\ AllFit(<< >>)
  BY <1>1 DEF StackOK, BelowCounted, MainShown, TopCounted, AllFit
<1>3. todo \in {ui_render, << >>}
  BY DEF Init
<1>4. TodoOK
  BY <1>2, <1>3 DEF TodoOK, Calling, LaterOK
<1>5. SettingsOK
  BY SizesAssumption DEF Init, SettingsOK
<1>6. FlagsOK /\ OneRole
  <2>1. server \in BOOLEAN /\ client \in BOOLEAN /\ ~(server /\ client)
    BY DEF Init
  <2>2. radio = (IF server \/ client THEN 1 ELSE 0) /\ radio \in Nat
    BY DEF Init
  <2>3. /\ initial_mode \in {"off", "server", "client"}
        /\ link \in {"none", "asked", "connected"} /\ lag \in {"none", "boot", "race"}
    BY DEF Init
  <2> QED BY <2>1, <2>2, <2>3 DEF FlagsOK, OneRole
<1> QED BY <1>2, <1>4, <1>5, <1>6 DEF IInv

LEMMA StepInv == IInv /\ [Next]_vars => IInv'
<1> SUFFICES ASSUME IInv, [Next]_vars PROVE IInv'
  OBVIOUS
<1>1. ASSUME NEW item \in WithAction, Enter(item) PROVE IInv'
  BY <1>1, EnterKeeps
<1> QED BY <1>1, FillMenuKeeps, MenuAddSlotKeeps, MenuAddCountKeeps, FreeMenuKeeps, UnlinkKeeps,
           ClearKeeps, PushMenuKeeps, ServerInitKeeps, ClientInitKeeps, ServerDeinitKeeps,
           ClientDeinitKeeps, ConnectKeeps, RememberKeeps, RenderMenuKeeps, StatusTestKeeps,
           StatusDrawKeeps, InterruptKeeps, StutterKeeps, OnlyRenderKeeps, OpenMainMenuKeeps,
           ReturnKeeps, CloseKeeps, NavigateUpKeeps, NavigateDownKeeps, NavigateSettingKeeps,
           NavigateNothingKeeps DEF Next

\* The invariant: what a key press has still to do fits the roles and the menus.
THEOREM Invariance == Spec => []IInv
BY InitInv, StepInv, PTL DEF Spec

\* Every variable keeps to its type (ui/stack.c, menu/, midi_ble.c, midi_ble_client.c).
THEOREM TypeCorrect == Spec => []TypeOK
<1>1. IInv => TypeOK
  <2> SUFFICES ASSUME IInv PROVE TypeOK
    OBVIOUS
  <2>1. ASSUME NEW menu \in Range(stack) PROVE menu \in Menu
    <3>1. PICK i \in DOMAIN stack : menu = stack[i]
      BY <2>1 DEF Range
    <3>2. stack \in Seq(Menu)
      BY DEF IInv, StackOK
    <3> QED BY <3>1, <3>2
  <2> QED BY <2>1 DEF IInv, SettingsOK, FlagsOK, TypeOK, Menu
<1> QED BY <1>1, Invariance, PTL

\* The radio is on once, for one role (menu/bluetooth.c 17-42), whatever is chosen in
\* whatever order: start_server and start_client are reached only from a menu that was
\* built for the role they leave.
THEOREM RolesExclude == Spec => []OneRole
<1>1. IInv => OneRole
  BY DEF IInv
<1> QED BY <1>1, Invariance, PTL

\* An interrupt never renders an item that was not written, and a freed menu only between
\* the halves of ui_pop (ui/stack.c 47-51, ui/menu.c).
THEOREM LiveIsRendered == Spec => []RenderReadsLive
<1>1. IInv => RenderReadsLive
  <2> SUFFICES ASSUME IInv, stack # << >>
               PROVE  Top.length <= Len(Top.items) /\ (Top.freed => Doing("unlink"))
    BY DEF RenderReadsLive
  <2>1. Top \in Menu /\ Top.length \in Nat /\ Len(Top.items) \in Nat
    BY TopIs, Parts DEF Menu
  <2>2. CASE TopCounted
    BY <2>1, <2>2 DEF TopCounted, Counted
  <2>3. CASE Top.length + 1 = Len(Top.items) /\ ~Top.freed
    BY <2>1, <2>3
  <2>4. CASE \E later \in AfterPop : /\ LaterOK(later) /\ todo = unlinking(later)
                                     /\ Top.length = Len(Top.items)
    <3>1. Doing("unlink")
      BY <2>4, LaterIsSteps, NowReads DEF Reads, Doing
    <3> QED BY <2>1, <2>4, <3>1
  <2> QED BY <2>2, <2>3, <2>4 DEF IInv, TodoOK, Calling, Rendering, Drawing, Pushing, Popping
<1> QED BY <1>1, Invariance, PTL

\* There are at most three menus over the status: each opens those of higher rank only.
THEOREM DepthIsBounded == Spec => []DepthBounded
<1>1. IInv => DepthBounded
  <2> SUFFICES ASSUME IInv, ~(Len(stack) <= 3) PROVE FALSE
    BY DEF DepthBounded
  <2>1. Len(stack) \in Nat /\ 1 \in 1..Len(stack) /\ 2 \in 1..Len(stack)
          /\ 3 \in 1..Len(stack) /\ 4 \in 1..Len(stack)
    BY DEF IInv, StackOK
  <2>2. /\ Rank(stack[1].kind) < Rank(stack[2].kind)
        /\ Rank(stack[2].kind) < Rank(stack[3].kind)
        /\ Rank(stack[3].kind) < Rank(stack[4].kind)
    BY <2>1 DEF IInv, StackOK
  <2>3. \A kind : Rank(kind) \in 1..3
    BY DEF Rank
  <2> QED BY <2>2, <2>3
<1> QED BY <1>1, Invariance, PTL

\* No menu outlives the role it was built for (menu/bluetooth.c, menu/bluetooth_connect.c).
THEOREM MenusFit == Spec => []MenusFitRole
<1>1. IInv => MenusFitRole
  <2> SUFFICES ASSUME IInv, Idle, NEW menu \in Range(stack)
               PROVE  /\ menu.kind = "bluetooth" =>
                           Range(menu.items) \ {"Connect", "Disconnect"}
                             = Range(push_menu_bluetooth) \ {"Connect", "Disconnect"}
                      /\ menu.kind = "connect" => client
    BY DEF MenusFitRole
  <2>1. Fits(menu.kind, menu.items)
    <3>1. PICK i \in DOMAIN stack : menu = stack[i]
      BY DEF Range
    <3>2. i \in 1..Len(stack) /\ stack # << >>
      BY <3>1 DEF IInv, StackOK
    <3> QED BY <3>1, <3>2, IdleIs, Complete, Parts
  <2>2. ASSUME menu.kind = "bluetooth"
        PROVE  Range(menu.items) \ {"Connect", "Disconnect"}
                 = Range(push_menu_bluetooth) \ {"Connect", "Disconnect"}
    <3>1. \A list \in BluetoothItems :
            Range(list) \ {"Connect", "Disconnect"} = OfRole
      BY OfRoleIs
    <3>2. push_menu_bluetooth \in BluetoothItems
      BY DEF push_menu_bluetooth, BluetoothItems
    <3>3. menu.items \in BluetoothItems
      BY <2>1, <2>2 DEF Fits
    <3> QED BY <3>1, <3>2, <3>3
  <2> QED BY <2>1, <2>2 DEF Fits
<1> QED BY <1>1, Invariance, PTL

\* The cursor is on the screen and on an item, or the menu is an empty list of devices
\* (ui/menu.c; menu/bluetooth_connect.c 23-40).
THEOREM FocusShown == Spec => []FocusOnScreen
<1>1. IInv => FocusOnScreen
  <2> SUFFICES ASSUME IInv PROVE FocusOnScreen
    OBVIOUS
  <2>1. ASSUME Idle, NEW menu \in Range(stack)
        PROVE  /\ menu.index \in menu.scroll..(menu.scroll + Lines - 1)
               /\ menu.index < menu.length \/ (menu.kind = "connect" /\ menu.length = 0)
    <3>1. PICK i \in DOMAIN stack : menu = stack[i]
      BY <2>1 DEF Range
    <3>2. i \in 1..Len(stack) /\ stack # << >> /\ menu \in Menu /\ Placed(menu)
      BY <3>1 DEF IInv, StackOK
    <3>3. Fits(menu.kind, menu.items)
      BY <2>1, <3>1, <3>2, IdleIs, Complete, Parts
    <3>4. Counted(menu)
      <4>1. i = Len(stack) => menu = Top
        BY <3>1, <3>2, TopIs, Parts
      <4> QED BY <2>1, <3>1, <3>2, <4>1, IdleIs DEF IInv, BelowCounted, TopCounted
    <3>5. /\ menu.index \in Nat /\ menu.scroll \in Nat /\ menu.length \in Nat
          /\ menu.kind \in Kinds /\ menu.length = Len(menu.items)
      BY <3>2, <3>4 DEF Menu, Counted
    <3>6. menu.index \in menu.scroll..(menu.scroll + Lines - 1)
      BY <3>2, <3>5, SizesAssumption DEF Placed
    <3>7. menu.length = 0 => menu.kind = "connect"
      BY <3>3, <3>5, NoItems
    <3> QED BY <3>2, <3>5, <3>6, <3>7 DEF Placed
  <2>2. Doing("lost") => Top.kind = "connect"
    BY TodoHead DEF IInv, Doing, StepSays, HeadSays
  <2> QED BY <2>1, <2>2 DEF FocusOnScreen
<1> QED BY <1>1, Invariance, PTL

\* The open main menu shows what is set (menu/main.c, ui/menu_items/).
THEOREM SettingsAreShown == Spec => []SettingsShown
<1>1. IInv => SettingsShown
  <2> SUFFICES ASSUME IInv, NEW menu \in Range(stack), menu.kind = "main"
               PROVE  shown.keymap = keymap /\ shown.strip = strip /\ shown.reset = reset
    BY DEF SettingsShown
  <2>1. PICK i \in DOMAIN stack : menu = stack[i]
    BY DEF Range
  <2>2. i \in 1..Len(stack) /\ stack[i].kind = "main"
    BY <2>1 DEF IInv, StackOK
  <2> QED BY <2>2 DEF IInv, MainShown
<1> QED BY <1>1, Invariance, PTL

-------------------------------------------------------------------------------
(* The display *)

\* In the middle of the main loop's status, its answer is the link's, unless an interrupt
\* has drawn since, whose icons are.
ScreenInv ==
  /\ Doing("draw") => /\ lag \in {"none", "race"}
                      /\ lag = "none" => Head(todo).arg = (link = "connected")
                      /\ lag = "race" => screen = Status(Icons(link = "connected"))
  /\ ScreenTrue

\* Calls are to come, and the first is not the rest of a status: nothing is said of the
\* display.
Busy(steps) == steps # << >> /\ Head(steps).op # "draw"

LEMMA BusyScreen == ASSUME Busy(todo') PROVE ScreenInv'
BY DEF Busy, ScreenInv, ScreenTrue, Doing, Idle

LEMMA AllBusy ==
  /\ Busy(ui_render) /\ Busy(remembering) /\ Busy(losing) /\ Busy(closing)
  /\ Busy(connecting) /\ Busy(reopening) /\ Busy(starting_server)
  /\ Busy(switching_to_server) /\ Busy(starting_client) /\ Busy(switching_to_client)
  /\ Busy(stopping_client) /\ Busy(stopping)
  /\ \A kind \in Kinds : Busy(opening(kind))
  /\ \A later \in Seq(Steps) :
       Busy(rendering(later)) /\ Busy(popping(later)) /\ Busy(unlinking(later))
  /\ \A missing \in Seq(Labels) :
       /\ Busy(filling(missing)) /\ Busy(counting(missing))
       /\ missing # << >> => Busy(slotting(missing))
<1>1. /\ Busy(ui_render) /\ Busy(remembering) /\ Busy(losing) /\ Busy(closing)
      /\ Busy(connecting) /\ Busy(reopening) /\ Busy(starting_server)
      /\ Busy(switching_to_server) /\ Busy(starting_client) /\ Busy(switching_to_client)
      /\ Busy(stopping_client) /\ Busy(stopping)
  BY AllRead DEF Reads, Busy
<1>2. ASSUME NEW kind \in Kinds PROVE Busy(opening(kind))
  BY AllRead DEF Reads, Busy
<1>3. ASSUME NEW later \in Seq(Steps)
      PROVE  Busy(rendering(later)) /\ Busy(popping(later)) /\ Busy(unlinking(later))
  BY NowReads DEF Reads, Busy
<1>4. ASSUME NEW missing \in Seq(Labels)
      PROVE  /\ Busy(filling(missing)) /\ Busy(counting(missing))
             /\ missing # << >> => Busy(slotting(missing))
  BY NowReads DEF Reads, Busy
<1> QED BY <1>1, <1>2, <1>3, <1>4

LEMMA LaterBusy == ASSUME NEW later, LaterOK(later), later # << >> PROVE Busy(later)
BY LaterHead DEF HeadSays, Busy

LEMMA MicroBusy ==
  ASSUME IInv,
         \/ PushMenu \/ FillMenu \/ MenuAddSlot \/ MenuAddCount
         \/ FreeMenu \/ Unlink \/ ui_clear
  PROVE  Busy(todo')
<1>1. CASE PushMenu
  <2>1. PICK kind \in Kinds : Head(todo).arg = kind /\ Tail(todo) = ui_render /\ Opens(kind)
    BY <1>1, TodoHead DEF IInv, PushMenu, Doing, StepSays, HeadSays
  <2>2. PICK items \in Items(kind) : todo' = filling(items)
    BY <1>1, <2>1 DEF PushMenu, filling
  <2> QED BY <2>1, <2>2, ItemsFit, AllBusy DEF Opens
<1>2. CASE FillMenu
  BY <1>2, FillMenuGoes, AllBusy
<1>3. CASE MenuAddSlot
  <2>1. PICK missing \in Seq(Labels) :
          missing # << >> /\ Tail(todo) = counting(Tail(missing))
    BY <1>3, TodoHead DEF IInv, MenuAddSlot, Doing, StepSays
  <2>2. Tail(missing) \in Seq(Labels) /\ todo' = counting(Tail(missing))
    BY <1>3, <2>1 DEF MenuAddSlot, Done
  <2> QED BY <2>2, AllBusy
<1>4. CASE MenuAddCount
  <2>1. \E missing \in Seq(Labels) : todo' = filling(missing)
    BY <1>4, TodoHead DEF IInv, MenuAddCount, Doing, StepSays, Done
  <2> QED BY <2>1, AllBusy
<1>5. CASE FreeMenu
  <2>1. \E later \in AfterPop : LaterOK(later) /\ todo' = unlinking(later)
    BY <1>5, TodoHead DEF IInv, FreeMenu, Doing, StepSays, Done
  <2> QED BY <2>1, LaterIsSteps, AllBusy
<1>6. CASE Unlink
  <2>1. todo' \in AfterPop
    BY <1>6, TodoHead DEF IInv, Unlink, Doing, StepSays, Done
  <2> QED BY <2>1, AllBusy DEF AfterPop
<1>7. CASE ui_clear
  <2>1. /\ LaterOK(todo) /\ "bluetooth" \in Kinds
        /\ \/ todo = closing /\ Tail(todo) = ui_render
           \/ todo = reopening /\ Tail(todo) = opening("bluetooth")
    BY <1>7, TodoHead DEF IInv, ui_clear, Doing, StepSays, HeadSays, Kinds
  <2>2. todo' \in {Tail(todo), popping(todo)}
    BY <1>7 DEF ui_clear, popping
  <2>3. todo \in Seq(Steps)
    BY <2>1, LaterIsSteps
  <2> QED BY <2>1, <2>2, <2>3, AllBusy
<1> QED BY <1>1, <1>2, <1>3, <1>4, <1>5, <1>6, <1>7

LEMMA BluetoothBusy ==
  ASSUME IInv,
         \/ midi_ble_server_init \/ midi_ble_client_init \/ midi_ble_deinit
         \/ midi_ble_client_deinit \/ midi_ble_client_connect \/ midi_ble_set_state_as_initial
  PROVE  Busy(todo')
<1>1. ASSUME NEW later,
             later \in {ui_render, closing, reopening, starting_server, starting_client,
                        stopping_client},
             todo' \in {later, ui_render \o later}
      PROVE  Busy(todo')
  <2>1. Busy(later) /\ later \in Seq(Steps)
    BY <1>1, AllBusy, AllRead DEF Reads
  <2> QED BY <1>1, <2>1, AllBusy DEF rendering
<1>2. CASE midi_ble_server_init
  <2>1. todo' = closing
    BY <1>2, TodoHead DEF IInv, midi_ble_server_init, Doing, StepSays, HeadSays, Done
  <2> QED BY <1>1, <2>1
<1>3. CASE midi_ble_client_init
  <2>1. todo' \in {reopening, ui_render \o reopening}
    BY <1>3, TodoHead DEF IInv, midi_ble_client_init, Doing, StepSays, HeadSays, Done
  <2> QED BY <1>1, <2>1
<1>4. CASE midi_ble_deinit
  <2>1. todo' \in {stopping_client, starting_client}
    BY <1>4, TodoHead DEF IInv, midi_ble_deinit, Doing, StepSays, HeadSays, Done
  <2> QED BY <1>1, <2>1
<1>5. CASE midi_ble_client_deinit
  <2>1. Tail(todo) \in {closing, starting_server}
    BY <1>5, TodoHead DEF IInv, midi_ble_client_deinit, Doing, StepSays, HeadSays
  <2>2. todo' \in {Tail(todo), ui_render \o Tail(todo)}
    BY <1>5 DEF midi_ble_client_deinit
  <2> QED BY <1>1, <2>1, <2>2
<1>6. CASE midi_ble_client_connect
  <2>1. todo' = closing
    BY <1>6, TodoHead DEF IInv, midi_ble_client_connect, Doing, StepSays, HeadSays, Done
  <2> QED BY <1>1, <2>1
<1>7. CASE midi_ble_set_state_as_initial
  <2>1. todo' = ui_render
    BY <1>7, TodoHead
       DEF IInv, midi_ble_set_state_as_initial, Doing, StepSays, HeadSays, Done
  <2> QED BY <1>1, <2>1
<1> QED BY <1>2, <1>3, <1>4, <1>5, <1>6, <1>7

LEMMA KeyBusy ==
  ASSUME IInv,
         \/ OnlyRender \/ OpenMainMenu \/ Return \/ Close \/ NavigateUp \/ NavigateDown
         \/ NavigateKeymap \/ NavigateStrip \/ NavigateReset \/ NavigateNothing
  PROVE  Busy(todo')
<1>1. todo' \in {ui_render, losing, closing, opening("main"), popping(ui_render)}
  BY DEF OnlyRender, OpenMainMenu, Return, Close, NavigateUp, NavigateDown, NavigateKeymap,
         NavigateStrip, NavigateReset, NavigateNothing, losing, closing, opening, popping
<1>2. "main" \in Kinds /\ ui_render \in Seq(Steps)
  BY RenderSeq DEF Kinds
<1> QED BY <1>1, <1>2, AllBusy

LEMMA RenderMenuScreen == IInv /\ RenderMenu => ScreenInv'
<1> SUFFICES ASSUME IInv, RenderMenu PROVE ScreenInv'
  OBVIOUS
<1>1. LaterOK(todo')
  BY TodoHead DEF IInv, RenderMenu, Doing, StepSays, Done
<1>2. CASE todo' # << >>
  BY <1>1, <1>2, LaterBusy, BusyScreen
<1>3. CASE todo' = << >>
  <2>1. /\ screen' = render_menu(Top) /\ lag' = "none"
        /\ UNCHANGED <<stack, shown, bluetooth, keymap>>
    BY DEF RenderMenu, settings
  <2>2. screen' = Picture(link = "connected")' /\ stack' # << >>
    BY <2>1 DEF Picture, render_menu, Line, Top, RenderMenu
  <2> QED BY <1>3, <2>1, <2>2 DEF ScreenInv, ScreenTrue, Doing
<1> QED BY <1>2, <1>3

LEMMA StatusTestScreen == IInv /\ StatusTest => ScreenInv'
<1> SUFFICES ASSUME IInv, StatusTest PROVE ScreenInv'
  OBVIOUS
<1>1. PICK later : later = Tail(todo) /\ LaterOK(later)
  BY TodoHead DEF IInv, StatusTest, Doing, StepSays
<1>2. PICK answer \in BOOLEAN :
        answer = (link = "connected") /\ todo' = drawing(answer, later)
  BY <1>1 DEF StatusTest, drawing
<1>3. todo' # << >> /\ Head(todo').arg = answer
  BY <1>1, <1>2, LaterIsSteps, NowReads DEF Reads
<1>4. lag' = "none" /\ link' = link
  BY DEF StatusTest, bluetooth
<1> QED BY <1>2, <1>3, <1>4 DEF ScreenInv, ScreenTrue, Idle

LEMMA StatusDrawScreen == IInv /\ ScreenInv /\ StatusDraw => ScreenInv'
<1> SUFFICES ASSUME IInv, ScreenInv, StatusDraw PROVE ScreenInv'
  OBVIOUS
<1>1. LaterOK(todo') /\ stack = << >> /\ \E answer \in BOOLEAN : Head(todo).arg = answer
  BY TodoHead DEF IInv, StatusDraw, Doing, StepSays, Done
<1>2. PICK answer \in BOOLEAN : Head(todo).arg = answer
  BY <1>1
<1>3. /\ UNCHANGED <<stack, keymap, server, link, lag>>
      /\ screen' = Status(Icons(answer) \cup IF lag = "race" THEN screen.icons ELSE {})
  BY <1>2 DEF StatusDraw, settings, bluetooth
<1>4. CASE todo' # << >>
  BY <1>1, <1>4, LaterBusy, BusyScreen
<1>5. CASE todo' = << >> /\ lag = "none"
  <2>1. screen' = Status(Icons(link = "connected"))
    <3>1. answer = (link = "connected")
      BY <1>2, <1>5 DEF ScreenInv, StatusDraw
    <3>2. Icons(answer) = Icons(link = "connected")
      BY <3>1
    <3> QED BY <1>3, <1>5, <3>2 DEF Status
  <2>2. screen' = Picture(link = "connected")'
    BY <1>1, <1>3, <2>1 DEF Picture, Status, Icons
  <2> QED BY <1>3, <1>5, <2>2 DEF ScreenInv, ScreenTrue, Doing
<1>6. CASE todo' = << >> /\ lag = "race"
  <2>1. screen.icons = Icons(link = "connected")
    BY <1>6 DEF ScreenInv, StatusDraw, Status
  <2>2. \A yes : Icons(yes) \subseteq {"Bluetooth", "..."}
    BY DEF Icons
  <2>3. PICK icons \in SUBSET {"Bluetooth", "..."} :
          icons = Icons(answer) \cup Icons(link = "connected")
    BY <2>2
  <2>4. screen' = Status(icons)'
    BY <1>3, <1>6, <2>1, <2>3 DEF Status
  <2>5. (Icons(link = "connected") \subseteq icons)'
    BY <1>3, <2>3 DEF Icons
  <2> QED BY <1>3, <1>6, <2>4, <2>5 DEF ScreenInv, ScreenTrue, Doing
<1> QED BY <1>4, <1>5, <1>6 DEF ScreenInv, StatusDraw

LEMMA InterruptScreen == IInv /\ (Connected \/ Disconnected) => ScreenInv'
<1> SUFFICES ASSUME IInv, Connected \/ Disconnected PROVE ScreenInv'
  OBVIOUS
<1>1. /\ UNCHANGED <<stack, todo, shown, keymap, strip, reset, server>>
      /\ screen' = Picture(link' = "connected")
      /\ lag' = IF Doing("draw") THEN "race" ELSE "none"
  BY DEF Connected, Disconnected, Rendered, settings
<1>2. CASE Doing("draw")
  <2>1. stack = << >>
    BY <1>2, TodoHead DEF IInv, Doing, StepSays
  <2>2. screen' = Status(Icons(link = "connected"))'
    BY <1>1, <2>1 DEF Picture, Status, Icons
  <2>3. ~Idle'
    BY <1>1, <1>2 DEF Idle, Doing
  <2> QED BY <1>1, <1>2, <2>2, <2>3 DEF ScreenInv, ScreenTrue
<1>3. CASE ~Doing("draw")
  <2>1. screen' = Picture(link = "connected")'
    BY <1>1 DEF Picture, Status, Icons, render_menu, Line, Top
  <2>2. ~Doing("draw")' /\ lag' = "none"
    BY <1>1, <1>3 DEF Doing
  <2> QED BY <2>1, <2>2 DEF ScreenInv, ScreenTrue
<1> QED BY <1>2, <1>3

LEMMA StutterScreen == ScreenInv /\ UNCHANGED vars => ScreenInv'
<1> SUFFICES ASSUME ScreenInv, UNCHANGED vars PROVE ScreenInv'
  OBVIOUS
<1>1. UNCHANGED <<stack, todo, shown, keymap, server, link, screen, lag>>
  BY DEF vars, settings, bluetooth, display
<1>2. /\ Doing("draw")' <=> Doing("draw")
      /\ Idle' <=> Idle
      /\ Icons(link = "connected")' = Icons(link = "connected")
      /\ \A icons : Status(icons)' = Status(icons)
  BY <1>1 DEF Doing, Idle, Icons, Status
<1>3. Picture(link = "connected")' = Picture(link = "connected")
  <2>1. stack # << >> => render_menu(Top)' = render_menu(Top)
    BY <1>1 DEF render_menu, Line, Top
  <2> QED BY <1>1, <1>2, <2>1 DEF Picture
<1>4. ScreenTrue'
  BY <1>1, <1>2, <1>3 DEF ScreenInv, ScreenTrue
<1> QED BY <1>1, <1>2, <1>4 DEF ScreenInv

LEMMA InitScreen == Init => ScreenInv
<1> SUFFICES ASSUME Init PROVE ScreenInv
  OBVIOUS
<1>1. CASE client
  <2>1. Busy(todo)
    BY <1>1, AllBusy DEF Init
  <2> QED BY <2>1 DEF Busy, ScreenInv, ScreenTrue, Doing, Idle
<1>2. CASE ~client
  <2>1. /\ todo = << >> /\ stack = << >> /\ screen = Status({}) /\ link = "none"
        /\ lag = IF server THEN "boot" ELSE "none"
    BY <1>2 DEF Init
  <2>2. ~server => Picture(link = "connected") = Status({})
    BY <2>1 DEF Picture, Icons
  <2> QED BY <2>1, <2>2 DEF ScreenInv, ScreenTrue, Doing
<1> QED BY <1>1, <1>2

LEMMA StepScreen == IInv /\ ScreenInv /\ [Next]_vars => ScreenInv'
<1> SUFFICES ASSUME IInv, ScreenInv, [Next]_vars PROVE ScreenInv'
  OBVIOUS
<1>1. ASSUME NEW item \in WithAction, Enter(item) PROVE Busy(todo')
  BY <1>1, EnterGoes, LaterBusy
<1> QED BY <1>1, BusyScreen, MicroBusy, BluetoothBusy, KeyBusy, RenderMenuScreen,
           StatusTestScreen, StatusDrawScreen, InterruptScreen, StutterScreen DEF Next

\* Between two keys the display shows what is so, whatever the interrupts drew in the
\* middle of the main loop's rendering; after such a race it may show an icon too many but
\* never hides a connection (ui/ui.c, ui/status.c 56-65).
THEOREM ScreenIsTrue == Spec => []ScreenTrue
<1>1. ScreenInv => ScreenTrue
  BY DEF ScreenInv
<1> QED BY <1>1, Invariance, InitScreen, StepScreen, PTL DEF Spec

===============================================================================
