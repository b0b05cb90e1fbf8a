--------------------------- MODULE MCKeyboardMatrix ---------------------------
(* One key or more of every row, at both ends of it, keys without a position,     *)
(* and codes of 128 and more beyond the tables.                                   *)
EXTENDS KeyboardMatrix, TLC

MCKeys == {1, 4, 5, 6, 8, 15, 18, 30, 39, 42, 46, 49, 53, 56, 100, 103, 127,
           128, 129, 130, 131, 132}

\* Beyond keycode2row lies keycode2column or anything else: the signs, the rows of
\* the switch, a row above them, the largest column an int8_t holds.
MCStray == (128 :> <<1, 127>>) @@ (129 :> <<2, 11>>) @@ (130 :> <<-128, 5>>)
           @@ (131 :> <<77, 9>>) @@ (132 :> <<3, -1>>)
===============================================================================
