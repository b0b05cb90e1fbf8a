---------------------------- MODULE MCAnalogInputs ----------------------------
(* A strip that is touched at its low end, or released: a battery's voltage reads  *)
(* as neither. A voltage in every interval the thresholds and the margin cut out, *)
(* but the lowest; two of them lie around a threshold and less than the margin    *)
(* apart. What follows the table reads as a voltage below all, or above all the   *)
(* battery can have.                                                              *)
EXTENDS AnalogInputs

MCStrip    == {100, 4000}
MCVoltages == {358, 362, 370, 392, 400}
MCBeyonds  == {0, 1000}
===============================================================================
