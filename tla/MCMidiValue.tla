----------------------------- MODULE MCMidiValue -----------------------------
(* The pitch bend, with its default in the middle, and one envelope value; what   *)
(* the others do, one of these two does.                                          *)
EXTENDS MidiValue

MCValues   == {"pitchbend", "attack"}
MCMax      == [v \in MCValues |-> IF v = "pitchbend" THEN 2 ELSE 1]
MCDefault  == [v \in MCValues |-> IF v = "pitchbend" THEN 1 ELSE 0]
MCEnvelope == {"attack"}
MCAllRoles == {"off", "server", "client"}
MCAckRoles == {"off", "server"}
==============================================================================
