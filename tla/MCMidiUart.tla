------------------------------ MODULE MCMidiUart ------------------------------
(* Two notes with the numbers of a controller and of the pedal, and the highest note, *)
(* whose number is the status byte of a note on; a pitch bend whose low byte is that  *)
(* of all notes off, with the high bit above it. Two values are set, one of them with *)
(* writes that fail and back to the value before; an interrupt sends all six.         *)
EXTENDS MidiUart

MCNotes == {CONTROL_SUSTAIN, CC_SOUND_CONTROLLER_3_RELEASE, 144}

MCSettings ==
  [v \in Values |->
     CASE v = CMD_PITCHBEND -> {128 + CONTROL_ALL_NOTES_OFF_B1}
       [] v = CC_SOUND_CONTROLLER_3_RELEASE -> {0, 5}
       [] OTHER -> {}]

MCUnreliable == {CC_SOUND_CONTROLLER_3_RELEASE}
===============================================================================
