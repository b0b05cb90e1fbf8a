CONSTANT Stray <- MCStray
SPECIFICATION FairSpec
CONSTANTS
  Keys <- MCMenuKeys
  N_KEYMAPS = 2
  RawNotes <- MCMenuRawNotes
  Slots = 3
PROPERTIES
  ImplementsInstrument
  KeepsListening
