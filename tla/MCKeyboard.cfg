CONSTANT Stray <- MCStray
SPECIFICATION Spec
CONSTANTS
  Keys <- MCKeys
  N_KEYMAPS = 2
  RawNotes <- MCRawNotes
  Slots = 2
INVARIANTS
  TypeOK
  NotesFollowOffset
PROPERTIES
  OnlyKeymapStrandsNotes
  ImplementsInstrument
