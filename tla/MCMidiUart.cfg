SPECIFICATION Spec
CONSTANTS
  Notes <- MCNotes
  Settings <- MCSettings
  Unreliable <- MCUnreliable
INVARIANTS
  TypeOK
  NotesHeard
  ControlsHeard
