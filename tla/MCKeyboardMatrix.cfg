SPECIFICATION Spec
CONSTANTS
  Keys <- MCKeys
  Stray <- MCStray
  MaxIndex = 8
INVARIANTS
  TypeOK
  ChordMatchesKey
  ChordInRange
  TransposedIsDataByte
