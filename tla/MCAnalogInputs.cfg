SPECIFICATION Spec
CONSTANTS
  StripReadings <- MCStrip
  Voltages <- MCVoltages
  Beyonds <- MCBeyonds
INVARIANTS
  TypeOK
  BatteryReadsBattery
  RiseTakesMargin
PROPERTIES
  StripReadsStrip
  NoFlicker
