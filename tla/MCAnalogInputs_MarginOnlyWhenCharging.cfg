SPECIFICATION Spec
CONSTANTS
  StripReadings <- MCStrip
  Voltages <- MCVoltages
  Beyonds <- MCBeyonds
INVARIANTS
  MarginOnlyWhenCharging
