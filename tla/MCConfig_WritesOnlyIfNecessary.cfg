SPECIFICATION Spec
CONSTANTS
  Devices = {d1, d2}
  N_KEYMAPS = 2
  Paddings = {p1, p2}
PROPERTIES
  WritesOnlyIfNecessary
