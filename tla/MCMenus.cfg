SPECIFICATION Spec
CONSTANTS
  N_KEYMAPS = 2
  N_VALUES = 2
  Lines = 2
  MaxDevices = 2
\* A key in an empty Connect menu may stop the processor.
CHECK_DEADLOCK FALSE
INVARIANTS
  TypeOK
  OneRole
  MenusFitRole
  RenderReadsLive
  FocusOnScreen
  SettingsShown
  DepthBounded
  ScreenTrue
