SPECIFICATION SetSpec
CONSTANTS
  Devs = {stylus, eraser}
  Touch = stylus
  Rotations = {0}
  Levels = {2, 5}
  Windows = {1, 4}
  ToolIds = {0}
  DefaultSuppress = 2
  Users = {u1}
  Resting = Resting
  ViaDisabled = FALSE
INVARIANTS SuppressKept
