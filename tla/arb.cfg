SPECIFICATION SceneSpec
CONSTANTS
  Devices = {"stylus", "grip", "eraser", "cursor", "pad", "screen", "touch"}
  DevType <- MCDevType
  PhyId <- MCPhyId
  Relative = {"grip", "cursor"}
  Fingers = {1, 2}
  Ids <- MCIds
  Serials = {0, 1, 2}
  RawSample = 4
  Tools = {"pen", "brush", "propen", "rubber", "puck", "keys", "poke1", "finger1"}
  Tool <- MCTool
  Tablet <- MCTablet
  IdKind <- MCIdKind
  BoundTo <- MCBoundTo
  Bindable = {"grip"}
  Togglable = {"touch", "gesture"}
  Pluggable = {"touch"}
  None = None
INVARIANTS PointerExclusive ServerAgrees NoGhostProximity
PROPERTIES LoserReleases ControlSpec
