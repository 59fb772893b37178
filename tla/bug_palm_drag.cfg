SPECIFICATION Spec
CONSTANTS
  Devices = {"stylus", "screen"}
  DevType <- MCDevType
  PhyId <- MCPhyId
  Relative = {}
  Fingers = {1, 2}
  Ids <- MCIds
  Serials = {0, 1, 2}
  RawSample = 4
  Tools = {"pen", "poke1", "poke2"}
  Tool <- MCTool
  Tablet <- MCTablet
  IdKind <- MCIdKind
  BoundTo <- MCBoundTo
  Bindable = {}
  Togglable = {}
  Pluggable = {}
  None = None
INVARIANTS DragReleased
