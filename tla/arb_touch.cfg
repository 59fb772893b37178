SPECIFICATION TouchSpec
CONSTANTS
  Devices = {"touch"}
  DevType <- MCDevType
  PhyId <- MCPhyId
  Relative = {}
  Fingers = {1, 2, 3}
  Ids <- MCIds
  Serials = {0, 1, 2, 3}
  RawSample = 4
  Tools = {"finger1", "finger2", "finger3"}
  Tool <- MCTool
  Tablet <- MCTablet
  IdKind <- MCIdKind
  BoundTo <- MCBoundTo
  Bindable = {}
  Togglable = {}
  Pluggable = {}
  None = None
INVARIANTS GestureEnds TouchesBalanced
PROPERTIES TapResolves
