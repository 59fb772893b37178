SPECIFICATION MCSpec
CONSTANTS
  NChannels = 4
  Tools = {"pen", "rubber", "puck", "keys", "tip", "finger1", "finger2", "finger3", "finger4"}
  Tool <- MCTool
  Ids <- MCIds
  IdType <- MCIdType
  DeviceId <- MCDeviceId
  Nodes <- MCNodes
  Togglable = {"stylus", "eraser"}
  AnyTime = FALSE
INVARIANTS ToolsDistinct OutReported IdKnown ChannelAvailable OneHistory
PROPERTIES TypeAgrees
