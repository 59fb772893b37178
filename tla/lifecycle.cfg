SPECIFICATION FairSpec
CONSTANTS
  Null = Null
  Pen = Pen
  Finger = Finger
  Nodes = {Pen, Finger}
  Devs = {d1, d2, d3, d4, d5}
  Commons = {c1, c2, c3, c4, c5}
  Tablet <- MCTablet
  Base <- MCBase
  Part <- MCPart
  Offers <- MCOffers
  ToolSerials <- MCSerials
  Configured <- MCConfigured
  WithConf = TRUE
  Serials = 1
  ServerFd = FALSE
  MaxFaults = 1
INVARIANTS CommonCounted OnePort ActiveLive
PROPERTIES RefSpec HotplugCompletes
