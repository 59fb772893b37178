SPECIFICATION Spec
CONSTANTS
  Null = Null
  Pen = Pen
  Finger = Finger
  Nodes = {Pen, Finger}
  Devs = {d1, d2, d3, d4}
  Commons = {c1, c2, c3, c4}
  Tablet <- MCTablet
  Base <- MCBase
  Part <- MCPart
  Offers <- MCOffers
  ToolSerials <- MCSerials
  Configured <- MCConfigured
  WithConf = FALSE
  Serials = 0
  ServerFd = FALSE
  MaxFaults = 0
INVARIANTS TouchLinked
