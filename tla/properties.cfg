SPECIFICATION MCSpec
CONSTANTS
  Number <- MCNumber
  Keycode <- MCKeycode
  Keysym <- MCKeysym
  Modifiers = {"Shift"}
  Capacity = 6
  Fetched = 4
  TooMany = 5
  MaxWords = 4
  CommandWords <- TypedWords
  NButtons = 4
  NForeign = 1
  MaxX11 = 32
  Junk = Junk
  NoProp = NoProp
  Clients = {x1, x2}
  Commands <- MCCommands
  Mapped = {2, 4}
  Contents <- MCContents
  Lists <- MCLists
  Idle = Idle
  Devs = {stylus, eraser, touch}
  Touch = touch
  Rotations = {0, 1}
  Levels = {2, 5}
  Windows = {4}
  ToolIds = {0, 1}
  DefaultSuppress = 2
  Users = {u1}
  Resting = Resting
  ViaDisabled = FALSE
INVARIANTS AcceptedIsMeant Reproduces HandlersAgree AllOrNothing MapsLand RotationTold
PROPERTIES ListenersTold
