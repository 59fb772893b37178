SPECIFICATION Spec
CONSTANTS
  Kinds = {"stylus"}
  TPCChoices = {TRUE, FALSE}
  NButtons = 3
  NKeys = 1
  KeyCode <- MCKeyCode
  DefaultAction <- MCDefaultAction
  Bindings <- MCNoBindings
  WhileHeld = FALSE
  WheelAction <- MCWheelAction
  Rows <- MCRows
  Wheels = {0, 1}
  MaxRing = 4
  Threshold = 2
INVARIANTS TipReleases
