SPECIFICATION Spec
CONSTANTS
  Kinds = {"stylus", "cursor", "pad"}
  TPCChoices = {TRUE, FALSE}
  NButtons = 3
  NKeys = 1
  KeyCode <- MCKeyCode
  DefaultAction <- MCDefaultAction
  Bindings <- MCBindings
  WhileHeld = FALSE
  WheelAction <- MCWheelAction
  Rows <- MCRows
  Wheels = {0, 1}
  MaxRing = 4
  Threshold = 2
INVARIANTS ButtonsAgree ScrollHeld PanExact
