SPECIFICATION MCSpec
CONSTANTS
  EventSize = 2
  BufferSize = 5
  MaxEvents = 3
  KernelSize = 7
  Frames <- MCFrames
  MaxReports = 3
  MaxBreaks = 2
  MaxSamples = 2
  RawSamples = {1, 2}
  Suppressions = {0, 1}
  Turns = {"none", "cw", "half", "ccw"}
  Areas <- MCAreas
  Axes <- MCAxes
  Points <- MCPoints
  MaxZ = 5
  MaxCurve = 10
  Tolerance = 2
  Thresholds <- MCThresholds
PROPERTIES SentIfMoved
CHECK_DEADLOCK FALSE
