SPECIFICATION Spec
PROPERTIES
  DegradedEnds
  Settles
CONSTANTS
  Apps = {a}
  NoApp = none
  Intervals = {17, 33, 60}
  Rates = {30, 58, 59}
  SleepSteps = {1, 2}
  WarmupMs = 2
  CalibMs = 3
  CalibMinFrames = 2
  CalibMaxSamples = 3
  CalibMinIntervalMs = 50
  CalibMaxWaitMs = 5
  UnusableResetMs = 3
  DegradeHoldMs = 1
  SlowDropIntervalMs = 2
  UpshiftHoldMs = 2
  SceneHeavyHoldMs = 4
  UpshiftDetectFps = 2
  Conservative = 2
  QuickDrop = TRUE
  OccupancyTrigger = TRUE
