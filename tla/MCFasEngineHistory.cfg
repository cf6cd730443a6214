SPECIFICATION HSpec
INVARIANTS
  BaseKnown
  CandidatesOfThisStay
  NoCrossGameBase
PROPERTIES
  BaseFallsOnlyWhenHeavy
  SilenceKeepsBase
  DegradeSustained
  ImplementsPhases
CONSTANTS
  Apps = {a, b}
  NoApp = none
  Intervals = {17, 33, 60}
  Rates = {17, 30, 58, 59}
  SleepSteps = {1, 2}
  WarmupMs = 2
  CalibMs = 3
  CalibMinFrames = 2
  CalibMaxSamples = 3
  CalibMinIntervalMs = 50
  CalibMaxWaitMs = 5
  UnusableResetMs = 3
  DegradeHoldMs = 2
  SlowDropIntervalMs = 2
  UpshiftHoldMs = 2
  SceneHeavyHoldMs = 4
  UpshiftDetectFps = 2
  Conservative = 0
  QuickDrop = FALSE
  OccupancyTrigger = FALSE
