SPECIFICATION PipelineSpec
INVARIANTS
  TypeOK
  ResumesClean
PROPERTIES
  TargetsAreOwn
  DecisionTakesEffect
  PauseClears
CONSTANTS
  Apps = {a, b, c}
  NoApp = none
  QuickDrop = TRUE
  Occupancy = FALSE
  Raises = {1300}
  FasApps = {a, b}
  TunedApps = {}
  Clusters = 1
  Low = 100
  Sweet = 120
  Cap = 160
  Headroom = 1250
  DailyBand <- OrdinaryBand
