SPECIFICATION Spec
INVARIANTS
  NoLostUpdate
  SettingsFollowMode
PROPERTIES
  Converges
CONSTANTS
  Mode = "mode"
  Cpu = "cpu"
  Versions = 2
  Apps = {"p", "q"}
  NoApp = "none"
  Modes <- ThreeModes
  LineOf <- Lines
  ModeOf <- OwnModes
  SettingsOf <- TwoSettings
  NoSettings = "no settings"
  WritesAtStart = FALSE
  Reverts = FALSE
