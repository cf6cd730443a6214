SPECIFICATION Spec
CONSTANTS
    Freqs = {1, 3, 5, 8}
    HwMin = 1
    HwMax = 8
    ProfileMin = 2
    Asks <- SomeAsks
    VendorBands <- Vendor
    Limits = {3, 8}
    TickSteps = {1}
    MaxTick = 1
    YieldMs = 2
    VerifyMs = 3
    RaiseHoldMs = 3
    ReleaseHoldMs = 2
    StepPermille = 250
    MinStep = 1
INVARIANTS OverriddenBriefly
PROPERTIES FallsGradually Regains
