CONSTANTS
    MaxFaults = 3
    Thresholds <- MCThresholds
SPECIFICATION AppSpec
INVARIANTS AppTypeOK SilentUnlessArmed ReadyForStandby
