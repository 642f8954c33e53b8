CONSTANTS
    MaxFaults = 1
    Focuses <- MCFocuses
SPECIFICATION Spec
INVARIANTS TypeOK EnabledIsActive RateKept
PROPERTY OnlyItsGroup
