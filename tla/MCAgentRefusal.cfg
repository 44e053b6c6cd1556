SPECIFICATION Spec
CONSTANTS
    Gated <- MCGated
    Plain <- MCPlain
    MaxActions = 2
    MaxPlans = 2
    MaxTurns = 2
    MaxSteps = 2
    MaxRounds = 1
PROPERTY RefusalEndsPlan
CHECK_DEADLOCK FALSE
