SPECIFICATION Spec
CONSTANTS
    Gated <- MCGated
    Plain <- MCPlain
    MaxActions = 2
    MaxPlans = 2
    MaxTurns = 2
    MaxSteps = 2
    MaxRounds = 1
INVARIANTS TypeOK StepsSpendApprovals AsksForOwnAction
PROPERTIES CancelledForGood EveryTurnComesBack
CHECK_DEADLOCK FALSE
