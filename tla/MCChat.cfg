SPECIFICATION Spec
CONSTANTS
    MaxPrompts = 2
    MaxSessions = 3
    MaxFaults = 2
INVARIANTS TypeOK HistorySaved AnswerBesidePrompt
PROPERTY EveryPromptAnswered
CHECK_DEADLOCK FALSE
