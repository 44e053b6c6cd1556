\* Desktop mode: decisions and shutdown on the Qt main thread, the agent and
\* the voice runtime on worker threads of their own; rows may expire.
CONSTANTS
    a1 = a1
    a2 = a2
    main = main
    agent = agent
    voice = voice
    NoAction = NoAction
    Actions = {a1, a2}
    AgentThreads = {agent, voice}
    DecisionThreads = {main}
    ShutdownThreads = {main}
    Expiring = TRUE
SPECIFICATION Spec
INVARIANTS TypeOK EveryRunApproved ConsumedOnce
PROPERTIES RejectionIsFinal KeepsContract
