\* One action; no timeout, as Application configures the manager.  Every thread
\* may be done in the end.
CONSTANTS
    a1 = a1
    main = main
    agent = agent
    worker = worker
    NoAction = NoAction
    Actions = {a1}
    AgentThreads = {agent}
    DecisionThreads = {worker}
    ShutdownThreads = {main}
    Worker = worker
    Expiring = FALSE
SPECIFICATION CenterSpec
INVARIANT ConsumedOnce
CHECK_DEADLOCK FALSE
