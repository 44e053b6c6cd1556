\* Three clients of two classes and two threads that shut the scheduler down.
\* After the shutdown, or at the sequence number bound, the system stops.
CONSTANTS
    c1 = c1
    c2 = c2
    c3 = c3
    main = main
    other = other
    NoClient = NoClient
    NoJob = NoJob
    Clients = {c1, c2, c3}
    Stoppers = {main, other}
    Priorities <- TwoClasses
    MaxSeq = 4
SPECIFICATION Spec
INVARIANTS TypeOK NoJobLost MetricsAddUp
PROPERTIES ServesByPriority ShutdownCompletes EveryCallAnswered
CHECK_DEADLOCK FALSE
