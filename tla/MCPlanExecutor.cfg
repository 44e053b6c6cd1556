SPECIFICATION Spec
CONSTANTS
    Loops = {l1, l2}
    Plans = {p1}
    Nodes = {1, 2, 3}
    Deps <- Fork
    MaxRetries = 1
    MaxCrashes = 1
    MaxControls = 3
INVARIANTS TypeOK CompletedMeansDone DependenciesFirst StopsAfterOneNode
PROPERTY ExecutionEnds
CHECK_DEADLOCK FALSE
