SPECIFICATION Spec
CONSTANTS
    Loops = {l1}
    Plans = {p1, p2}
    Nodes = {1, 2}
    Deps <- Chain
    MaxRetries = 1
    MaxCrashes = 0
    MaxControls = 3
INVARIANT CompletedMeansDone
CHECK_DEADLOCK FALSE
