\* Three calls from up to two threads (chat and voice) on a pool of one worker;
\* the user may switch between two windows.  All calls return in the end.
CONSTANTS
    k1 = k1
    k2 = k2
    k3 = k3
    a1 = a1
    a2 = a2
    w1 = w1
    w2 = w2
    NoAction = NoAction
    NoWindow = NoWindow
    Calls = {k1, k2, k3}
    Actions = {a1}
    Windows = {w1, w2}
    PoolSize = 1
    MaxCallers = 2
SPECIFICATION Spec
INVARIANT GuardedEffect
CHECK_DEADLOCK FALSE
