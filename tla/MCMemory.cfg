SPECIFICATION Spec
CONSTANTS
    Desk = Desk
    Writer = Writer
    Worker = Worker
    Nobody = Nobody
    NoClaim = NoClaim
    MaxAttempts = 2
    Claims <- MCClaims
    MaxPending = 2
    MaxRequests = 3
    MaxDrafts = 2
INVARIANTS MemoryTypeOK JobsOutliveNothing ProviderInPlace PendingBounded JobsAddUp ClaimsUnique
PROPERTIES ShutdownEnds
CHECK_DEADLOCK FALSE
