SPECIFICATION FairSpec
CONSTANTS
    Plans <- MCPlans
    MaxReadRetries = 2
    FirstBackoff = 1
    Capacity = 2
    HangsUp = TRUE
INVARIANTS
    TypeOK
    Accounted
    EventsMatchReport
    RendererFollows
PROPERTIES
    CancelHonoured
    ImplementsBatch
    Ends
\* A run of the executor returns: its last state has no step left.
CHECK_DEADLOCK FALSE
