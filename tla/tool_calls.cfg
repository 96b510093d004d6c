SPECIFICATION Spec
CONSTANTS
    Calls = {c1}
    Interval <- MCInterval
    MaxInterval = 2
    MaxElapsed = 3
    RetryAfters <- MCRetryAfters
    MaxAttempts = 3
    MaxDelay = 2
INVARIANTS
    TypeOK
    WritesReachPumbleOnce
    OutcomesTellTheTruth
    AuditIsTrue
    NoHammering
PROPERTY
    CallsEnd
