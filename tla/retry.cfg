SPECIFICATION FairSpec
PROPERTIES BackoffSound TimerStops NextAttemptComes
CHECK_DEADLOCK FALSE
CONSTANTS
    unit = 3
    cap = 20
    jitter = TRUE
    maxAttempt = 8
    IntBits = 12
    AfterDone = {"receive", "returned"}
    MaxAttempts = 14
