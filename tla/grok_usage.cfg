SPECIFICATION GrokSpec
CONSTANTS
    GrokSessions = {a}
    MaxRetries = 1
    Threshold = 2
    ResetAfter = 1
    MaxCompletions = 3
    MaxTime = 1
INVARIANTS UsageIsCurrent
