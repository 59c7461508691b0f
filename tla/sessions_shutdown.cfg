SPECIFICATION Spec
CONSTANTS
    Ids = {s1}
    Callers = {c1}
    Limit = 1
    MaxHooks = 1
    IdleTimeout = 1
    MaxDuration = 2
    Nobody = Nobody
INVARIANTS ShutdownClosesAll
