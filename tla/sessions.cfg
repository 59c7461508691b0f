SPECIFICATION FairSpec
CONSTANTS
    Ids = {s1, s2}
    Callers = {c1}
    Limit = 2
    MaxHooks = 2
    IdleTimeout = 1
    MaxDuration = 2
    Nobody = Nobody
INVARIANTS TypeOK UnwoundOnce ReturnedMeansClosed NoOrphanSession
PROPERTIES TeardownEnds SeatFreed
