SPECIFICATION FairSpec
CONSTANTS
    Tasks = {t1, g1}
    Guards = {g1}
    Waiters = {w1}
    Listeners = {l1}
    Reasons = {"barge_in"}
    MaxTurn = 2
INVARIANTS TypeOK TurnStopped NoLateKill GuardOutcome
PROPERTIES FireReleases
