SPECIFICATION FairSpec
CONSTANTS
    Capacity = 2
    Policies = {"drop_oldest", "drop_newest", "reject"}
    Priorities <- TwoBands
    Consumers = {c1, c2}
    MaxOffers = 5
INVARIANTS TypeOK NoLostWakeup Conservation StableOrder
PROPERTIES ImplementsChannel
