SPECIFICATION FairSpec
CONSTANTS
    s1 = s1
    s2 = s2
    MaxItems = 3
    SessionOf <- MCSessionOf
    PriorityOf <- MCPriorityOf
    Workers = {w1, w2}
    Capacity = 2
    CallersCancel = TRUE
    OperationsRaise = TRUE
INVARIANTS TypeOK RegistryExact FutureTellsTruth GracefulClose
PROPERTIES CancelledNeverStarts Progress
