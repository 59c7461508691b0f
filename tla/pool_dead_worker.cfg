SPECIFICATION FairSpec
CONSTANTS
    s1 = s1
    s2 = s2
    MaxItems = 2
    SessionOf <- MCSessionOf
    PriorityOf <- MCPriorityOf
    Workers = {w1}
    Capacity = 2
    CallersCancel = TRUE
    OperationsRaise = FALSE
PROPERTIES AllAnswered
