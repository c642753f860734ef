CONSTANTS
    n1 = n1
    n2 = n2
    n3 = n3
    n4 = n4
    k1 = k1
    r1 = r1
    r2 = r2
    NoMsg = NoMsg
    NoKey = NoKey
    Ids <- MCTwoIds
    Scheduled <- MCScheduled
    PriorityOf <- MCPriorityOf
    MaxRetries = 0
    Faults <- MCFaults
    MaxFaults = 0
    Keys <- MCKeys
    Requests <- MCRequests
    MaxBatch = 2
    ArchiveBatchSize = 2
SPECIFICATION KeySpec
INVARIANTS UsedKeyIsNoError
CHECK_DEADLOCK FALSE
