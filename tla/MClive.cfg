CONSTANTS
    now = now
    later = later
    w1 = w1
    w2 = w2
    r1 = r1
    NoMsg = NoMsg
    Ids <- MCIds
    Scheduled <- MCScheduled
    PriorityOf <- MCPriorityOf
    Workers <- MCWorkers
    Requests <- MCRequests
    MaxRetries = 1
    SchedulerBatchSize = 2
    ArchiveBatchSize = 1
    MaxBatch = 2
    Faults <- MCNoFaults
    MaxFaults = 0
SPECIFICATION LiveSpec
INVARIANTS NothingStranded
PROPERTIES KeepsPromise EventuallyCompleted EventuallyAttempted EventuallyDrained
