CONSTANTS
    now = now
    later = later
    w1 = w1
    w2 = w2
    r1 = r1
    NoMsg = NoMsg
    Ids <- MCIds
    Scheduled <- MCImmediateOnly
    PriorityOf <- MCOnePriority
    Workers <- MCWorkers
    Requests <- MCRequests
    MaxRetries = 1
    SchedulerBatchSize = 2
    ArchiveBatchSize = 1
    MaxBatch = 2
    Faults <- MCNoDuplicates
    MaxFaults = 2
SPECIFICATION Spec
INVARIANTS SingleCopy OutcomeIsUnique AnnouncedIsStored EveryCopyOnTrack
PROPERTIES ArchiveIsImmutable OutcomeIsFinal ImplementsPromise
SYMMETRY MCWorkerSymmetry
