CONSTANTS
    w1 = w1
    w2 = w2
    Workers <- MCWorkers
    MinLatency = 1
    MaxLatency = 2
    MaxRecords = 3
SPECIFICATION Spec
INVARIANTS CollectorTypeOK CountersBalance AverageNotTooSmall ChannelsKeepUp
SYMMETRY MCSymmetry
