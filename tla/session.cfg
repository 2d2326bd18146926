SPECIFICATION FairSpec
CONSTANTS
    QueueSize = 2
    BatchSize = 1
    MaxPackets = 3
    FailLimit = 2
    MaxFaults = 2
INVARIANT TypeOK
INVARIANT OneRequestAtATime
INVARIANT ResponsesAreOwn
INVARIANT NumbersIncrease
PROPERTY KeepsPosting
