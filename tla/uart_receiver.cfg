SPECIFICATION FairLine
CONSTANTS
    Delimiter <- MCDelimiter
    LineSize = 2
    RingSize = 4
    ChunkSize = 1
    QueueSize = 2
    LineQueueSize = 1
    Messages <- MCMessages
    MaxBytes = 7
    MaxErrors = 1
    StreamSize = 3
    TxChunk = 2
    TxBufferSize = 3
    Transmissions <- MCTransmissions
    MaxTransmitted = 7
    Duplex = FALSE
INVARIANT TypeOK
INVARIANT InOrder
INVARIANT LossIsLocal
INVARIANT IntactMessagesAreCalledBack
INVARIANT NothingIsPassedOver
PROPERTY EverythingArrives
PROPERTY EverythingIsTransmitted
CHECK_DEADLOCK FALSE
