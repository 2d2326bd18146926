SPECIFICATION FairSpec
CONSTANTS
    Tasks = {"logger"}
    QueueSize = 2
    ChunkSize = 2
    LineSize = 2
    LogParts = 2
    Inputs <- MCInputs
    MaxInputs = 2
    MaxUnplugs = 1
INVARIANT LinesAreTyped
INVARIANT PromptIsCurrent
PROPERTY LoggersReturn
PROPERTY MessagesAreCutAtTheEnd
CHECK_DEADLOCK FALSE
