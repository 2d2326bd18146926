SPECIFICATION FairSpec
CONSTANTS
    c1 = c1
    Callers = {c1}
    Coordinator = Coordinator
    QueueSize = 3
    Commands = {"HTTPData", "HTTPRead"}
    BootOrder <- MCBootOrder
    Booted = TRUE
    Lossy = TRUE
    MaxCalls = 1
    MaxResets = 0
    MaxStrays = 0
    MaxUnsolicited = 0
PROPERTY CallReturns
CHECK_DEADLOCK FALSE
