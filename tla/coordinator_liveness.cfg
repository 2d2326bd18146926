SPECIFICATION FairSpec
CONSTANTS
    c1 = c1
    c2 = c2
    Callers = {c1, c2}
    Coordinator = Coordinator
    QueueSize = 6
    Commands = {"HTTPData"}
    BootOrder <- MCShortBoot
    Booted = TRUE
    Lossy = FALSE
    MaxCalls = 1
    MaxResets = 1
    MaxStrays = 0
    MaxUnsolicited = 0
PROPERTY CallReturns
