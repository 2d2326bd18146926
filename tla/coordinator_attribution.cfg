SPECIFICATION Spec
CONSTANTS
    c1 = c1
    c2 = c2
    Callers = {c1, c2}
    Coordinator = Coordinator
    QueueSize = 2
    Commands = {"HTTPData", "AT"}
    BootOrder <- MCShortBoot
    Booted = FALSE
    Lossy = TRUE
    MaxCalls = 2
    MaxResets = 0
    MaxStrays = 0
    MaxUnsolicited = 1
SYMMETRY Symmetry
INVARIANT OneOutstanding
INVARIANT AnswersAreOwn
CHECK_DEADLOCK FALSE
