SPECIFICATION Spec
CONSTANTS
    c1 = c1
    Callers = {c1}
    Coordinator = Coordinator
    QueueSize = 2
    Commands = {"CFUN", "HTTPData"}
    BootOrder <- MCShortBoot
    Booted = TRUE
    Lossy = FALSE
    MaxCalls = 2
    MaxResets = 0
    MaxStrays = 1
    MaxUnsolicited = 0
INVARIANT InconsistentIsTransient
CHECK_DEADLOCK FALSE
