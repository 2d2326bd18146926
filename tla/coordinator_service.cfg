SPECIFICATION Spec
CONSTANTS
    c1 = c1
    c2 = c2
    c3 = c3
    Callers = {c1, c2, c3}
    Coordinator = Coordinator
    QueueSize = 2
    Commands = {"AT"}
    BootOrder <- MCOneBoot
    Booted = TRUE
    Lossy = TRUE
    MaxCalls = 1
    MaxResets = 1
    MaxStrays = 0
    MaxUnsolicited = 0
SYMMETRY Symmetry
INVARIANT TypeOK
INVARIANT HeldCommandsAreLive
INVARIANT HeldOnce
INVARIANT WaitingIsHeld
INVARIANT NeverIdle
PROPERTY ImplementsService
CHECK_DEADLOCK FALSE
