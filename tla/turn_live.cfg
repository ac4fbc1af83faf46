\* One round of two calls, one of them destructive.
CONSTANTS
    None = None
    c1 = c1
    c2 = c2
    Conns = {c1, c2}
    ShellConns = {c2}
    Tools <- DropAndLook
    MaxRounds = 1
    MaxBatch = 2
SPECIFICATION FairSpec
PROPERTIES TurnEnds ImplementsSupervision
CHECK_DEADLOCK FALSE
