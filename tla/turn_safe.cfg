\* Two rounds of two calls, on a profile that may turn into one whose reads
\* need an approval as well.
CONSTANTS
    None = None
    c1 = c1
    c2 = c2
    Conns = {c1, c2}
    ShellConns = {c2}
    Tools <- WriteAndLook
    MaxRounds = 2
    MaxBatch = 2
SPECIFICATION Spec
INVARIANTS RefusalStopsBatch ShownIsPending PlanReads
PROPERTIES RunsAsApproved NothingStartsAfterAbort
CHECK_DEADLOCK FALSE
