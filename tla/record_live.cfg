\* Two competing calls and nobody else, under the fairness of programs and
\* timers.
CONSTANTS
    o1 = o1
    o2 = o2
    a = a
    b = b
    x = x
    t1 = t1
    Ops = {o1, o2}
    Others = {}
    Values = {a, b}
    Unsupported = {}
    Rewrites = {}
    Absent = Absent
    None = None
    Free = Free
    Frames = 1
    Requests <- RaceRequests
SPECIFICATION FairSpec
INVARIANT OneWinner
PROPERTIES LockReleased CallSettles
CHECK_DEADLOCK FALSE
