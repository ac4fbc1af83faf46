\* Two calls and another D3 user, three values of which x is a binary item,
\* and a trigger that may store b.
CONSTANTS
    o1 = o1
    o2 = o2
    a = a
    b = b
    x = x
    t1 = t1
    Ops = {o1, o2}
    Others = {t1}
    Values = {a, b, x}
    Unsupported = {x}
    Rewrites = {b}
    Absent = Absent
    None = None
    Free = Free
    Frames = 1
    Requests <- MixedRequests
SPECIFICATION Spec
INVARIANTS LockAfterUpload VerifyFailureIsReal
PROPERTY ImplementsRegister
SYMMETRY CallSymmetry
CHECK_DEADLOCK FALSE
